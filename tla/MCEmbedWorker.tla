---------------------------- MODULE MCEmbedWorker ----------------------------
(* Instances of EmbedWorker for TLC. *)
EXTENDS EmbedWorker

CONSTANTS a, b, d

MCItems     == {a, b, d}
MCVectors   == {<<"vector of", t>> : t \in MCItems}
MCEmbedding == [t \in MCItems |-> <<"vector of", t>>]

\* A repeat within a request and an overlap of two: together three texts,
\* against a cache of two.
MCPayloads == {<<a, b, a>>, <<b, d>>}
=============================================================================
