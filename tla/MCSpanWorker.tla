---------------------------- MODULE MCSpanWorker ----------------------------
(* Instances of SpanWorker for TLC. *)
EXTENDS SpanWorker

CONSTANTS a, b, d

MCItems    == {a, b, d}
MCScores   == {<<"score of", x>> : x \in MCItems}
MCScore    == [x \in MCItems |-> <<"score of", x>>]

\* Requests of one and of three items: with chunks of two, chunks straddle
\* requests and requests straddle chunks.
MCPayloads == {<<a>>, <<b, a, d>>}
=============================================================================
