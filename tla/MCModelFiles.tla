---------------------------- MODULE MCModelFiles ----------------------------
(* Instances of ModelFiles for TLC. *)
EXTENDS ModelFiles

CONSTANTS graph, tokenizer, e5, fraud, old, pinned, wrong

MCNames    == {e5, fraud}
\* 1 is the catalog model, 2 a tabular one; 3 is written by hand under the name
\* of 2 and lists the graph of a text model, but not its tokenizer.
MCPaths    == {1, 2, 3}
MCNameOf   == <<e5, fraud, fraud>>
MCListed   == <<<<graph, tokenizer>>, <<graph>>, <<graph, tokenizer>>>>
MCReadOrder == <<<<tokenizer, graph>>, <<graph>>, <<tokenizer, graph>>>>

MCContents == {old, pinned, wrong}
MCUpstream == {pinned, wrong}

Dir(p, c) == [f \in ToSet(Listed[p]) |-> c]
Of(p, c, k) ==
    [name |-> NameOf[p], sums |-> [i \in DOMAIN Listed[p] |-> <<Listed[p][i], c>>], sessions |-> k]
GraphOnly(p, c) == [name |-> NameOf[p], sums |-> <<<<graph, c>>>>, sessions |-> 0]
NoSums(p) == [name |-> NameOf[p], sums |-> <<>>, sessions |-> 1]

Setup(c, d, p, q, r) == [disk |-> <<Dir(1, c), Dir(2, d), Dir(3, old)>>, passport |-> <<p, q, r>>]

\* Files without passports; a full directory; a tampered file; a passport that
\* lists nothing.
MCSetups ==
    {Setup(Absent, old, None, None, None),
     Setup(old, old, Of(1, old, 2), None, GraphOnly(3, old)),
     Setup(Absent, wrong, None, Of(2, old, 0), GraphOnly(3, old)),
     Setup(Absent, old, None, Of(2, old, 0), NoSums(3))}

\* Two passports of one name, each good.
MCNamesakes == {Setup(Absent, old, None, Of(2, old, 0), GraphOnly(3, old))}

\* An earlier revision of the catalog model, and nothing else.
MCCatalogOnly ==
    {[disk |-> <<Dir(1, old), Dir(2, Absent), Dir(3, Absent)>>,
      passport |-> <<Of(1, old, 2), None, None>>]}
=============================================================================
