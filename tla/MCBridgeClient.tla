--------------------------- MODULE MCBridgeClient ---------------------------
(* Instances of BridgeClient for TLC. *)
EXTENDS BridgeClient

CONSTANTS m, n, wide, wrong, undeclared, absent, x, y, ragged, huge

MCModels == {m, n, wide, wrong, undeclared, absent}
MCServed == MCModels \ {absent}
MCItems  == {x, y, ragged, huge}

MCSize     == [i \in MCItems |-> IF i = huge THEN 4 ELSE 1]
MCFeatures == [i \in MCItems |-> IF i = ragged THEN 2 ELSE 1]
MCWidth    == [k \in MCModels |-> IF k \in {wide, wrong} THEN 2 ELSE 1]
MCDim      == [k \in MCModels |-> IF k = undeclared THEN 0 ELSE IF k = wide THEN 2 ELSE 1]

R(k, i) == [model |-> k, item |-> i]

\* With a frame limit of 3: interleaved models, an empty block, a reply of the
\* wrong width, one of no declared width, one over the limit, an unknown model
\* after a known one, ragged rows, and a request over the limit.
MCBlocks == {<<>>,
             <<R(m, x), R(n, y), R(m, y)>>,
             <<R(n, y), R(m, x), R(m, y), R(wide, x), R(n, x)>>,
             <<R(m, x), R(wrong, x)>>,
             <<R(undeclared, x)>>,
             <<R(wide, x), R(wide, y)>>,
             <<R(n, x), R(absent, y)>>,
             <<R(m, x), R(n, y), R(n, ragged)>>,
             <<R(m, x), R(n, huge)>>}
MCOversized == {<<R(m, huge)>>, <<R(n, x)>>}
=============================================================================
