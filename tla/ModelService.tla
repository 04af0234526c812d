---------------------------- MODULE ModelService ----------------------------
(***************************************************************************)
(* What ModelHandle::embed, rerank and evaluate promise a caller, with no  *)
(* queue, batch, cache or session in sight: a request is answered once,    *)
(* either with exactly one result per item of its own, in its own order,   *)
(* or with an error that all requests answered together share.             *)
(***************************************************************************)
EXTENDS Sequences

CONSTANTS Callers, Payloads, Result

VARIABLES pending, asked, reply

vars == <<pending, asked, reply>>

None  == [status |-> "none", out |-> <<>>]
Error == [status |-> "err", out |-> <<>>]
Results(items) ==
    [status |-> "ok", out |-> [k \in DOMAIN items |-> Result[items[k]]]]

Init ==
    /\ pending = {}
    /\ asked = [c \in Callers |-> <<>>]
    /\ reply = [c \in Callers |-> None]

Ask(c, p) ==
    /\ c \notin pending
    /\ pending' = pending \union {c}
    /\ asked' = [asked EXCEPT ![c] = p]
    /\ reply' = [reply EXCEPT ![c] = None]

\* The requests of one batch are answered together, for better or worse.
Answer(S) ==
    /\ S # {}
    /\ S \subseteq pending
    /\ pending' = pending \ S
    /\ \/ reply' = [c \in Callers |-> IF c \in S THEN Results(asked[c]) ELSE reply[c]]
       \/ reply' = [c \in Callers |-> IF c \in S THEN Error ELSE reply[c]]
    /\ UNCHANGED asked

Abandon(c) ==
    /\ c \in pending
    /\ pending' = pending \ {c}
    /\ asked' = [asked EXCEPT ![c] = <<>>]
    /\ UNCHANGED reply

Next ==
    \/ \E c \in Callers, p \in Payloads : Ask(c, p)
    \/ \E S \in SUBSET pending : Answer(S)
    \/ \E c \in Callers : Abandon(c)

Fairness ==
    \A c \in Callers : WF_vars(\E S \in SUBSET pending : c \in S /\ Answer(S))

SafeSpec == Init /\ [][Next]_vars
Spec     == SafeSpec /\ Fairness
=============================================================================
