------------------------------ MODULE BatchRun ------------------------------
(***************************************************************************)
(* What run_chunks promises the worker that awaits it: a batch of size     *)
(* chunks returns every result in chunk order, or an error and nothing.    *)
(* EmbedWorker and SpanWorker rely on this and on nothing else of a run.   *)
(***************************************************************************)
EXTENDS Naturals

CONSTANT MaxChunks

VARIABLES busy, size, results, outcome

vars == <<busy, size, results, outcome>>

Init ==
    /\ busy = FALSE
    /\ size = 0
    /\ results = <<>>
    /\ outcome = "none"

Begin(n) ==
    /\ ~busy
    /\ busy' = TRUE
    /\ size' = n
    /\ results' = <<>>
    /\ outcome' = "none"

Succeed ==
    /\ busy
    /\ busy' = FALSE
    /\ results' = [i \in 1..size |-> i]
    /\ outcome' = "ok"
    /\ UNCHANGED size

Fail ==
    /\ busy
    /\ busy' = FALSE
    /\ outcome' = "err"
    /\ UNCHANGED <<size, results>>

Next == (\E n \in 0..MaxChunks : Begin(n)) \/ Succeed \/ Fail

SafeSpec == Init /\ [][Next]_vars
Spec     == SafeSpec /\ WF_vars(Succeed \/ Fail)
=============================================================================
