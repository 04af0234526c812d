----------------------------- MODULE SpanWorker -----------------------------
(***************************************************************************)
(* rerank_worker and evaluate_worker of dispatcher.rs.  Neither caches nor *)
(* deduplicates: the items of the batch are laid end to end, run in chunks *)
(* that ignore request boundaries, and the scores are cut back into one    *)
(* span per request.  Both loops over the batch go request by request, as  *)
(* callers see their replies one by one and may be back in the channel     *)
(* before the last of them is sent.                                        *)
(*                                                                         *)
(* An item is a (query, document) pair or a row of n_features values; the  *)
(* tabular worker's chunks of max_batch * n_features values are chunks of  *)
(* max_batch rows, since wire.rs and http.rs only let whole rows through.  *)
(***************************************************************************)
EXTENDS JobQueue

CONSTANTS
    Scores,   \* what the model can return for an item
    Score     \* Score[x]: what it returns for item x

ASSUME SpanAssumption == Score \in [Items -> Scores]

VARIABLES
    lined,    \* all_pairs, all_values: the items of the batch end to end
    spans,    \* how many of them each request of the batch contributed
    offset,   \* where the scores of the next request to answer start
    done,     \* how many have gone through the model
    scores    \* the scores that came back for them

runVars == <<lined, spans, offset, done, scores>>
vars    == <<queueVars, runVars>>

Init ==
    /\ QueueInit
    /\ lined = <<>>
    /\ spans = <<>>
    /\ offset = 0
    /\ done = 0
    /\ scores = <<>>

\* Slip: a request nobody waits for is given no span.
SpanOfWaiting(job) == IF job.to = Gone THEN 0 ELSE Len(job.items)

SpanOf(job) == Len(job.items)

\* The next request of the batch takes its place in the line.
LineUp ==
    /\ phase = "run"
    /\ Len(spans) < Len(batch)
    /\ lined' = lined \o batch[Len(spans) + 1].items
    /\ spans' = Append(spans, SpanOf(batch[Len(spans) + 1]))
    /\ UNCHANGED <<queueVars, offset, done, scores>>

LinedUp == phase = "run" /\ Len(spans) = Len(batch)

ChunkEnd == IF done + MaxBatch < Len(lined) THEN done + MaxBatch ELSE Len(lined)

\* CrossEncoder and OnnxTabular refuse a run whose output is not one score per
\* item, so a chunk that succeeds is complete.
ChunkDone ==
    /\ LinedUp
    /\ done < Len(lined)
    /\ scores' = scores \o [i \in 1..(ChunkEnd - done) |-> Score[lined[done + i]]]
    /\ done' = ChunkEnd
    /\ UNCHANGED <<queueVars, lined, spans, offset>>

RunForgotten ==
    /\ lined' = <<>>
    /\ spans' = <<>>
    /\ offset' = 0
    /\ done' = 0
    /\ scores' = <<>>

BatchFails ==
    /\ LinedUp
    /\ done < Len(lined)
    /\ AnswerBatch([c \in Callers |-> Failure])
    /\ RunForgotten

\* Slip: the offset advances only past requests somebody waits for.
EndOfWaiting == IF Head(batch).to = Gone THEN offset ELSE offset + Head(spans)

\* Where the scores of the first request end and those of the next one start.
EndOfFirst == offset + Head(spans)

\* Slip: the offset is not looked at.
ScoresFromStart == SubSeq(scores, 1, Head(spans))

ScoresOfFirst == SubSeq(scores, offset + 1, offset + Head(spans))

\* One token per pair here.  The tabular reply is the same without its usage.
Billed == Len(ScoresOfFirst)

Deliver ==
    /\ LinedUp
    /\ done = Len(lined)
    /\ AnswerFirst(Success(ScoresOfFirst, Billed))
    /\ IF Tail(batch) = <<>> THEN RunForgotten
       ELSE /\ offset' = EndOfFirst
            /\ spans' = Tail(spans)
            /\ UNCHANGED <<lined, done, scores>>

-----------------------------------------------------------------------------
Run == LineUp \/ ChunkDone \/ BatchFails \/ Deliver

\* No panic reaches this worker, so its channel is never closed under a caller
\* and SendFails is no step of it.
CallerStep(c) ==
    /\ \/ \E p \in Payloads : Submit(c, p)
       \/ Enqueue(c)
       \/ Cancel(c)
    /\ UNCHANGED runVars

CollectStep == (RecvFirst \/ CollectMore) /\ UNCHANGED runVars

WindowStep == WindowCloses /\ UNCHANGED runVars

Next == (\E c \in Callers : CallerStep(c)) \/ CollectStep \/ WindowStep \/ Run

Fairness ==
    /\ WF_vars(CollectStep)
    /\ WF_vars(WindowStep)
    /\ WF_vars(Run)
    /\ \A c \in Callers : SF_vars(Enqueue(c) /\ UNCHANGED runVars)

SafeSpec == Init /\ [][Next]_vars
Spec     == SafeSpec /\ Fairness

-----------------------------------------------------------------------------
TypeOK ==
    /\ QueueTypeOK
    /\ reply \in [Callers -> [status : {"none", "ok", "err"},
                              out : Seq(Scores), tokens : Nat]]
    /\ lined \in Seq(Items)
    /\ spans \in Seq(Nat)
    /\ offset \in Nat
    /\ done \in Nat
    /\ scores \in Seq(Scores)

\* A successful reply holds exactly one score per item of the caller's own
\* request, in its order, and bills exactly its own pairs: chunks that straddle
\* requests and the offsets that undo them never shift a score to a neighbour.
OwnScores ==
    \A c \in Callers :
        reply[c].status = "ok" =>
            /\ reply[c].out = [k \in DOMAIN asked[c] |-> Score[asked[c][k]]]
            /\ reply[c].tokens = Len(asked[c])

\* The items of a request whose caller went away still hold their place: the
\* cut for the next request never runs past the scores, which would panic the
\* worker, and the last request takes exactly what is left of them.
SpansCoverBatch ==
    LinedUp /\ batch # <<>> =>
        /\ offset + Head(spans) <= Len(lined)
        /\ Len(batch) = 1 => offset + Head(spans) = Len(lined)

\* The worker implements the service its callers see: every request ends with
\* its own results or an error, or is given up by its caller.
Service == INSTANCE ModelService WITH
    Result <- Score,
    pending <- {c \in Callers : pc[c] # "idle"},
    reply <- [c \in Callers |-> [status |-> reply[c].status, out |-> reply[c].out]]

ServiceSpec == Service!Spec
=============================================================================
