-------------------------- MODULE WorkerRunProofs --------------------------
(***************************************************************************)
(* How the dispatcher runs a collected batch, for any callers, items,      *)
(* model and limits.                                                       *)
(*                                                                         *)
(* SpanWorker: the rerank and evaluate workers keep their types, the cut   *)
(* for a request never misses its scores, and every reply holds its own    *)
(* request's.                                                              *)
(*                                                                         *)
(* ChunkRunner: run_chunks and the session pool, for any number of         *)
(* sessions, chunks and panics: results in order, sessions exclusive,      *)
(* batches drained, and what a parked run waits for.  The two halves meet  *)
(* in one count: runs in flight never outnumber the sessions the pool was  *)
(* built with.                                                             *)
(***************************************************************************)
EXTENDS SpanWorker, ChunkRunner, JobQueueProofs, FiniteSetTheorems

-----------------------------------------------------------------------------
\* SpanWorker: requests laid end to end and cut apart again.

\* The run's part of the types.
RunTypeOK ==
    /\ reply \in [Callers -> [status : {"none", "ok", "err"},
                              out : Seq(Scores), tokens : Nat]]
    /\ lined \in Seq(Items)
    /\ spans \in Seq(Nat)
    /\ offset \in Nat
    /\ done \in Nat
    /\ scores \in Seq(Scores)

\* starts[i] is where request i of the batch stands in the line; the last of
\* them is the end of the line.
Cuts(starts) ==
    /\ starts \in [1..(Len(spans) + 1) -> Nat]
    /\ starts[1] = offset
    /\ starts[Len(spans) + 1] = Len(lined)
    /\ \A i \in 1..(Len(spans) + 1) : starts[i] <= Len(lined)
    /\ \A i \in 1..Len(spans) :
          /\ starts[i + 1] = starts[i] + spans[i]
          /\ spans[i] = Len(batch[i].items)
          /\ \A k \in 1..spans[i] : lined[starts[i] + k] = batch[i].items[k]

\* The requests lined up so far are found where the spans say.
SpanInv ==
    /\ Len(spans) <= Len(batch)
    /\ \E starts : Cuts(starts)

\* The scores are those of the line, as far as it has run.
ScoreInv ==
    /\ done <= Len(lined)
    /\ Len(scores) = done
    /\ \A k \in 1..done : scores[k] = Score[lined[k]]

\* Between runs there is nothing of a run.
IdleInv ==
    /\ phase # "run" => lined = <<>> /\ spans = <<>> /\ offset = 0 /\ done = 0 /\ scores = <<>>
    /\ phase \in {"collect", "run"} => batch # <<>>

\* A caller in a call has no reply yet; one that has a reply has its own.
ReplyInv ==
    /\ \A c \in Callers : pc[c] # "idle" => reply[c].status = "none"
    /\ OwnScores

\* The inductive invariant.
Inv == QueueInv /\ RunTypeOK /\ SpanInv /\ ScoreInv /\ IdleInv /\ ReplyInv

-----------------------------------------------------------------------------
\* With nothing lined up there is nothing to find.
LEMMA NothingLined ==
    ASSUME lined = <<>>, spans = <<>>, offset = 0, done = 0, scores = <<>>, batch \in Seq(Job)
    PROVE  SpanInv /\ ScoreInv
<1> DEFINE starts == [i \in {1} |-> 0]
<1>1. Len(spans) = 0 /\ Len(lined) = 0 /\ Len(scores) = 0
  OBVIOUS
<1>2. Cuts(starts)
  BY <1>1 DEF Cuts
<1>3. Len(batch) \in Nat
  OBVIOUS
<1> QED
  BY <1>1, <1>2, <1>3 DEF SpanInv, ScoreInv

\* The same, after a run is over.
LEMMA RunOver ==
    ASSUME RunForgotten, batch' \in Seq(Job)
    PROVE  /\ SpanInv' /\ ScoreInv'
           /\ lined' = <<>> /\ spans' = <<>> /\ offset' = 0 /\ done' = 0 /\ scores' = <<>>
<1>1. /\ lined' = <<>> /\ spans' = <<>> /\ offset' = 0 /\ done' = 0 /\ scores' = <<>>
  BY DEF RunForgotten
<1> DEFINE starts == [i \in {1} |-> 0]
<1>2. Len(spans') = 0 /\ Len(lined') = 0 /\ Len(scores') = 0 /\ Len(batch') \in Nat
  BY <1>1
<1>3. Cuts(starts)'
  BY <1>1, <1>2 DEF Cuts
<1> QED
  BY <1>1, <1>2, <1>3 DEF SpanInv, ScoreInv

\* The batch may change at its end, and in whom its requests are for.
LEMMA SpansKept ==
    ASSUME SpanInv, ScoreInv, UNCHANGED runVars, spans \in Seq(Nat),
           Len(batch') >= Len(batch), Len(batch) \in Nat, Len(batch') \in Nat,
           \A i \in 1..Len(batch) : batch'[i].items = batch[i].items
    PROVE  SpanInv' /\ ScoreInv'
<1>1. UNCHANGED <<lined, spans, offset, done, scores>>
  BY DEF runVars
<1>2. PICK starts : Cuts(starts)
  BY DEF SpanInv
<1>3. Len(spans) \in Nat /\ Len(spans) <= Len(batch)
  BY DEF SpanInv
<1>4. \A i \in 1..Len(spans) : i \in 1..Len(batch)
  BY <1>3
<1>5. Cuts(starts)'
  <2>1. \A i \in 1..Len(spans) :
           /\ starts[i + 1] = starts[i] + spans[i]
           /\ spans[i] = Len(batch'[i].items)
           /\ \A k \in 1..spans[i] : lined[starts[i] + k] = batch'[i].items[k]
    BY <1>2, <1>4 DEF Cuts
  <2>2. /\ starts \in [1..(Len(spans) + 1) -> Nat]
        /\ starts[1] = offset /\ starts[Len(spans) + 1] = Len(lined)
        /\ \A i \in 1..(Len(spans) + 1) : starts[i] <= Len(lined)
    BY <1>2 DEF Cuts
  <2> QED
    BY <1>1, <2>1, <2>2 DEF Cuts
<1> QED
  BY <1>1, <1>3, <1>5 DEF SpanInv, ScoreInv

-----------------------------------------------------------------------------
LEMMA InvStart == Init => Inv
<1> SUFFICES ASSUME Init PROVE Inv
  OBVIOUS
<1>1. QueueInv
  BY QueueStart DEF Init
<1>2. NoReply \in [status : {"none", "ok", "err"}, out : Seq(Scores), tokens : Nat]
      /\ NoReply.status = "none"
  BY DEF NoReply
<1>3. RunTypeOK /\ IdleInv /\ ReplyInv
  BY <1>2 DEF Init, QueueInit, RunTypeOK, IdleInv, ReplyInv, OwnScores
<1>4. SpanInv /\ ScoreInv
  BY <1>1, NothingLined DEF Init, QueueInv, QueueTypeOK
<1> QED
  BY <1>1, <1>3, <1>4 DEF Inv

\* Callers come and go; what the worker holds for them stays in place.
LEMMA CallerInvStep ==
    ASSUME Inv, NEW c \in Callers, CallerStep(c)
    PROVE  Inv'
<1> USE DEF Inv
<1>1. QueueStep
  BY DEF CallerStep, QueueStep
<1>2. QueueInv'
  BY <1>1, QueueInvStep
<1>3. UNCHANGED runVars /\ phase' = phase
  BY DEF CallerStep, Submit, Enqueue, Cancel
<1>4. /\ batch \in Seq(Job) /\ Len(batch) \in Nat /\ Len(batch') = Len(batch)
      /\ \A i \in 1..Len(batch) : batch'[i].items = batch[i].items
      /\ batch' = <<>> => batch = <<>>
  <2>1. batch \in Seq(Job)
    BY DEF QueueInv, QueueTypeOK
  <2>2. CASE batch' = batch
    BY <2>1, <2>2
  <2>3. CASE Cancel(c)
    <3>1. batch' = Forget(batch, c)
      BY <2>3 DEF Cancel
    <3>2. /\ Len(batch') = Len(batch)
          /\ \A i \in DOMAIN batch : batch'[i].items = batch[i].items
      BY <2>1, <3>1, ForgetKeeps
    <3>3. DOMAIN batch = 1..Len(batch) /\ Len(batch) \in Nat
      BY <2>1
    <3>4. batch' = <<>> => batch = <<>>
      BY <2>1, <3>2
    <3> QED
      BY <2>1, <3>2, <3>3, <3>4
  <2> QED
    BY <2>2, <2>3 DEF CallerStep, Submit, Enqueue
<1>5. SpanInv' /\ ScoreInv'
  BY <1>3, <1>4, SpansKept DEF RunTypeOK
<1>6. IdleInv'
  BY <1>3, <1>4 DEF IdleInv, runVars
<1>7. reply' \in [Callers -> [status : {"none", "ok", "err"}, out : Seq(Scores), tokens : Nat]]
  <2>1. NoReply \in [status : {"none", "ok", "err"}, out : Seq(Scores), tokens : Nat]
    BY DEF NoReply
  <2> QED
    BY <2>1 DEF CallerStep, Submit, Enqueue, Cancel, RunTypeOK
<1>8. RunTypeOK'
  BY <1>3, <1>7 DEF RunTypeOK, runVars
<1>9. \A d \in Callers : pc'[d] # "idle" => reply'[d].status = "none"
  <2>1. NoReply.status = "none"
    BY DEF NoReply
  <2> QED
    BY <2>1 DEF CallerStep, Submit, Enqueue, Cancel, RunTypeOK, QueueInv, QueueTypeOK, ReplyInv
<1>10. OwnScores'
  <2> SUFFICES ASSUME NEW d \in Callers, reply'[d].status = "ok"
               PROVE  /\ reply'[d].out = [k \in DOMAIN asked'[d] |-> Score[asked'[d][k]]]
                      /\ reply'[d].tokens = Len(asked'[d])
    BY DEF OwnScores
  <2>1. NoReply.status # "ok"
    BY DEF NoReply
  <2>2. reply'[d] = reply[d] /\ asked'[d] = asked[d]
    BY <2>1 DEF CallerStep, Submit, Enqueue, Cancel, RunTypeOK, QueueInv, QueueTypeOK, ReplyInv
  <2> QED
    BY <2>2 DEF ReplyInv, OwnScores
<1> QED
  BY <1>2, <1>5, <1>6, <1>8, <1>9, <1>10 DEF ReplyInv

LEMMA CollectInvStep ==
    ASSUME Inv, CollectStep \/ WindowStep
    PROVE  Inv'
<1> USE DEF Inv
<1>1. QueueInv'
  BY QueueInvStep DEF CollectStep, WindowStep, QueueStep
<1>2. UNCHANGED runVars /\ UNCHANGED <<pc, asked, reply>>
  BY DEF CollectStep, WindowStep, RecvFirst, CollectMore, WindowCloses, callerVars
<1>3. /\ batch \in Seq(Job) /\ batch' \in Seq(Job) /\ queue \in Seq(Job)
  BY <1>1 DEF QueueInv, QueueTypeOK
<1>4. /\ Len(batch') >= Len(batch) /\ Len(batch) \in Nat /\ Len(batch') \in Nat
      /\ \A i \in 1..Len(batch) : batch'[i].items = batch[i].items
      /\ phase' \in {"collect", "run"} => batch' # <<>>
      /\ phase' = "run" => phase = "run" \/ WindowCloses
  <2>1. CASE RecvFirst
    <3>1. batch = <<>> /\ batch' = <<Head(queue)>> /\ phase' = "collect"
      BY <2>1 DEF RecvFirst, QueueInv, BatchEmptyBetweenRounds
    <3> QED
      BY <3>1, <1>3
  <2>2. CASE CollectMore
    <3>1. batch' = Append(batch, Head(queue)) /\ phase' = phase /\ phase = "collect"
      BY <2>2 DEF CollectMore
    <3>2. Head(queue) \in Job
      BY <2>2, <1>3 DEF CollectMore
    <3> QED
      BY <3>1, <3>2, <1>3
  <2>3. CASE WindowCloses
    <3>1. batch' = batch /\ phase = "collect"
      BY <2>3 DEF WindowCloses
    <3> QED
      BY <2>3, <3>1, <1>3 DEF IdleInv
  <2> QED
    BY <2>1, <2>2, <2>3 DEF CollectStep, WindowStep
<1>5. SpanInv' /\ ScoreInv'
  BY <1>2, <1>4, SpansKept DEF RunTypeOK
<1>6. phase # "run"
  BY DEF CollectStep, WindowStep, RecvFirst, CollectMore, WindowCloses
<1>7. IdleInv'
  BY <1>2, <1>4, <1>6 DEF IdleInv, runVars
<1>8. RunTypeOK' /\ ReplyInv'
  BY <1>2 DEF RunTypeOK, ReplyInv, OwnScores, runVars
<1> QED
  BY <1>1, <1>5, <1>7, <1>8

\* The next request takes its place at the end of the line.
LEMMA LineUpStep ==
    ASSUME Inv, LineUp
    PROVE  Inv'
<1> USE DEF Inv
<1> DEFINE n == Len(spans)
           items == batch[n + 1].items
<1>1. /\ UNCHANGED <<pc, asked, reply, queue, phase, batch, queued>>
      /\ offset' = offset /\ done' = done /\ scores' = scores
      /\ phase = "run" /\ n < Len(batch)
      /\ lined' = lined \o items
      /\ spans' = Append(spans, Len(items))
  BY DEF LineUp, SpanOf, queueVars
<1>2. batch \in Seq(Job) /\ n \in Nat /\ Len(batch) \in Nat /\ Len(lined) \in Nat
  BY DEF QueueInv, QueueTypeOK, RunTypeOK
<1>3. items \in Seq(Items) /\ Len(items) \in Nat
  <2>1. batch[n + 1] \in Job
    BY <1>1, <1>2
  <2> QED
    BY <2>1, JobSize
<1>4. QueueInv'
  BY <1>1, QueueInvStep DEF QueueStep, queueVars
<1>5. PICK starts : Cuts(starts)
  BY DEF SpanInv
<1> HIDE DEF n
<1>6. /\ lined' \in Seq(Items) /\ Len(lined') = Len(lined) + Len(items)
      /\ \A k \in 1..Len(lined) : lined'[k] = lined[k]
      /\ \A k \in 1..Len(items) : lined'[Len(lined) + k] = items[k]
  <2> HIDE DEF items
  <2> QED
    BY <1>1, <1>3 DEF RunTypeOK
<1>7. /\ spans' \in Seq(Nat) /\ Len(spans') = n + 1
      /\ \A i \in 1..n : spans'[i] = spans[i]
      /\ spans'[n + 1] = Len(items)
  <2> HIDE DEF items
  <2> QED
    BY <1>1, <1>3 DEF RunTypeOK, n
<1>8. RunTypeOK'
  BY <1>1, <1>6, <1>7 DEF RunTypeOK
<1>9. SpanInv'
  <2>1. /\ starts \in [1..(n + 1) -> Nat]
        /\ starts[1] = offset
        /\ starts[n + 1] = Len(lined)
        /\ \A i \in 1..(n + 1) : starts[i] <= Len(lined)
        /\ \A i \in 1..n :
              /\ starts[i + 1] = starts[i] + spans[i]
              /\ spans[i] = Len(batch[i].items)
              /\ \A k \in 1..spans[i] : lined[starts[i] + k] = batch[i].items[k]
    BY <1>5 DEF Cuts, n
  <2>2. Len(lined') \in Nat /\ Len(lined) <= Len(lined')
    BY <1>2, <1>3, <1>6
  <2>3. PICK more \in [1..(n + 2) -> Nat] :
           /\ more[1] = offset /\ more[n + 2] = Len(lined')
           /\ \A i \in 1..(n + 1) : more[i] = starts[i]
    <3> DEFINE f == [i \in 1..(n + 2) |-> IF i = n + 2 THEN Len(lined') ELSE starts[i]]
    <3>1. f \in [1..(n + 2) -> Nat]
      BY <1>2, <2>1, <2>2
    <3>2. f[1] = offset /\ f[n + 2] = Len(lined') /\ \A i \in 1..(n + 1) : f[i] = starts[i]
      BY <1>2, <2>1, <2>2
    <3> QED
      BY <3>1, <3>2
  <2>4. \A i \in 1..(n + 2) : more[i] <= Len(lined')
    BY <1>2, <2>1, <2>2, <2>3
  <2>5. ASSUME NEW i \in 1..(n + 1)
        PROVE  /\ more[i + 1] = more[i] + spans'[i]
               /\ spans'[i] = Len(batch[i].items)
               /\ \A k \in 1..spans'[i] : lined'[more[i] + k] = batch[i].items[k]
    <3>1. CASE i = n + 1
      <4>1. more[i] = Len(lined) /\ more[i + 1] = Len(lined) + Len(items) /\ spans'[i] = Len(items)
        BY <1>2, <1>6, <1>7, <2>1, <2>3, <3>1
      <4>2. batch[i].items = items
        BY <3>1
      <4> QED
        BY <1>6, <4>1, <4>2
    <3>2. CASE i # n + 1
      <4>1. i \in 1..n /\ i + 1 \in 1..(n + 1)
        BY <1>2, <3>2
      <4>2. more[i] = starts[i] /\ more[i + 1] = starts[i + 1] /\ spans'[i] = spans[i]
        BY <1>7, <2>3, <4>1
      <4>3. starts[i] \in Nat /\ starts[i + 1] \in Nat /\ spans[i] \in Nat
            /\ starts[i + 1] = starts[i] + spans[i] /\ starts[i + 1] <= Len(lined)
        <5>1. i \in 1..(n + 1)
          OBVIOUS
        <5>2. starts[i] \in Nat /\ starts[i + 1] \in Nat
          BY <2>1, <4>1, <5>1
        <5>3. spans[i] \in Nat
          BY <4>1 DEF RunTypeOK, n
        <5> QED
          BY <2>1, <4>1, <5>2, <5>3
      <4>4. ASSUME NEW k \in 1..spans[i] PROVE starts[i] + k \in 1..Len(lined)
        <5>1. k \in Nat /\ 1 <= k /\ k <= spans[i]
          BY <4>3
        <5>2. starts[i] + spans[i] <= Len(lined)
          BY <4>3
        <5>3. \A x, y, z, m \in Nat : 1 <= m /\ m <= y /\ x + y <= z => x + m \in 1..z
          OBVIOUS
        <5> QED
          BY <4>3, <5>1, <5>2, <5>3, <1>2
      <4>5. \A k \in 1..spans[i] : lined'[starts[i] + k] = batch[i].items[k]
        BY <1>6, <2>1, <4>1, <4>4
      <4> QED
        BY <2>1, <4>1, <4>2, <4>3, <4>5
    <3> QED
      BY <3>1, <3>2
  <2>6. (n + 1) + 1 = n + 2
    BY <1>2
  <2>7. Cuts(more)'
    <3>1. Len(spans') + 1 = n + 2 /\ offset' = offset /\ batch' = batch
      BY <1>1, <1>7, <2>6
    <3>2. (more \in [1..(Len(spans) + 1) -> Nat])'
      BY <2>3, <3>1
    <3>3. (\A i \in 1..(Len(spans) + 1) : more[i] <= Len(lined))'
      BY <2>4, <3>1
    <3>4. \A i \in 1..Len(spans') :
             /\ more[i + 1] = more[i] + spans'[i]
             /\ spans'[i] = Len(batch'[i].items)
             /\ \A k \in 1..spans'[i] : lined'[more[i] + k] = batch'[i].items[k]
      BY <1>7, <2>5, <3>1
    <3> QED
      BY <2>3, <3>1, <3>2, <3>3, <3>4 DEF Cuts
  <2>8. Len(spans') <= Len(batch')
    BY <1>1, <1>2, <1>7
  <2> QED
    BY <2>7, <2>8 DEF SpanInv
<1>10. ScoreInv'
  <2>1. done \in Nat /\ done <= Len(lined)
    BY DEF RunTypeOK, ScoreInv
  <2>2. \A k \in 1..done : k \in 1..Len(lined)
    BY <1>2, <2>1
  <2>3. done' <= Len(lined')
    BY <1>1, <1>2, <1>3, <1>6, <2>1
  <2>4. \A k \in 1..done : scores'[k] = Score[lined'[k]]
    BY <1>1, <1>6, <2>2 DEF ScoreInv
  <2> QED
    BY <1>1, <2>3, <2>4 DEF ScoreInv
<1>11. IdleInv' /\ ReplyInv'
  BY <1>1 DEF IdleInv, ReplyInv, OwnScores
<1> QED
  BY <1>4, <1>8, <1>9, <1>10, <1>11

\* A chunk adds the scores of its own stretch of the line.
LEMMA ChunkInvStep ==
    ASSUME Inv, ChunkDone
    PROVE  Inv'
<1> USE DEF Inv
<1> DEFINE m == ChunkEnd - done
           part == [i \in 1..m |-> Score[lined[done + i]]]
<1>1. /\ UNCHANGED <<pc, asked, reply, queue, phase, batch, queued, lined, spans, offset>>
      /\ phase = "run" /\ done < Len(lined)
      /\ scores' = scores \o part /\ done' = ChunkEnd
  BY DEF ChunkDone, LinedUp, queueVars
<1>2. done \in Nat /\ Len(lined) \in Nat /\ lined \in Seq(Items) /\ scores \in Seq(Scores)
  BY DEF RunTypeOK
<1>3. ChunkEnd \in Nat /\ done <= ChunkEnd /\ ChunkEnd <= Len(lined) /\ m \in Nat
  BY <1>1, <1>2, Limits DEF ChunkEnd
<1>4. part \in Seq(Scores) /\ Len(part) = m
  <2>1. \A i \in 1..m : done + i \in 1..Len(lined)
    BY <1>2, <1>3
  <2>2. \A i \in 1..m : Score[lined[done + i]] \in Scores
    BY <1>2, <2>1, SpanAssumption
  <2>3. part \in [1..m -> Scores]
    BY <2>2
  <2> QED
    BY <1>3, <2>3
<1>5. \A i \in 1..m : part[i] = Score[lined[done + i]]
  OBVIOUS
<1>6. done + m = ChunkEnd
  BY <1>2, <1>3
<1> HIDE DEF part, m
<1>7. Len(scores) = done /\ \A k \in 1..done : scores[k] = Score[lined[k]]
  BY DEF ScoreInv
<1>8. scores' \in Seq(Scores) /\ Len(scores') = ChunkEnd
  <2>1. scores \o part \in Seq(Scores)
    BY <1>2, <1>4
  <2>2. Len(scores \o part) = Len(scores) + Len(part)
    BY <1>2, <1>4
  <2> QED
    BY <1>1, <1>4, <1>6, <1>7, <2>1, <2>2
<1>9. ASSUME NEW k \in 1..ChunkEnd PROVE scores'[k] = Score[lined[k]]
  <2>1. CASE k <= done
    <3>1. k \in 1..done
      BY <1>2, <2>1
    <3>2. scores'[k] = scores[k]
      BY <1>1, <1>2, <1>4, <1>7, <3>1
    <3> QED
      BY <1>7, <3>1, <3>2
  <2>2. CASE ~(k <= done)
    <3>1. k - done \in 1..m /\ done + (k - done) = k
      BY <1>2, <1>3, <1>6, <2>2
    <3>2. scores'[k] = part[k - done]
      BY <1>1, <1>2, <1>4, <1>7, <2>2, <3>1
    <3> QED
      BY <1>5, <3>1, <3>2
  <2> QED
    BY <2>1, <2>2
<1>10. QueueInv'
  BY <1>1, QueueInvStep DEF QueueStep, queueVars
<1>11. RunTypeOK' /\ ScoreInv'
  BY <1>1, <1>3, <1>8, <1>9 DEF RunTypeOK, ScoreInv
<1>12. SpanInv' /\ IdleInv' /\ ReplyInv'
  BY <1>1 DEF SpanInv, Cuts, IdleInv, ReplyInv, OwnScores
<1> QED
  BY <1>10, <1>11, <1>12

\* An error answers everybody and leaves nothing of the run.
LEMMA FailInvStep ==
    ASSUME Inv, BatchFails
    PROVE  Inv'
<1> USE DEF Inv
<1>1. /\ RoundEnds /\ RunForgotten /\ phase' = "recv" /\ batch' = <<>> /\ asked' = asked
      /\ pc' = [c \in Callers |-> IF c \in Addressees(batch) THEN "idle" ELSE pc[c]]
      /\ reply' = [c \in Callers |->
                     IF c \in Addressees(batch) THEN [d \in Callers |-> Failure][c] ELSE reply[c]]
  BY DEF BatchFails, AnswerBatch, Reply, RoundEnds
<1>2. QueueInv'
  BY <1>1, QueueInvStep DEF QueueStep
<1>3. /\ Failure \in [status : {"none", "ok", "err"}, out : Seq(Scores), tokens : Nat]
      /\ Failure.status = "err"
  BY DEF Failure
<1>4. \A c \in Callers : reply'[c] = IF c \in Addressees(batch) THEN Failure ELSE reply[c]
  BY <1>1
<1>5. reply' \in [Callers -> [status : {"none", "ok", "err"}, out : Seq(Scores), tokens : Nat]]
  BY <1>1, <1>3 DEF RunTypeOK
<1>6. ReplyInv'
  <2>1. \A c \in Callers : pc'[c] # "idle" => c \notin Addressees(batch) /\ pc'[c] = pc[c]
    BY <1>1
  <2>2. \A c \in Callers : pc'[c] # "idle" => reply'[c].status = "none"
    BY <1>4, <2>1 DEF ReplyInv
  <2>3. OwnScores'
    BY <1>1, <1>3, <1>4 DEF ReplyInv, OwnScores
  <2> QED
    BY <2>2, <2>3 DEF ReplyInv
<1>7. batch' \in Seq(Job)
  BY <1>2 DEF QueueInv, QueueTypeOK
<1>8. SpanInv' /\ ScoreInv' /\ IdleInv' /\ RunTypeOK'
  <2>1. SpanInv' /\ ScoreInv'
        /\ lined' = <<>> /\ spans' = <<>> /\ offset' = 0 /\ done' = 0 /\ scores' = <<>>
    BY <1>1, <1>7, RunOver
  <2>2. lined' \in Seq(Items) /\ spans' \in Seq(Nat) /\ scores' \in Seq(Scores)
    BY <2>1
  <2> QED
    BY <1>1, <1>5, <2>1, <2>2 DEF IdleInv, RunTypeOK
<1> QED
  BY <1>2, <1>6, <1>8

\* The first request of the batch stands at the offset, and the rest follow it.
LEMMA FirstCut ==
    ASSUME Inv, LinedUp, batch # <<>>
    PROVE  /\ Len(spans) \in Nat \ {0} /\ spans[1] \in Nat
           /\ offset + spans[1] <= Len(lined)
           /\ spans[1] = Len(batch[1].items)
           /\ done = Len(lined) =>
                 \A k \in 1..spans[1] : scores[offset + k] = Score[batch[1].items[k]]
           /\ Len(spans) = 1 => offset + spans[1] = Len(lined)
<1> USE DEF Inv
<1>1. Len(spans) = Len(batch) /\ Len(batch) \in Nat \ {0} /\ spans \in Seq(Nat)
  BY DEF LinedUp, QueueInv, QueueTypeOK, RunTypeOK
<1>2. PICK starts : Cuts(starts)
  BY DEF SpanInv
<1>3. 1 \in 1..Len(spans) /\ 2 \in 1..(Len(spans) + 1) /\ 1 + 1 = 2
  BY <1>1
<1>4. spans[1] \in Nat
  BY <1>1, <1>3
<1>5. /\ starts[1] = offset /\ starts[2] = offset + spans[1] /\ starts[2] <= Len(lined)
      /\ spans[1] = Len(batch[1].items)
      /\ \A k \in 1..spans[1] : lined[offset + k] = batch[1].items[k]
  BY <1>2, <1>3 DEF Cuts
<1>6. Len(spans) = 1 => starts[2] = Len(lined)
  BY <1>2, <1>3 DEF Cuts
<1>7. offset \in Nat /\ Len(lined) \in Nat
  BY DEF RunTypeOK
<1>8. \A k \in 1..spans[1] : offset + k \in 1..Len(lined)
  BY <1>4, <1>5, <1>7
<1>9. done = Len(lined) =>
         \A k \in 1..spans[1] : scores[offset + k] = Score[batch[1].items[k]]
  BY <1>5, <1>8 DEF ScoreInv
<1> QED
  BY <1>1, <1>4, <1>5, <1>6, <1>9

\* A request is answered with the scores of its own items, and the cuts of the
\* others stay where they were.
LEMMA DeliverInvStep ==
    ASSUME Inv, Deliver
    PROVE  Inv'
<1> USE DEF Inv
<1> DEFINE out == ScoresOfFirst
           first == Head(batch).to
<1>1. /\ LinedUp /\ batch # <<>> /\ done = Len(lined) /\ FirstAnswered
      /\ asked' = asked /\ batch' = Tail(batch)
      /\ \A d \in Callers : pc'[d] = IF d = first THEN "idle" ELSE pc[d]
      /\ reply' = [d \in Callers |-> IF d = first THEN Success(out, Billed) ELSE reply[d]]
  <2>1. Gone \notin Callers
    BY QueueAssumption
  <2> QED
    BY <2>1 DEF Deliver, AnswerFirst, Reply, FirstAnswered, LinedUp
<1>2. QueueInv'
  BY <1>1, QueueInvStep DEF QueueStep
<1>3. batch' \in Seq(Job) /\ batch \in Seq(Job) /\ Head(batch) = batch[1] /\ batch[1] \in Job
  BY <1>1, <1>2 DEF QueueInv, QueueTypeOK
<1>4. /\ Len(spans) \in Nat \ {0} /\ spans[1] \in Nat
      /\ offset + spans[1] <= Len(lined)
      /\ spans[1] = Len(batch[1].items)
      /\ \A k \in 1..spans[1] : scores[offset + k] = Score[batch[1].items[k]]
  BY <1>1, FirstCut
<1>5. spans \in Seq(Nat) /\ Head(spans) = spans[1] /\ offset \in Nat /\ Len(scores) = Len(lined)
      /\ scores \in Seq(Scores) /\ Len(lined) \in Nat
  BY <1>1, <1>4 DEF RunTypeOK, ScoreInv
<1>6. out \in Seq(Scores) /\ Len(out) = spans[1]
      /\ \A k \in 1..spans[1] : out[k] = scores[offset + k]
  <2> DEFINE e == offset + spans[1]
  <2>1. out = SubSeq(scores, offset + 1, e)
    BY <1>5 DEF ScoresOfFirst
  <2>2. e \in Nat /\ e <= Len(scores) /\ e - (offset + 1) + 1 = spans[1]
    BY <1>4, <1>5
  <2>3. \A k \in 1..spans[1] : (offset + 1) + k - 1 = offset + k /\ offset + k \in 1..Len(scores)
    BY <1>4, <1>5
  <2>4. out = [k \in 1..spans[1] |-> scores[offset + k]]
    <3> HIDE DEF out, e
    <3>1. SubSeq(scores, offset + 1, e) = [k \in 1..(e - (offset + 1) + 1) |-> scores[(offset + 1) + k - 1]]
      BY <1>5, <2>2
    <3>2. \A k \in 1..spans[1] : scores[(offset + 1) + k - 1] = scores[offset + k]
      BY <2>3
    <3> QED
      BY <2>1, <2>2, <3>1, <3>2
  <2>5. [k \in 1..spans[1] |-> scores[offset + k]] \in [1..spans[1] -> Scores]
    BY <1>5, <2>3
  <2> HIDE DEF out
  <2> QED
    BY <1>4, <2>4, <2>5
<1>7. Billed = spans[1]
  BY <1>6 DEF Billed
<1> HIDE DEF out
<1>8. Success(out, Billed) \in [status : {"none", "ok", "err"}, out : Seq(Scores), tokens : Nat]
      /\ Success(out, Billed).out = out /\ Success(out, Billed).tokens = spans[1]
  BY <1>4, <1>6, <1>7 DEF Success
<1>9. reply' \in [Callers -> [status : {"none", "ok", "err"}, out : Seq(Scores), tokens : Nat]]
  BY <1>1, <1>8 DEF RunTypeOK
<1>10. \A d \in Callers : pc'[d] # "idle" => reply'[d].status = "none"
  BY <1>1 DEF ReplyInv
<1>11. ASSUME first \in Callers
       PROVE  out = [k \in DOMAIN asked[first] |-> Score[asked[first][k]]] /\ spans[1] = Len(asked[first])
  <2>1. 1 \in DOMAIN batch /\ batch[1].to = first
    BY <1>1, <1>3
  <2>2. 1 \in DOMAIN Line /\ Line[1] = batch[1]
    BY <2>1, LineAt DEF QueueInv
  <2>3. pc[first] = "waiting"
    BY <1>11, <2>1, <2>2 DEF QueueInv, OneJobPerCaller
  <2>4. batch[1].items = asked[first]
    BY <1>11, <2>1, <2>2, <2>3 DEF QueueInv, OneJobPerCaller
  <2>5. asked[first] \in Seq(Items)
    BY <1>3, <2>4, JobSize
  <2>6. DOMAIN asked[first] = 1..spans[1]
    BY <1>4, <2>4, <2>5
  <2>7. out = [k \in 1..spans[1] |-> out[k]]
    BY <1>6
  <2>8. \A k \in 1..spans[1] : out[k] = Score[asked[first][k]]
    BY <1>4, <1>6, <2>4
  <2>9. [k \in DOMAIN asked[first] |-> Score[asked[first][k]]]
          = [k \in 1..spans[1] |-> Score[asked[first][k]]]
    BY <2>6
  <2>10. [k \in 1..spans[1] |-> out[k]] = [k \in 1..spans[1] |-> Score[asked[first][k]]]
    BY <2>8
  <2>11. spans[1] = Len(asked[first])
    BY <1>4, <2>4
  <2> QED
    BY <2>7, <2>9, <2>10, <2>11
<1>12. OwnScores'
  <2>1. ASSUME NEW d \in Callers, reply'[d].status = "ok"
        PROVE  /\ reply'[d].out = [k \in DOMAIN asked'[d] |-> Score[asked'[d][k]]]
               /\ reply'[d].tokens = Len(asked'[d])
    <3>1. CASE d = first
      <4>1. reply'[d] = Success(out, Billed) /\ asked'[d] = asked[d]
        BY <1>1, <3>1
      <4> QED
        BY <1>8, <1>11, <3>1, <4>1
    <3>2. CASE d # first
      BY <1>1, <2>1, <3>2 DEF ReplyInv, OwnScores
    <3> QED
      BY <3>1, <3>2
  <2> QED
    BY <2>1 DEF OwnScores
<1>13. CASE Tail(batch) = <<>>
  <2>1. RunForgotten
    BY <1>13 DEF Deliver
  <2>2. SpanInv' /\ ScoreInv'
        /\ lined' = <<>> /\ spans' = <<>> /\ offset' = 0 /\ done' = 0 /\ scores' = <<>>
    BY <1>3, <2>1, RunOver
  <2>3. lined' \in Seq(Items) /\ spans' \in Seq(Nat) /\ scores' \in Seq(Scores)
    BY <2>2
  <2>4. phase' = "recv"
    BY <1>1, <1>13 DEF FirstAnswered
  <2>5. RunTypeOK'
    BY <1>9, <2>2, <2>3 DEF RunTypeOK
  <2>6. IdleInv'
    BY <2>2, <2>4 DEF IdleInv
  <2> QED
    BY <1>2, <1>10, <1>12, <2>2, <2>5, <2>6 DEF ReplyInv
<1>14. CASE Tail(batch) # <<>>
  <2>1. /\ UNCHANGED <<lined, done, scores>> /\ spans' = Tail(spans)
        /\ offset' = offset + spans[1] /\ phase' = "run"
    BY <1>1, <1>5, <1>14 DEF Deliver, EndOfFirst, FirstAnswered
  <2>2. PICK starts : Cuts(starts)
    BY DEF SpanInv
  <2> DEFINE n == Len(spans)
  <2>3. /\ spans' \in Seq(Nat) /\ Len(spans') = n - 1 /\ n \in Nat \ {0}
        /\ \A i \in 1..(n - 1) : spans'[i] = spans[i + 1]
    BY <1>4, <1>5, <2>1
  <2>4. /\ Len(batch') = Len(batch) - 1 /\ Len(batch) = n
        /\ \A i \in 1..(n - 1) : batch'[i] = batch[i + 1]
    BY <1>1, <1>3, <2>3 DEF LinedUp
  <2>5. /\ starts \in [1..(n + 1) -> Nat]
        /\ starts[1] = offset
        /\ starts[n + 1] = Len(lined)
        /\ \A i \in 1..(n + 1) : starts[i] <= Len(lined)
        /\ \A i \in 1..n :
              /\ starts[i + 1] = starts[i] + spans[i]
              /\ spans[i] = Len(batch[i].items)
              /\ \A k \in 1..spans[i] : lined[starts[i] + k] = batch[i].items[k]
    BY <2>2 DEF Cuts
  <2> HIDE DEF n
  <2>6. (n - 1) + 1 = n /\ \A i \in 1..n : i + 1 \in 1..(n + 1)
    BY <2>3
  <2>7. PICK rest \in [1..n -> Nat] : \A i \in 1..n : rest[i] = starts[i + 1]
    <3> DEFINE f == [i \in 1..n |-> starts[i + 1]]
    <3>1. f \in [1..n -> Nat]
      BY <2>5, <2>6
    <3>2. \A i \in 1..n : f[i] = starts[i + 1]
      OBVIOUS
    <3> QED
      BY <3>1, <3>2
  <2>8. 1 \in 1..n /\ n \in 1..n
    BY <2>3
  <2>9. rest[1] = offset' /\ rest[n] = Len(lined)
    BY <2>1, <2>5, <2>7, <2>8
  <2>10. \A i \in 1..n : rest[i] <= Len(lined)
    BY <2>5, <2>6, <2>7
  <2>11. ASSUME NEW i \in 1..(n - 1)
         PROVE  /\ rest[i + 1] = rest[i] + spans'[i]
                /\ spans'[i] = Len(batch'[i].items)
                /\ \A k \in 1..spans'[i] : lined[rest[i] + k] = batch'[i].items[k]
    <3>1. i \in 1..n /\ i + 1 \in 1..n
      BY <2>3
    <3>2. rest[i] = starts[i + 1] /\ rest[i + 1] = starts[(i + 1) + 1]
          /\ spans'[i] = spans[i + 1] /\ batch'[i] = batch[i + 1]
      BY <2>3, <2>4, <2>7, <3>1
    <3> QED
      BY <2>5, <3>1, <3>2
  <2>12. Cuts(rest)'
    <3>1. Len(spans') + 1 = n /\ lined' = lined
      BY <2>1, <2>3, <2>6
    <3>2. (rest \in [1..(Len(spans) + 1) -> Nat])'
      BY <2>7, <3>1
    <3>3. (\A i \in 1..(Len(spans) + 1) : rest[i] <= Len(lined))'
      BY <2>10, <3>1
    <3>4. \A i \in 1..Len(spans') :
             /\ rest[i + 1] = rest[i] + spans'[i]
             /\ spans'[i] = Len(batch'[i].items)
             /\ \A k \in 1..spans'[i] : lined'[rest[i] + k] = batch'[i].items[k]
      BY <2>3, <2>11, <3>1
    <3> QED
      BY <2>9, <3>1, <3>2, <3>3, <3>4 DEF Cuts
  <2>13. SpanInv'
    BY <2>3, <2>4, <2>12 DEF SpanInv
  <2>14. ScoreInv'
    BY <2>1 DEF ScoreInv
  <2>15. RunTypeOK'
    <3>1. offset' \in Nat
      <4>1. offset' = offset + spans[1] /\ offset \in Nat /\ spans[1] \in Nat
        BY <1>4, <1>5, <2>1
      <4> QED
        BY <4>1
    <3> QED
      BY <1>9, <2>1, <2>3, <3>1 DEF RunTypeOK
  <2>16. IdleInv'
    BY <1>1, <1>14, <2>1 DEF IdleInv
  <2> QED
    BY <1>2, <1>10, <1>12, <2>13, <2>14, <2>15, <2>16 DEF ReplyInv
<1> QED
  BY <1>13, <1>14

LEMMA InvStutter ==
    ASSUME Inv, UNCHANGED vars
    PROVE  Inv'
<1> USE DEF Inv, vars
<1>1. QueueInv'
  BY QueueStutter
<1>2. SpanInv'
  BY DEF SpanInv, Cuts, queueVars, runVars
<1>3. RunTypeOK' /\ ScoreInv'
  BY DEF RunTypeOK, ScoreInv, queueVars, runVars
<1>4. IdleInv' /\ ReplyInv'
  BY DEF IdleInv, ReplyInv, OwnScores, queueVars, runVars
<1> QED
  BY <1>1, <1>2, <1>3, <1>4

LEMMA InvStep == Inv /\ [Next]_vars => Inv'
BY CallerInvStep, CollectInvStep, LineUpStep, ChunkInvStep, FailInvStep, DeliverInvStep,
   InvStutter DEF Next, Run

LEMMA Invariance == SafeSpec => []Inv
<1>1. Init => Inv
  BY InvStart
<1>2. Inv /\ [Next]_vars => Inv'
  BY InvStep
<1> QED
  BY <1>1, <1>2, PTL DEF SafeSpec

-----------------------------------------------------------------------------
\* Every variable of the rerank and evaluate workers keeps its type, for any
\* callers, items, model and limits.
THEOREM TypeCorrect == SafeSpec => []TypeOK
<1>1. Inv => TypeOK
  BY DEF Inv, QueueInv, RunTypeOK, TypeOK
<1> QED
  BY <1>1, Invariance, PTL

\* Every successful reply of rerank_worker and evaluate_worker holds the scores
\* of its own request's items in their order, however requests were batched and
\* cut into chunks and whoever went away meanwhile.
THEOREM RepliesAreOwn == SafeSpec => []OwnScores
<1>1. Inv => OwnScores
  BY DEF Inv, ReplyInv
<1> QED
  BY <1>1, Invariance, PTL

\* The slice scores[offset..offset + span] of dispatcher.rs never runs past the
\* scores: these workers have no panic to die of.
THEOREM CutsStayInside == SafeSpec => []SpansCoverBatch
<1>1. Inv => SpansCoverBatch
  <2> SUFFICES ASSUME Inv, LinedUp, batch # <<>>
               PROVE  /\ offset + Head(spans) <= Len(lined)
                      /\ Len(batch) = 1 => offset + Head(spans) = Len(lined)
    BY DEF SpansCoverBatch
  <2>1. /\ Len(spans) \in Nat \ {0} /\ spans[1] \in Nat
        /\ offset + spans[1] <= Len(lined)
        /\ Len(spans) = 1 => offset + spans[1] = Len(lined)
    BY FirstCut
  <2>2. Head(spans) = spans[1] /\ Len(spans) = Len(batch)
    BY <2>1 DEF Inv, RunTypeOK, LinedUp
  <2> QED
    BY <2>1, <2>2
<1> QED
  BY <1>1, Invariance, PTL

\* A caller waiting for scores has exactly one request in the system, its own.
THEOREM OneRequestPerCaller == SafeSpec => []OneJobPerCaller
<1>1. Inv => OneJobPerCaller
  BY DEF Inv, QueueInv
<1> QED
  BY <1>1, Invariance, PTL

\* Callers of the rerank and evaluate workers are answered in the order the
\* channel took their requests, one by one.
THEOREM NobodyOvertakes == SafeSpec => NoOvertaking
<1>1. Inv /\ [Next]_vars =>
         [\A c, d \in Callers :
             Ahead(d, c) =>
                 /\ reply'[c] # reply[c] => reply'[d] # reply[d]
                 /\ pc'[c] = "waiting" /\ pc'[d] = "waiting" => Ahead(d, c)']_queueVars
  <2> SUFFICES ASSUME Inv, [Next]_vars, NEW c \in Callers, NEW d \in Callers, Ahead(d, c)
               PROVE  /\ reply'[c] # reply[c] => reply'[d] # reply[d]
                      /\ pc'[c] = "waiting" /\ pc'[d] = "waiting" => Ahead(d, c)'
    OBVIOUS
  <2>1. QueueStep
    <3>1. BatchFails => RoundEnds
      BY DEF BatchFails, AnswerBatch, Reply, RoundEnds
    <3>2. Deliver => FirstAnswered
      BY QueueAssumption DEF Deliver, AnswerFirst, Reply, FirstAnswered
    <3> QED
      BY <3>1, <3>2 DEF Next, CallerStep, CollectStep, WindowStep, Run, LineUp, ChunkDone, QueueStep,
                        queueVars, vars
  <2>2. pc'[c] = "waiting" /\ pc'[d] = "waiting" => Ahead(d, c)'
    BY <2>1, OrderStep DEF Inv
  <2>3. ASSUME reply'[c] # reply[c] PROVE reply'[d] # reply[d]
    <3>1. /\ pc[c] = "waiting" /\ pc[d] = "waiting" /\ Position(d) < Position(c)
          /\ reply[d].status = "none" /\ QueueTypeOK
      BY DEF Ahead, Inv, ReplyInv, QueueInv
    <3>2. /\ Position(c) \in DOMAIN Line /\ Line[Position(c)].to = c
          /\ Position(d) \in DOMAIN Line /\ Line[Position(d)].to = d
          /\ \A i \in DOMAIN Line : Line[i].to = c => i = Position(c)
      BY <3>1, PlaceOf DEF Inv, QueueInv
    <3>3. CASE BatchFails
      <4>1. reply' = [x \in Callers |-> IF x \in Addressees(batch) THEN Failure ELSE reply[x]]
        BY <3>3 DEF BatchFails, AnswerBatch, Reply
      <4>2. PICK i \in DOMAIN batch : batch[i].to = c
        BY <2>3, <4>1 DEF Addressees
      <4>3. i = Position(c)
        BY <3>1, <3>2, <4>2, LineAt
      <4>4. Position(d) \in DOMAIN batch /\ batch[Position(d)].to = d
        BY <3>1, <3>2, <4>3, LineAt DEF QueueTypeOK
      <4>5. reply'[d] = Failure /\ Failure.status = "err"
        BY <4>1, <4>4, QueueAssumption DEF Addressees, Failure
      <4> QED
        BY <3>1, <4>5
    <3>4. CASE Deliver
      <4>1. c = Head(batch).to /\ 1 \in DOMAIN batch /\ Head(batch) = batch[1]
        BY <2>3, <3>1, <3>4 DEF Deliver, AnswerFirst, Reply, QueueTypeOK
      <4>2. Position(c) = 1
        BY <3>1, <3>2, <4>1, LineAt
      <4>3. Position(d) \in Nat \ {0}
        BY <3>1, <3>2, LineAt
      <4> QED
        BY <3>1, <4>2, <4>3
    <3>5. CASE ~BatchFails /\ ~Deliver
      <4>1. \/ reply' = reply
            \/ \E e \in Callers : pc[e] # "waiting" /\ \A x \in Callers : x # e => reply'[x] = reply[x]
        BY <3>5 DEF Next, CallerStep, Submit, Enqueue, Cancel, CollectStep, RecvFirst, CollectMore,
                    WindowStep, WindowCloses, Run, LineUp, ChunkDone, callerVars, queueVars, vars,
                    Inv, RunTypeOK
      <4> QED
        BY <2>3, <3>1, <4>1
    <3> QED
      BY <3>3, <3>4, <3>5
  <2> QED
    BY <2>2, <2>3
<1> QED
  BY <1>1, Invariance, PTL DEF SafeSpec, NoOvertaking

-----------------------------------------------------------------------------
\* What a caller sees of the workers' state.
Waiting == {c \in Callers : pc[c] # "idle"}
Seen    == [c \in Callers |-> [status |-> reply[c].status, out |-> reply[c].out]]

\* A step no caller sees.
LEMMA UnseenStep ==
    ASSUME \A c \in Callers : pc'[c] # "idle" <=> pc[c] # "idle", UNCHANGED <<asked, reply>>
    PROVE  UNCHANGED Service!vars
<1>1. Waiting' = Waiting /\ Seen' = Seen
  BY DEF Waiting, Seen
<1> QED
  BY <1>1 DEF Waiting, Seen, Service!vars

\* Answering the callers of S, all of them with an error or each with its own
\* results, is one answer of the service.
LEMMA AnswerStep ==
    ASSUME NEW S \in SUBSET Waiting,
           NEW r,
           \A c \in Callers : pc'[c] = IF c \in S THEN "idle" ELSE pc[c],
           asked' = asked,
           reply' = [c \in Callers |-> IF c \in S THEN r ELSE reply[c]],
           \/ \A c \in S : r.status = "err" /\ r.out = <<>>
           \/ \A c \in S : r.status = "ok" /\ r.out = [k \in DOMAIN asked[c] |-> Score[asked[c][k]]]
    PROVE  [Service!Next]_(Service!vars)
<1>1. CASE S = {}
  <2>1. \A c \in Callers : pc'[c] = pc[c] /\ reply'[c] = reply[c]
    BY <1>1
  <2>2. Waiting' = Waiting /\ Seen' = Seen
    BY <2>1 DEF Waiting, Seen
  <2> QED
    BY <2>2 DEF Waiting, Seen, Service!vars
<1>2. CASE S # {}
  <2>1. Waiting' = Waiting \ S
    BY DEF Waiting
  <2>2. \A c \in Callers : reply'[c] = IF c \in S THEN r ELSE reply[c]
    OBVIOUS
  <2>3. S \subseteq Callers
    BY DEF Waiting
  <2>4. CASE \A c \in S : r.status = "err" /\ r.out = <<>>
    <3>1. Seen' = [c \in Callers |-> IF c \in S THEN Service!Error ELSE Seen[c]]
      BY <2>2, <2>4 DEF Seen, Service!Error
    <3>2. Service!Answer(S)
      BY <1>2, <2>1, <3>1 DEF Service!Answer, Waiting, Seen
    <3> QED
      BY <3>2 DEF Service!Next, Waiting
  <2>5. CASE \A c \in S : r.status = "ok" /\ r.out = [k \in DOMAIN asked[c] |-> Score[asked[c][k]]]
    <3>1. Seen' = [c \in Callers |-> IF c \in S THEN Service!Results(asked[c]) ELSE Seen[c]]
      BY <2>2, <2>5 DEF Seen, Service!Results
    <3>2. Service!Answer(S)
      BY <1>2, <2>1, <3>1 DEF Service!Answer, Waiting, Seen
    <3> QED
      BY <3>2 DEF Service!Next, Waiting
  <2> QED
    BY <2>4, <2>5
<1> QED
  BY <1>1, <1>2

LEMMA SubmitSimulates ==
    ASSUME Inv, NEW c \in Callers, NEW p \in Payloads, Submit(c, p)
    PROVE  Service!Next
<1>1. /\ pc \in [Callers -> {"idle", "sending", "waiting"}]
      /\ pc[c] = "idle" /\ pc' = [pc EXCEPT ![c] = "sending"]
      /\ reply' = [reply EXCEPT ![c] = NoReply]
      /\ asked' = [asked EXCEPT ![c] = p]
  BY DEF Submit, Inv, QueueInv, QueueTypeOK
<1>2. DOMAIN reply = Callers
  BY DEF Inv, RunTypeOK
<1>3. c \notin Waiting /\ Waiting' = Waiting \union {c}
  BY <1>1 DEF Waiting
<1>4. Seen' = [Seen EXCEPT ![c] = Service!None]
  <2>1. \A d \in Callers : reply'[d] = IF d = c THEN NoReply ELSE reply[d]
    BY <1>1, <1>2
  <2>2. NoReply.status = "none" /\ NoReply.out = <<>>
    BY DEF NoReply
  <2> QED
    BY <2>1, <2>2 DEF Seen, Service!None
<1>5. Service!Ask(c, p)
  BY <1>1, <1>3, <1>4 DEF Service!Ask, Waiting, Seen
<1> QED
  BY <1>5 DEF Service!Next

LEMMA CancelSimulates ==
    ASSUME Inv, NEW c \in Callers, Cancel(c)
    PROVE  Service!Next
<1>1. /\ pc \in [Callers -> {"idle", "sending", "waiting"}]
      /\ pc[c] # "idle" /\ pc' = [pc EXCEPT ![c] = "idle"]
      /\ reply' = reply /\ asked' = [asked EXCEPT ![c] = <<>>]
  BY DEF Cancel, Inv, QueueInv, QueueTypeOK
<1>2. c \in Waiting /\ Waiting' = Waiting \ {c}
  BY <1>1 DEF Waiting
<1>3. Seen' = Seen
  BY <1>1 DEF Seen
<1>4. Service!Abandon(c)
  BY <1>1, <1>2, <1>3 DEF Service!Abandon, Waiting, Seen
<1> QED
  BY <1>4 DEF Service!Next

\* Whom a worker step answers waits for it.
LEMMA BatchWaits ==
    ASSUME Inv
    PROVE  \A i \in DOMAIN batch : batch[i].to \in Callers => pc[batch[i].to] = "waiting"
<1>1. \A i \in DOMAIN batch : i \in DOMAIN Line /\ Line[i] = batch[i]
  BY LineAt DEF Inv, QueueInv
<1> QED
  BY <1>1 DEF Inv, QueueInv, OneJobPerCaller

LEMMA FailSimulates ==
    ASSUME Inv, BatchFails
    PROVE  [Service!Next]_(Service!vars)
<1> DEFINE S == Addressees(batch)
<1>1. batch \in Seq(Job)
  BY DEF Inv, QueueInv, QueueTypeOK
<1>2. \A i \in DOMAIN batch : batch[i] \in Job
  BY <1>1
<1>3. S \in SUBSET Waiting
  BY <1>2, BatchWaits DEF Addressees, Waiting, Job
<1>4. /\ asked' = asked
      /\ \A c \in Callers : pc'[c] = IF c \in S THEN "idle" ELSE pc[c]
      /\ reply' = [c \in Callers |-> IF c \in S THEN Failure ELSE reply[c]]
  BY DEF BatchFails, AnswerBatch, Reply
<1>5. Failure.status = "err" /\ Failure.out = <<>>
  BY DEF Failure
<1> HIDE DEF S
<1> QED
  BY <1>3, <1>4, <1>5, AnswerStep

LEMMA DeliverSimulates ==
    ASSUME Inv, Deliver
    PROVE  [Service!Next]_(Service!vars)
<1> DEFINE S == {Head(batch).to} \ {Gone}
           r == Success(ScoresOfFirst, Billed)
<1>1. batch \in Seq(Job) /\ batch # <<>>
  BY DEF Inv, QueueInv, QueueTypeOK, Deliver, AnswerFirst
<1>2. Head(batch) = batch[1] /\ 1 \in DOMAIN batch /\ batch[1] \in Job
  BY <1>1
<1>3. \A c \in S : c \in Callers /\ pc[c] = "waiting"
  BY <1>2, BatchWaits DEF Job
<1>4. S \in SUBSET Waiting
  BY <1>3 DEF Waiting
<1>5. /\ asked' = asked
      /\ \A c \in Callers : pc'[c] = IF c \in S THEN "idle" ELSE pc[c]
      /\ reply' = [c \in Callers |-> IF c \in S THEN r ELSE reply[c]]
  BY DEF Deliver, AnswerFirst, Reply
<1>6. r.status = "ok" /\ r.out = ScoresOfFirst
  BY DEF Success
<1>7. \A c \in S : r.out = [k \in DOMAIN asked[c] |-> Score[asked[c][k]]]
  <2>1. OwnScores'
    BY DeliverInvStep DEF Inv, ReplyInv
  <2>2. \A c \in S : reply'[c] = r
    BY <1>3, <1>5
  <2>3. \A c \in Callers : reply'[c].status = "ok" =>
            reply'[c].out = [k \in DOMAIN asked'[c] |-> Score[asked'[c][k]]]
    BY <2>1 DEF OwnScores
  <2>4. \A c \in S : r.out = [k \in DOMAIN asked'[c] |-> Score[asked'[c][k]]]
    <3> HIDE DEF S, r
    <3> QED
      BY <1>3, <1>6, <2>2, <2>3
  <2> QED
    BY <1>5, <2>4
<1>8. \/ \A c \in S : r.status = "err" /\ r.out = <<>>
      \/ \A c \in S : r.status = "ok" /\ r.out = [k \in DOMAIN asked[c] |-> Score[asked[c][k]]]
  BY <1>6, <1>7
<1> HIDE DEF S, r
<1> QED
  BY <1>4, <1>5, <1>8, AnswerStep

\* Every step of the rerank and evaluate workers and of their callers is a step
\* of ModelService or none its callers see.
THEOREM ImplementsService == SafeSpec => Service!SafeSpec
<1>1. Init => Service!Init
  <2> SUFFICES ASSUME Init PROVE Service!Init
    OBVIOUS
  <2>1. Waiting = {}
    BY DEF Init, QueueInit, Waiting
  <2>2. Seen = [c \in Callers |-> Service!None]
    BY DEF Init, QueueInit, Seen, NoReply, Service!None
  <2> QED
    BY <2>1, <2>2 DEF Init, QueueInit, Waiting, Seen, Service!Init
<1>2. Inv /\ [Next]_vars => [Service!Next]_(Service!vars)
  <2> SUFFICES ASSUME Inv, [Next]_vars PROVE [Service!Next]_(Service!vars)
    OBVIOUS
  <2>1. ASSUME NEW c \in Callers, CallerStep(c) PROVE [Service!Next]_(Service!vars)
    <3>1. CASE Enqueue(c)
      <4>1. /\ pc[c] = "sending" /\ pc' = [pc EXCEPT ![c] = "waiting"]
            /\ UNCHANGED <<asked, reply>>
        BY <3>1 DEF Enqueue
      <4>2. pc \in [Callers -> {"idle", "sending", "waiting"}]
        BY DEF Inv, QueueInv, QueueTypeOK
      <4>3. \A d \in Callers : pc'[d] # "idle" <=> pc[d] # "idle"
        BY <4>1, <4>2
      <4> QED
        BY <4>1, <4>3, UnseenStep
    <3> QED
      BY <2>1, <3>1, SubmitSimulates, CancelSimulates DEF CallerStep
  <2>2. CASE CollectStep \/ WindowStep \/ LineUp \/ ChunkDone \/ UNCHANGED vars
    <3>1. UNCHANGED <<pc, asked, reply>>
      BY <2>2 DEF CollectStep, WindowStep, RecvFirst, CollectMore, WindowCloses, LineUp, ChunkDone,
                  queueVars, callerVars, vars
    <3> QED
      BY <3>1, UnseenStep
  <2> QED
    BY <2>1, <2>2, FailSimulates, DeliverSimulates DEF Next, Run
<1> QED
  BY <1>1, <1>2, Invariance, PTL DEF SafeSpec, Service!SafeSpec

-----------------------------------------------------------------------------
\* ChunkRunner: the runs of a batch and the sessions they borrow.

\* Where the worker is: what it spawned, what it awaited, what came of it.
RunnerInv ==
    /\ awaited <= spawned /\ spawned <= size
    /\ spawned - awaited <= PoolSize
    /\ runner = "ready" => awaited = spawned
    /\ outcome # "none" => runner = "ready"
    /\ outcome = "ok" => ~failed /\ spawned = size

\* The runs of the batch are those that were spawned; awaited ones have ended.
TaskInv ==
    /\ \A i \in Chunks : i > spawned <=> task[i] = "none"
    /\ \A i \in Chunks : i <= awaited => task[i] \in Finished

\* As long as nothing failed, every awaited run left its result.
ResultInv ==
    ~failed =>
        /\ Len(results) = awaited
        /\ \A i \in 1..awaited : results[i] = i /\ task[i] = "ok"

\* No session is ever lost track of.
PoolInv ==
    /\ SessionsExclusive
    /\ \A s \in SessionIds : s \in idle \/ s \in retired \/ \E i \in Chunks : s \in held[i]

\* The runs a session in the pool is meant for.
Expected == {i \in Chunks : task[i] \in {"returning", "woken"}}

\* While somebody is parked, no idle session goes unnoticed.
WakeInv ==
    (\E i \in Chunks : task[i] = "parked") => Cardinality(idle) <= Cardinality(Expected)

ChunkInv ==
    /\ ChunkTypeOK
    /\ RunnerInv
    /\ TaskInv
    /\ ResultInv
    /\ FailureStopsNewChunks
    /\ PoolInv
    /\ Cardinality(retired) <= MaxRetired
    /\ ParksOnlyAfterRetirement
    /\ WakeInv

-----------------------------------------------------------------------------
LEMMA SessionCount == PoolSize \in Nat /\ PoolSize >= 1
<1>1. IsFiniteSet(SessionIds) /\ SessionIds # {}
  BY ChunkAssumption
<1>2. PoolSize \in Nat /\ PoolSize # 0
  BY <1>1, FS_CardinalityType, FS_EmptySet DEF PoolSize
<1> QED
  BY <1>2

LEMMA PoolFinite ==
    ASSUME ChunkTypeOK
    PROVE  /\ IsFiniteSet(idle) /\ IsFiniteSet(retired) /\ IsFiniteSet(Expected)
           /\ Cardinality(idle) \in Nat
           /\ Cardinality(retired) \in Nat
           /\ Cardinality(Expected) \in Nat
<1>1. IsFiniteSet(idle) /\ IsFiniteSet(retired)
  BY FS_Subset, ChunkAssumption DEF ChunkTypeOK
<1>2. IsFiniteSet(Chunks)
  BY FS_Interval, ChunkAssumption DEF Chunks
<1>3. IsFiniteSet(Expected)
  BY <1>2, FS_Subset DEF Expected
<1> QED
  BY <1>1, <1>3, FS_CardinalityType

\* The runs in flight are as many as the worker counts.
LEMMA InFlightCount ==
    ASSUME ChunkTypeOK, RunnerInv
    PROVE  IsFiniteSet(InFlight) /\ Cardinality(InFlight) = spawned - awaited
<1>1. awaited + 1 \in Int /\ spawned \in Int
  BY ChunkAssumption DEF ChunkTypeOK
<1>2. /\ IsFiniteSet((awaited + 1)..spawned)
      /\ Cardinality((awaited + 1)..spawned)
            = IF awaited + 1 > spawned THEN 0 ELSE spawned - (awaited + 1) + 1
  BY <1>1, FS_Interval
<1> QED
  BY <1>2, ChunkAssumption DEF InFlight, ChunkTypeOK, RunnerInv

-----------------------------------------------------------------------------
LEMMA ChunkInvStart == ChunkInit => ChunkInv
<1> SUFFICES ASSUME ChunkInit PROVE ChunkInv
  OBVIOUS
<1>1. ChunkTypeOK
  <2>1. results \in Seq(Chunks)
    BY DEF ChunkInit
  <2>2. task \in [Chunks -> States]
    BY DEF ChunkInit, States
  <2>3. held \in [Chunks -> SUBSET SessionIds]
    BY DEF ChunkInit
  <2>4. /\ runner \in {"ready", "running"} /\ outcome \in {"none", "ok", "err"}
        /\ size \in 0..MaxChunks /\ spawned \in 0..MaxChunks /\ awaited \in 0..MaxChunks
        /\ idle \in SUBSET SessionIds /\ retired \in SUBSET SessionIds
    BY ChunkAssumption DEF ChunkInit
  <2>5. failed \in BOOLEAN
    BY DEF ChunkInit
  <2> QED
    BY <2>1, <2>2, <2>3, <2>4, <2>5 DEF ChunkTypeOK
<1>2. RunnerInv /\ TaskInv /\ ResultInv /\ FailureStopsNewChunks
  BY SessionCount, ChunkAssumption DEF ChunkInit, RunnerInv, TaskInv, ResultInv, FailureStopsNewChunks, Chunks
<1>3. PoolInv /\ ParksOnlyAfterRetirement /\ WakeInv
  BY DEF ChunkInit, PoolInv, SessionsExclusive, ParksOnlyAfterRetirement, WakeInv
<1>4. Cardinality(retired) <= MaxRetired
  BY FS_EmptySet, ChunkAssumption DEF ChunkInit
<1> QED
  BY <1>1, <1>2, <1>3, <1>4 DEF ChunkInv

LEMMA TypeStep ==
    ASSUME ChunkTypeOK, RunnerInv, [ChunkNext]_chunkVars
    PROVE  ChunkTypeOK'
<1> USE ChunkAssumption DEF ChunkTypeOK, Chunks, States, Finished
<1>1. CASE UNCHANGED chunkVars
  BY <1>1 DEF chunkVars, runnerVars, poolVars
<1>2. ASSUME NEW n \in 0..MaxChunks, Begin(n) PROVE ChunkTypeOK'
  <2>1. results' \in Seq(Chunks)
    BY <1>2 DEF Begin
  <2>2. task' \in [Chunks -> States]
    BY <1>2 DEF Begin
  <2>3. failed' \in BOOLEAN
    BY <1>2 DEF Begin
  <2>4. /\ runner' = "running" /\ outcome' = "none"
        /\ size' = n /\ spawned' = 0 /\ awaited' = 0
        /\ UNCHANGED <<held, idle, retired>>
    BY <1>2 DEF Begin
  <2> QED
    BY <2>1, <2>2, <2>3, <2>4
<1>3. CASE Spawn
  <2>1. spawned + 1 \in Chunks
    BY <1>3 DEF Spawn, MaySpawn
  <2> QED
    BY <1>3, <2>1 DEF Spawn
<1>4. CASE Await
  <2>1. /\ awaited + 1 \in Chunks
        /\ awaited' = awaited + 1
        /\ results' \in {results, Append(results, awaited + 1)}
        /\ failed' \in BOOLEAN
        /\ UNCHANGED <<runner, size, spawned, outcome, task, held, idle, retired>>
    BY <1>4 DEF Await, InFlight, poolVars
  <2>2. ASSUME NEW s \in Seq(Chunks), NEW x \in Chunks PROVE Append(s, x) \in Seq(Chunks)
    OBVIOUS
  <2>3. results' \in Seq(Chunks)
    BY <2>1, <2>2
  <2> QED
    BY <2>1, <2>3
<1>5. CASE Return
  BY <1>5 DEF Return, poolVars
<1>6. ASSUME NEW i \in Chunks, TaskStep(i) \/ FailEarly(i) \/ Retire(i) \/ WakeSpuriously(i)
      PROVE  ChunkTypeOK'
  <2>1. CASE Borrow(i)
    BY <2>1 DEF Borrow, Becomes, runnerVars
  <2>2. CASE GiveBack(i) \/ Retire(i)
    BY <2>2 DEF GiveBack, Retire, Becomes, runnerVars
  <2>3. CASE Notify(i)
    BY <2>3 DEF Notify, Becomes, runnerVars
  <2>4. CASE Park(i) \/ Finish(i) \/ FailEarly(i) \/ WakeSpuriously(i)
    BY <2>4 DEF Park, Finish, FailEarly, WakeSpuriously, Becomes, runnerVars
  <2> QED
    BY <1>6, <2>1, <2>2, <2>3, <2>4 DEF TaskStep
<1> QED
  BY <1>1, <1>2, <1>3, <1>4, <1>5, <1>6 DEF ChunkNext, RunnerStep

\* What a step of a run may change: its own place, or wake another.
LEMMA TaskMoves ==
    ASSUME ChunkTypeOK, NEW i \in Chunks,
           TaskStep(i) \/ FailEarly(i) \/ Retire(i) \/ WakeSpuriously(i)
    PROVE  /\ UNCHANGED runnerVars
           /\ task[i] \notin Finished \union {"none"}
           /\ \A j \in Chunks : task[j] \in Finished \union {"none"} => task'[j] = task[j]
           /\ \A j \in Chunks : task[j] # "none" => task'[j] # "none"
<1> USE DEF ChunkTypeOK, Finished, Becomes
<1>1. CASE Borrow(i) \/ Park(i)
  BY <1>1 DEF Borrow, Park
<1>2. CASE GiveBack(i) \/ Retire(i)
  BY <1>2 DEF GiveBack, Retire
<1>3. CASE Notify(i)
  BY <1>3 DEF Notify
<1>4. CASE Finish(i) \/ FailEarly(i) \/ WakeSpuriously(i)
  BY <1>4 DEF Finish, FailEarly, WakeSpuriously
<1> QED
  BY <1>1, <1>2, <1>3, <1>4 DEF TaskStep

\* run_chunks keeps its books, whatever the runs do.
LEMMA RunnerStepInv ==
    ASSUME ChunkTypeOK, RunnerInv, TaskInv, ResultInv, FailureStopsNewChunks, [ChunkNext]_chunkVars
    PROVE  RunnerInv' /\ TaskInv' /\ ResultInv' /\ FailureStopsNewChunks'
<1> USE ChunkAssumption, SessionCount, InFlightCount
    DEF ChunkTypeOK, RunnerInv, TaskInv, ResultInv, FailureStopsNewChunks
<1>1. CASE UNCHANGED chunkVars
  BY <1>1 DEF chunkVars, runnerVars, poolVars
<1>2. ASSUME NEW n \in 0..MaxChunks, Begin(n)
      PROVE  RunnerInv' /\ TaskInv' /\ ResultInv' /\ FailureStopsNewChunks'
  BY <1>2 DEF Begin, Chunks
<1>3. CASE Spawn
  <2>1. ~failed /\ spawned - awaited < PoolSize /\ spawned < size
    BY <1>3 DEF Spawn, MaySpawn
  <2>2. spawned + 1 \in Chunks /\ task' = [task EXCEPT ![spawned + 1] = "spawned"]
    BY <1>3, <2>1 DEF Spawn, Chunks
  <2>3. RunnerInv'
    BY <1>3, <2>1 DEF Spawn
  <2>4. TaskInv'
    <3>1. \A j \in Chunks : j # spawned + 1 => task'[j] = task[j]
      BY <2>2
    <3>2. task'[spawned + 1] = "spawned" /\ spawned' = spawned + 1 /\ awaited' = awaited
      BY <1>3, <2>2 DEF Spawn
    <3>3. \A j \in Chunks : j > spawned + 1 <=> task'[j] = "none"
      BY <2>1, <3>1, <3>2 DEF Chunks
    <3>4. \A j \in Chunks : j <= awaited => task'[j] \in Finished
      BY <3>1, <2>2
    <3> QED
      BY <3>2, <3>3, <3>4
  <2>5. ~failed'
    BY <1>3, <2>1 DEF Spawn
  <2>6. ResultInv'
    <3>1. results' = results /\ awaited' = awaited /\ awaited <= spawned
      BY <1>3 DEF Spawn
    <3>2. \A j \in 1..awaited : j \in Chunks /\ j # spawned + 1
      BY <3>1 DEF Chunks
    <3>3. \A j \in 1..awaited : task'[j] = task[j]
      BY <2>2, <3>2
    <3> QED
      BY <2>1, <3>1, <3>3
  <2> QED
    BY <2>3, <2>4, <2>5, <2>6
<1>4. CASE Await
  <2> DEFINE i == awaited + 1
  <2>1. /\ i \in Chunks /\ i <= spawned /\ task[i] \in Finished
        /\ awaited' = i
        /\ results' = IF task[i] = "ok" THEN Append(results, i) ELSE results
        /\ failed' = (failed \/ task[i] # "ok")
        /\ UNCHANGED <<runner, size, spawned, outcome, task>>
    BY <1>4 DEF Await, InFlight, Chunks, poolVars
  <2>2. runner = "running"
    BY <1>4 DEF Await
  <2>3. RunnerInv' /\ TaskInv'
    BY <2>1, <2>2 DEF Chunks
  <2>4. ResultInv'
    <3>1. SUFFICES ASSUME ~failed' PROVE ResultInv'
      OBVIOUS
    <3>2. ~failed /\ task[i] = "ok" /\ results' = Append(results, i)
      BY <2>1, <3>1
    <3>3. Len(results') = i /\ results'[i] = i /\ \A j \in 1..awaited : results'[j] = results[j]
      BY <3>2
    <3> QED
      BY <2>1, <3>2, <3>3
  <2>5. FailureStopsNewChunks'
    <3>1. CASE failed
      BY <2>1, <3>1 DEF Chunks
    <3>2. CASE ~failed
      <4>1. SUFFICES ASSUME task[i] # "ok" PROVE FailureStopsNewChunks'
        BY <2>1, <3>2
      <4>2. task'[i] \in {"err", "panicked"}
        BY <2>1, <4>1 DEF Finished
      <4>3. \A j \in 1..(i - 1) : task'[j] = "ok"
        BY <2>1, <3>2
      <4>4. i \in 1..awaited' /\ spawned' < i + PoolSize
        BY <2>1
      <4> HIDE DEF i
      <4> QED
        BY <4>2, <4>3, <4>4 DEF PoolSize
    <3> QED
      BY <3>1, <3>2
  <2> QED
    BY <2>3, <2>4, <2>5
<1>5. CASE Return
  BY <1>5 DEF Return, MaySpawn, InFlight, poolVars
<1>6. ASSUME NEW i \in Chunks, TaskStep(i) \/ FailEarly(i) \/ Retire(i) \/ WakeSpuriously(i)
      PROVE  RunnerInv' /\ TaskInv' /\ ResultInv' /\ FailureStopsNewChunks'
  <2>1. /\ UNCHANGED <<runner, size, spawned, awaited, failed, results, outcome>>
        /\ task[i] \notin Finished \union {"none"}
        /\ \A j \in Chunks : task[j] \in Finished \union {"none"} => task'[j] = task[j]
        /\ \A j \in Chunks : task[j] # "none" => task'[j] # "none"
    BY <1>6, TaskMoves DEF runnerVars
  <2>2. RunnerInv'
    BY <2>1
  <2>3. TaskInv'
    BY <2>1
  <2>4. \A j \in 1..awaited : j \in Chunks /\ task[j] \in Finished /\ task'[j] = task[j]
    BY <2>1 DEF Chunks
  <2>5. ResultInv'
    BY <2>1, <2>4
  <2>6. FailureStopsNewChunks'
    BY <2>1, <2>4
  <2> QED
    BY <2>2, <2>3, <2>5, <2>6
<1> QED
  BY <1>1, <1>2, <1>3, <1>4, <1>5, <1>6 DEF ChunkNext, RunnerStep

\* Sessions change hands one at a time and are never dropped.
LEMMA PoolStepInv ==
    ASSUME ChunkTypeOK, RunnerInv, TaskInv, PoolInv, [ChunkNext]_chunkVars
    PROVE  PoolInv'
<1> USE DEF ChunkTypeOK, PoolInv, SessionsExclusive
<1>1. CASE UNCHANGED chunkVars
  BY <1>1 DEF chunkVars, runnerVars, poolVars
<1>2. ASSUME NEW n \in 0..MaxChunks, Begin(n) PROVE PoolInv'
  <2>1. \A i \in Chunks : task[i] # "inference" /\ task'[i] = "none"
    BY <1>2 DEF Begin, TaskInv, RunnerInv, Chunks, Finished
  <2>2. UNCHANGED <<held, idle, retired>>
    BY <1>2 DEF Begin
  <2> QED
    BY <2>1, <2>2
<1>3. CASE Spawn
  <2>1. spawned + 1 \in Chunks /\ task[spawned + 1] = "none"
    BY <1>3, ChunkAssumption DEF Spawn, MaySpawn, TaskInv, RunnerInv, Chunks
  <2>2. task' = [task EXCEPT ![spawned + 1] = "spawned"] /\ UNCHANGED <<held, idle, retired>>
    BY <1>3 DEF Spawn
  <2> QED
    BY <2>1, <2>2
<1>4. CASE Await \/ Return
  BY <1>4 DEF Await, Return, poolVars
<1>5. ASSUME NEW i \in Chunks, TaskStep(i) \/ FailEarly(i) \/ Retire(i) \/ WakeSpuriously(i)
      PROVE  PoolInv'
  <2>1. CASE Borrow(i)
    <3>1. PICK s \in idle : held' = [held EXCEPT ![i] = {s}] /\ idle' = idle \ {s}
      BY <2>1 DEF Borrow
    <3>2. /\ task[i] # "inference" /\ held[i] = {}
          /\ task' = [task EXCEPT ![i] = "inference"] /\ retired' = retired
      BY <2>1 DEF Borrow, Becomes
    <3> QED
      BY <3>1, <3>2
  <2>2. CASE GiveBack(i)
    <3>1. /\ task[i] = "inference" /\ task' = [task EXCEPT ![i] = "returning"]
          /\ idle' = idle \union held[i] /\ held' = [held EXCEPT ![i] = {}] /\ retired' = retired
      BY <2>2 DEF GiveBack, Becomes
    <3> QED
      BY <3>1
  <2>3. CASE Retire(i)
    <3>1. /\ task[i] = "inference" /\ task' = [task EXCEPT ![i] = "panicked"]
          /\ retired' = retired \union held[i] /\ held' = [held EXCEPT ![i] = {}] /\ idle' = idle
      BY <2>3 DEF Retire, Becomes
    <3> QED
      BY <3>1
  <2>4. CASE Notify(i) \/ Park(i) \/ Finish(i) \/ FailEarly(i) \/ WakeSpuriously(i)
    <3>1. /\ UNCHANGED <<held, idle, retired>>
          /\ \A j \in Chunks : task[j] = "inference" <=> task'[j] = "inference"
      BY <2>4 DEF Notify, Park, Finish, FailEarly, WakeSpuriously, Becomes, Finished
    <3> QED
      BY <3>1
  <2> QED
    BY <1>5, <2>1, <2>2, <2>3, <2>4 DEF TaskStep
<1> QED
  BY <1>1, <1>2, <1>3, <1>4, <1>5 DEF ChunkNext, RunnerStep

\* Only Retire loses a session, one at a time.
LEMMA RetiredStep ==
    ASSUME ChunkTypeOK, PoolInv, Cardinality(retired) <= MaxRetired, [ChunkNext]_chunkVars
    PROVE  Cardinality(retired') <= MaxRetired /\ retired \subseteq retired'
<1>1. CASE UNCHANGED retired
  BY <1>1
<1>2. ASSUME NEW i \in Chunks, Retire(i)
      PROVE  Cardinality(retired') <= MaxRetired /\ retired \subseteq retired'
  <2>1. PICK s \in SessionIds : held[i] = {s}
    BY <1>2 DEF Retire, PoolInv, SessionsExclusive, ChunkTypeOK
  <2>2. retired' = retired \union {s} /\ Cardinality(retired) < MaxRetired
    BY <1>2, <2>1 DEF Retire
  <2>3. Cardinality(retired') \in {Cardinality(retired), Cardinality(retired) + 1}
    BY <2>2, PoolFinite, FS_AddElement
  <2> QED
    BY <2>2, <2>3, PoolFinite, ChunkAssumption
<1>3. ASSUME ~UNCHANGED retired PROVE \E i \in Chunks : Retire(i)
  BY <1>3 DEF ChunkNext, RunnerStep, TaskStep, Begin, Spawn, Await, Return, Borrow, Park, GiveBack,
     Notify, Finish, FailEarly, WakeSpuriously, chunkVars, runnerVars, poolVars
<1> QED
  BY <1>1, <1>2, <1>3

\* The argument both halves need: with every session held by a run, the runs
\* in flight are used up, and none is left to park.
LEMMA AllHeldNoneParks ==
    ASSUME ChunkTypeOK, RunnerInv, TaskInv, PoolInv, retired = {}, idle = {},
           NEW i \in Chunks, task[i] \notin Finished \union {"none", "inference"}
    PROVE  FALSE
<1> DEFINE Others    == InFlight \ {i}
           holder    == [s \in SessionIds |-> CHOOSE j \in Chunks : s \in held[j]]
<1>1. \A s \in SessionIds : holder[s] \in Chunks /\ s \in held[holder[s]]
  BY DEF PoolInv
<1>2. \A s \in SessionIds : holder[s] \in Others
  <2>1. SUFFICES ASSUME NEW s \in SessionIds PROVE holder[s] \in Others
    OBVIOUS
  <2>2. task[holder[s]] = "inference"
    BY <1>1 DEF PoolInv, SessionsExclusive
  <2> DEFINE j == holder[s]
  <2>3. j \in Chunks /\ task[j] = "inference" /\ j # i
    BY <1>1, <2>2
  <2> HIDE DEF holder, j
  <2>4. j <= spawned /\ ~(j <= awaited)
    BY <2>3, ChunkAssumption DEF TaskInv, Finished, Chunks, ChunkTypeOK
  <2>5. j \in InFlight
    BY <2>3, <2>4, ChunkAssumption DEF InFlight, Chunks, ChunkTypeOK
  <2> QED
    BY <2>3, <2>5 DEF j
<1>3. \A s, t \in SessionIds : holder[s] = holder[t] => s = t
  BY <1>1 DEF PoolInv, SessionsExclusive
<1>4. holder \in Injection(SessionIds, Others)
  BY <1>2, <1>3 DEF Injection, IsInjective
<1>5. i \in InFlight
  BY ChunkAssumption DEF InFlight, Chunks, ChunkTypeOK, TaskInv, Finished
<1>6. IsFiniteSet(Others) /\ Cardinality(Others) = spawned - awaited - 1
  BY <1>5, InFlightCount, FS_RemoveElement
<1>7. PoolSize <= Cardinality(Others)
  <2> HIDE DEF holder, Others
  <2> QED
    BY <1>4, <1>6, FS_Injection DEF PoolSize
<1> QED
  BY <1>6, <1>7, SessionCount, ChunkAssumption DEF RunnerInv, ChunkTypeOK

LEMMA ParkStep ==
    ASSUME ChunkTypeOK, RunnerInv, TaskInv, PoolInv, ParksOnlyAfterRetirement,
           Cardinality(retired) <= MaxRetired, [ChunkNext]_chunkVars
    PROVE  ParksOnlyAfterRetirement'
<1>1. SUFFICES ASSUME retired' = {}, NEW k \in Chunks, task'[k] = "parked" PROVE FALSE
  BY DEF ParksOnlyAfterRetirement
<1>2. retired = {}
  BY <1>1, RetiredStep
<1>3. \A i \in Chunks : task[i] # "parked"
  BY <1>2 DEF ParksOnlyAfterRetirement
<1>4. \A i \in Chunks : ~Park(i)
  BY <1>2, AllHeldNoneParks DEF Park, Finished
<1> USE DEF ChunkTypeOK, Becomes
<1>5. ASSUME NEW i \in Chunks, TaskStep(i) \/ FailEarly(i) \/ Retire(i) \/ WakeSpuriously(i) PROVE FALSE
  BY <1>1, <1>3, <1>4, <1>5 DEF TaskStep, Borrow, GiveBack, Notify, Finish, FailEarly, Retire,
     WakeSpuriously, Finished
<1>6. ASSUME NEW n \in 0..MaxChunks, Begin(n) PROVE FALSE
  BY <1>1, <1>6 DEF Begin
<1>7. CASE Spawn
  BY <1>1, <1>3, <1>7 DEF Spawn
<1>8. CASE Await \/ Return \/ UNCHANGED chunkVars
  BY <1>1, <1>3, <1>8 DEF Await, Return, chunkVars, poolVars
<1> QED
  BY <1>5, <1>6, <1>7, <1>8 DEF ChunkNext, RunnerStep

\* Every push is matched by a run that is about to notify, or by one that a
\* notification has woken and that will look at the pool again.
LEMMA WakeStep ==
    ASSUME ChunkTypeOK, RunnerInv, TaskInv, PoolInv, WakeInv, [ChunkNext]_chunkVars
    PROVE  WakeInv'
<1>0. ChunkTypeOK'
  BY TypeStep
<1>1. /\ IsFiniteSet(idle) /\ Cardinality(idle) \in Nat /\ Cardinality(idle') \in Nat
      /\ IsFiniteSet(Expected) /\ Cardinality(Expected) \in Nat /\ Cardinality(Expected') \in Nat
  <2>1. IsFiniteSet(idle') /\ IsFiniteSet(Expected')
    <3>1. IsFiniteSet(idle')
      BY <1>0, FS_Subset, ChunkAssumption DEF ChunkTypeOK
    <3>2. IsFiniteSet(Chunks)
      BY FS_Interval, ChunkAssumption DEF Chunks
    <3> QED
      BY <3>1, <3>2, FS_Subset DEF Expected
  <2> QED
    BY <2>1, PoolFinite, FS_CardinalityType
<1> USE DEF ChunkTypeOK, Becomes
<1>2. ASSUME idle' = idle, Expected' = Expected,
             \A i \in Chunks : task'[i] = "parked" => task[i] = "parked"
      PROVE  WakeInv'
  BY <1>2 DEF WakeInv
<1>3. CASE UNCHANGED chunkVars
  BY <1>2, <1>3 DEF chunkVars, poolVars, Expected
<1>4. ASSUME NEW n \in 0..MaxChunks, Begin(n) PROVE WakeInv'
  BY <1>4 DEF Begin, WakeInv
<1>5. CASE Spawn
  <2>1. spawned + 1 \in Chunks /\ task[spawned + 1] = "none"
    BY <1>5, ChunkAssumption DEF Spawn, MaySpawn, TaskInv, RunnerInv, Chunks
  <2>2. task' = [task EXCEPT ![spawned + 1] = "spawned"] /\ idle' = idle
    BY <1>5 DEF Spawn
  <2>3. Expected' = Expected
    BY <2>1, <2>2 DEF Expected
  <2> QED
    BY <1>2, <2>1, <2>2, <2>3
<1>6. CASE Await \/ Return
  BY <1>2, <1>6 DEF Await, Return, poolVars, Expected
<1>7. ASSUME NEW i \in Chunks, TaskStep(i) \/ FailEarly(i) \/ Retire(i) \/ WakeSpuriously(i)
      PROVE  WakeInv'
  <2>1. CASE Borrow(i)
    <3>1. PICK s \in idle : idle' = idle \ {s}
      BY <2>1 DEF Borrow
    <3>2. Cardinality(idle') = Cardinality(idle) - 1
      BY <1>1, <3>1, FS_RemoveElement
    <3>3. Expected' = Expected \ {i}
      BY <2>1 DEF Borrow, Expected
    <3>4. Cardinality(Expected') >= Cardinality(Expected) - 1
      <4>1. CASE i \in Expected
        <5>1. Cardinality(Expected \ {i}) = Cardinality(Expected) - 1
          BY <1>1, <4>1, FS_RemoveElement
        <5> QED
          BY <1>1, <3>3, <5>1
      <4>2. CASE i \notin Expected
        <5>1. Expected' = Expected
          BY <3>3, <4>2
        <5> QED
          BY <1>1, <5>1
      <4> QED
        BY <4>1, <4>2
    <3>5. \A j \in Chunks : task'[j] = "parked" => task[j] = "parked"
      BY <2>1 DEF Borrow
    <3> QED
      BY <1>1, <3>2, <3>4, <3>5 DEF WakeInv
  <2>2. CASE Park(i)
    <3>1. idle' = {}
      BY <2>2 DEF Park
    <3> QED
      BY <1>1, <3>1, FS_EmptySet DEF WakeInv
  <2>3. CASE GiveBack(i)
    <3>1. PICK s \in SessionIds : held[i] = {s}
      BY <2>3 DEF GiveBack, PoolInv, SessionsExclusive
    <3>2. Cardinality(idle') <= Cardinality(idle) + 1
      <4>1. idle' = idle \union {s}
        BY <2>3, <3>1 DEF GiveBack
      <4>2. CASE s \in idle
        <5>1. idle' = idle
          BY <4>1, <4>2
        <5> QED
          BY <1>1, <5>1
      <4>3. CASE s \notin idle
        <5>1. Cardinality(idle \union {s}) = Cardinality(idle) + 1
          BY <1>1, <4>3, FS_AddElement
        <5> QED
          BY <1>1, <4>1, <5>1
      <4> QED
        BY <4>2, <4>3
    <3>3. i \notin Expected /\ Expected' = Expected \union {i}
      BY <2>3 DEF GiveBack, Expected
    <3>4. Cardinality(Expected') = Cardinality(Expected) + 1
      BY <1>1, <3>3, FS_AddElement
    <3>5. \A j \in Chunks : task'[j] = "parked" => task[j] = "parked"
      BY <2>3 DEF GiveBack
    <3> QED
      BY <1>1, <3>2, <3>4, <3>5 DEF WakeInv
  <2>4. CASE Notify(i)
    <3>1. CASE \A j \in Chunks : task[j] # "parked"
      BY <2>4, <3>1 DEF Notify, WakeInv
    <3>2. ASSUME NEW j \in Chunks, task[j] = "parked",
                 task' = [task EXCEPT ![i] = "tail", ![j] = "woken"]
          PROVE  WakeInv'
      <4>1. i # j /\ i \in Expected /\ j \notin Expected /\ idle' = idle
        BY <2>4, <3>2 DEF Notify, Expected
      <4>2. Expected' = (Expected \ {i}) \union {j}
        BY <4>1, <3>2 DEF Expected
      <4>3. IsFiniteSet(Expected \ {i}) /\ Cardinality(Expected \ {i}) = Cardinality(Expected) - 1
        BY <1>1, <4>1, FS_RemoveElement
      <4>4. Cardinality(Expected') = Cardinality(Expected)
        <5>1. j \notin Expected \ {i}
          BY <4>1
        <5>2. Cardinality((Expected \ {i}) \union {j}) = Cardinality(Expected \ {i}) + 1
          BY <4>3, <5>1, FS_AddElement
        <5> QED
          BY <1>1, <4>2, <4>3, <5>2
      <4> QED
        BY <1>1, <3>2, <4>1, <4>4 DEF WakeInv
    <3> QED
      BY <2>4, <3>1, <3>2 DEF Notify
  <2>5. CASE WakeSpuriously(i)
    <3>1. idle' = idle /\ Expected \subseteq Expected'
      BY <2>5 DEF WakeSpuriously, Expected
    <3>2. IsFiniteSet(Expected')
      <4>1. IsFiniteSet(Chunks)
        BY FS_Interval, ChunkAssumption DEF Chunks
      <4>2. Expected' \subseteq Chunks
        BY DEF Expected, Chunks
      <4> QED
        BY <4>1, <4>2, FS_Subset
    <3>3. Cardinality(Expected) <= Cardinality(Expected')
      BY <3>1, <3>2, FS_Subset
    <3>4. \A j \in Chunks : task'[j] = "parked" => task[j] = "parked"
      BY <2>5 DEF WakeSpuriously
    <3> QED
      BY <1>1, <3>1, <3>3, <3>4 DEF WakeInv
  <2>6. CASE Finish(i) \/ FailEarly(i) \/ Retire(i)
    <3>1. idle' = idle /\ Expected' = Expected
      BY <2>6 DEF Finish, FailEarly, Retire, Expected, Finished
    <3>2. \A j \in Chunks : task'[j] = "parked" => task[j] = "parked"
      BY <2>6 DEF Finish, FailEarly, Retire, Finished
    <3> QED
      BY <1>2, <3>1, <3>2
  <2> QED
    BY <1>7, <2>1, <2>2, <2>3, <2>4, <2>5, <2>6 DEF TaskStep
<1> QED
  BY <1>3, <1>4, <1>5, <1>6, <1>7 DEF ChunkNext, RunnerStep

-----------------------------------------------------------------------------
LEMMA ChunkInvKept == ChunkInv /\ [ChunkNext]_chunkVars => ChunkInv'
BY TypeStep, RunnerStepInv, PoolStepInv, RetiredStep, ParkStep, WakeStep DEF ChunkInv

LEMMA ChunkInvariance == ChunkSafeSpec => []ChunkInv
<1> QED
  BY ChunkInvStart, ChunkInvKept, PTL DEF ChunkSafeSpec

\* The batch, the pool and every run keep their types.
THEOREM ChunkTypeCorrect == ChunkSafeSpec => []ChunkTypeOK
<1>1. ChunkInv => ChunkTypeOK
  BY DEF ChunkInv
<1> QED
  BY <1>1, ChunkInvariance, PTL

\* A batch that returns Ok has the result of every chunk, in chunk order.
THEOREM ResultsStayInOrder == ChunkSafeSpec => []ResultsInChunkOrder
<1>1. ChunkInv => ResultsInChunkOrder
  <2> SUFFICES ASSUME ChunkInv, outcome = "ok" PROVE /\ Len(results) = size
                                                /\ \A i \in DOMAIN results : results[i] = i /\ task[i] = "ok"
    BY DEF ResultsInChunkOrder
  <2>1. ~failed /\ spawned = size /\ awaited = spawned /\ results \in Seq(Chunks)
    BY DEF ChunkInv, RunnerInv, ChunkTypeOK
  <2>2. Len(results) = size /\ \A i \in 1..size : results[i] = i /\ task[i] = "ok"
    BY <2>1 DEF ChunkInv, ResultInv
  <2> QED
    BY <2>1, <2>2
<1> QED
  BY <1>1, ChunkInvariance, PTL

\* Whenever run_chunks has returned, no run of the batch is going and every
\* session is in the pool or retired.
THEOREM BatchesDrain == ChunkSafeSpec => []DrainedOnReturn
<1>1. ChunkInv => DrainedOnReturn
  <2> SUFFICES ASSUME ChunkInv, runner = "ready"
               PROVE  /\ \A i \in Chunks : task[i] \in Finished \union {"none"}
                      /\ idle \union retired = SessionIds
    BY DEF DrainedOnReturn
  <2>1. \A i \in Chunks : task[i] \in Finished \union {"none"}
    BY ChunkAssumption DEF ChunkInv, RunnerInv, TaskInv, ChunkTypeOK, Chunks
  <2>2. \A i \in Chunks : held[i] = {}
    BY <2>1 DEF ChunkInv, PoolInv, SessionsExclusive, Finished
  <2> QED
    BY <2>1, <2>2 DEF ChunkInv, PoolInv, ChunkTypeOK
<1> QED
  BY <1>1, ChunkInvariance, PTL

\* No session is ever used by two runs, or idle while it is used.
THEOREM SessionsStayExclusive == ChunkSafeSpec => []SessionsExclusive
<1>1. ChunkInv => SessionsExclusive
  BY DEF ChunkInv, PoolInv
<1> QED
  BY <1>1, ChunkInvariance, PTL

\* The dispatcher never outnumbers the pool: as long as no panic has retired a
\* session, no run waits for one.
THEOREM NobodyParksInAFullPool == ChunkSafeSpec => []ParksOnlyAfterRetirement
<1>1. ChunkInv => ParksOnlyAfterRetirement
  BY DEF ChunkInv
<1> QED
  BY <1>1, ChunkInvariance, PTL

\* As long as panics leave the pool one session, a parked run has somebody to
\* wait for: no wakeup is lost.
THEOREM NoWakeupIsLost ==
    ASSUME MaxRetired < Cardinality(SessionIds)
    PROVE  ChunkSafeSpec => []ParkedAwaitsBusySession
<1>1. ChunkInv => ParkedAwaitsBusySession
  <2>1. SUFFICES ASSUME ChunkInv, NEW k \in Chunks, task[k] = "parked",
                        \A j \in Chunks : task[j] \notin {"inference", "returning", "woken"}
                 PROVE  FALSE
    BY DEF ParkedAwaitsBusySession
  <2>2. ChunkTypeOK /\ PoolInv /\ WakeInv /\ Cardinality(retired) <= MaxRetired
    BY <2>1 DEF ChunkInv
  <2>3. Expected = {}
    BY <2>1 DEF Expected
  <2>4. idle = {}
    BY <2>1, <2>2, <2>3, PoolFinite, FS_EmptySet DEF WakeInv
  <2>5. \A i \in Chunks : held[i] = {}
    BY <2>1, <2>2 DEF PoolInv, SessionsExclusive
  <2>6. retired = SessionIds
    BY <2>2, <2>4, <2>5 DEF PoolInv, ChunkTypeOK
  <2> QED
    BY <2>2, <2>6, SessionCount, ChunkAssumption DEF PoolSize
<1> QED
  BY <1>1, ChunkInvariance, PTL

\* A failed batch starts no chunk beyond the ones already in flight.
THEOREM FailuresStopSpawning == ChunkSafeSpec => []FailureStopsNewChunks
<1>1. ChunkInv => FailureStopsNewChunks
  BY DEF ChunkInv
<1> QED
  BY <1>1, ChunkInvariance, PTL

-----------------------------------------------------------------------------
\* Every step of run_chunks and of the pool is a step of BatchRun or none that
\* its caller sees.
THEOREM ImplementsBatchRun == ChunkSafeSpec => Batch!SafeSpec
<1>1. ChunkInit => Batch!Init
  BY DEF ChunkInit, Batch!Init
<1>2. ChunkInv /\ [ChunkNext]_chunkVars => [Batch!Next]_(Batch!vars)
  <2> SUFFICES ASSUME ChunkInv, [ChunkNext]_chunkVars PROVE [Batch!Next]_(Batch!vars)
    OBVIOUS
  <2>1. ASSUME NEW n \in 0..MaxChunks, Begin(n) PROVE Batch!Begin(n)
    BY <2>1 DEF Begin, Batch!Begin
  <2>2. CASE Return
    <3>1. /\ runner = "running" /\ runner' = "ready" /\ UNCHANGED <<size, results>>
          /\ outcome' = IF failed THEN "err" ELSE "ok"
      BY <2>2 DEF Return
    <3>2. CASE failed
      BY <3>1, <3>2 DEF Batch!Next, Batch!Fail, ChunkInv, RunnerInv
    <3>3. CASE ~failed
      <4>1. awaited = spawned
        BY <2>2, ChunkAssumption DEF Return, InFlight, ChunkInv, ChunkTypeOK, RunnerInv
      <4>2. spawned = size
        <5>1. spawned - awaited < PoolSize /\ Cardinality(InFlight) = 0
          BY <4>1, SessionCount, InFlightCount, ChunkAssumption DEF ChunkInv, ChunkTypeOK
        <5> QED
          BY <2>2, <3>3, <5>1, SessionCount, ChunkAssumption DEF Return, MaySpawn, ChunkInv, ChunkTypeOK, RunnerInv
      <4>3. results = [i \in 1..size |-> i]
        <5>1. results \in Seq(Chunks) /\ Len(results) = size /\ \A i \in 1..size : results[i] = i
          BY <3>3, <4>1, <4>2 DEF ChunkInv, ResultInv, ChunkTypeOK
        <5> QED
          BY <5>1
      <4> QED
        BY <3>1, <3>3, <4>3 DEF Batch!Next, Batch!Succeed
    <3> QED
      BY <3>2, <3>3
  <2>3. CASE Spawn \/ Await \/ UNCHANGED chunkVars
    <3>1. runner' = runner /\ size' = size /\ outcome' = outcome
      BY <2>3 DEF Spawn, Await, chunkVars, runnerVars
    <3>2. outcome = "ok" => results' = results
      BY <2>3 DEF Spawn, Await, chunkVars, runnerVars, ChunkInv, RunnerInv
    <3> QED
      BY <3>1, <3>2 DEF Batch!vars
  <2>4. ASSUME NEW i \in Chunks, TaskStep(i) \/ FailEarly(i) \/ Retire(i) \/ WakeSpuriously(i)
        PROVE  UNCHANGED Batch!vars
    BY <2>4, TaskMoves DEF ChunkInv, runnerVars, Batch!vars
  <2> QED
    BY <2>1, <2>2, <2>3, <2>4 DEF ChunkNext, RunnerStep, Batch!Next
<1> QED
  BY <1>1, <1>2, ChunkInvariance, PTL DEF ChunkSafeSpec, Batch!SafeSpec
=============================================================================
