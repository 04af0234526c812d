--------------------------- MODULE JobQueueProofs ---------------------------
(***************************************************************************)
(* Facts about the front half of the workers, action by action, for the    *)
(* proofs about each worker to cite: whatever the worker computes, a       *)
(* caller that waits has one request in the line, and the line is bounded. *)
(***************************************************************************)
EXTENDS JobQueue, SequenceTheorems, TLAPS

BatchEmptyBetweenRounds == phase \in {"recv", "stopped"} => batch = <<>>

\* A caller in a call has asked for something.
BusyCallersAsk == \A c \in Callers : pc[c] # "idle" => asked[c] \in Payloads

\* What the induction on steps needs of the queue.
QueueInv ==
    /\ QueueTypeOK
    /\ BusyCallersAsk
    /\ BatchEmptyBetweenRounds
    /\ OneJobPerCaller

\* What answering a batch does to the queue, whatever the answer.
RoundEnds ==
    /\ phase = "run"
    /\ pc' = [c \in Callers |-> IF c \in Addressees(batch) THEN "idle" ELSE pc[c]]
    /\ asked' = asked
    /\ phase' = "recv"
    /\ batch' = <<>>
    /\ queued' = 0
    /\ queue' = queue

\* What answering its first request alone does to it.
FirstAnswered ==
    /\ phase = "run"
    /\ batch # <<>>
    /\ pc' = [c \in Callers |-> IF c = Head(batch).to THEN "idle" ELSE pc[c]]
    /\ asked' = asked
    /\ phase' = IF Tail(batch) = <<>> THEN "recv" ELSE "run"
    /\ batch' = Tail(batch)
    /\ queued' = IF Tail(batch) = <<>> THEN 0 ELSE queued
    /\ queue' = queue

\* The limits are positive numbers, whatever was configured.
LEMMA Limits ==
    /\ MaxBatch \in Nat \ {0}
    /\ Sessions \in Nat \ {0}
    /\ Limit \in Nat \ {0}
    /\ Capacity \in Nat \ {0}
<1>1. MaxBatch \in Nat \ {0} /\ Sessions \in Nat \ {0}
  BY QueueAssumption DEF MaxBatch, Sessions, AtLeastOne
<1>2. \A m, n \in Nat \ {0} : m * n \in Nat \ {0}
  OBVIOUS
<1> QED
  BY <1>1, <1>2 DEF Limit, Capacity

\* A request holds at least one item.
LEMMA JobSize ==
    ASSUME NEW j \in Job
    PROVE  Len(j.items) \in Nat \ {0} /\ j.items \in Seq(Items)
BY QueueAssumption, EmptySeq DEF Job

\* The line, index by index.
LEMMA LineAt ==
    ASSUME QueueTypeOK
    PROVE  /\ Line \in Seq(Job)
           /\ DOMAIN Line = 1..(Len(batch) + Len(queue))
           /\ \A i \in DOMAIN batch : i \in DOMAIN Line /\ Line[i] = batch[i]
           /\ \A i \in DOMAIN queue :
                 i + Len(batch) \in DOMAIN Line /\ Line[i + Len(batch)] = queue[i]
           /\ \A i \in DOMAIN Line :
                 Line[i] = IF i <= Len(batch) THEN batch[i] ELSE queue[i - Len(batch)]
BY DEF Line, QueueTypeOK

\* Replacing an addressee keeps the requests and their places.
LEMMA ForgetKeeps ==
    ASSUME NEW jobs \in Seq(Job), NEW c \in Callers
    PROVE  /\ Forget(jobs, c) \in Seq(Job)
           /\ Len(Forget(jobs, c)) = Len(jobs)
           /\ DOMAIN Forget(jobs, c) = DOMAIN jobs
           /\ \A i \in DOMAIN jobs :
                 /\ Forget(jobs, c)[i].items = jobs[i].items
                 /\ Forget(jobs, c)[i].to = IF jobs[i].to = c THEN Gone ELSE jobs[i].to
<1>1. DOMAIN jobs = 1..Len(jobs) /\ Len(jobs) \in Nat
  OBVIOUS
<1>2. ASSUME NEW i \in DOMAIN jobs
      PROVE  /\ Forget(jobs, c)[i] \in Job
             /\ Forget(jobs, c)[i].items = jobs[i].items
             /\ Forget(jobs, c)[i].to = IF jobs[i].to = c THEN Gone ELSE jobs[i].to
  <2>1. jobs[i] \in Job
    BY <1>1
  <2> QED
    BY <2>1 DEF Forget, Job
<1>3. Forget(jobs, c) \in [1..Len(jobs) -> Job]
  BY <1>1, <1>2 DEF Forget
<1>4. Forget(jobs, c) \in Seq(Job) /\ Len(Forget(jobs, c)) = Len(jobs)
  BY <1>1, <1>3
<1> QED
  BY <1>1, <1>2, <1>3, <1>4

\* The line grows at its end only, and collecting leaves it as it is.
LEMMA SubmitStep ==
    ASSUME QueueInv, NEW c \in Callers, NEW p \in Payloads, Submit(c, p)
    PROVE  QueueInv'
<1> USE DEF QueueInv, Submit
<1>1. QueueTypeOK' /\ BusyCallersAsk' /\ BatchEmptyBetweenRounds'
  BY DEF QueueTypeOK, BusyCallersAsk, BatchEmptyBetweenRounds
<1>2. Line' = Line
  BY DEF Line
<1>3. \A i \in DOMAIN Line : Line[i].to # c
  BY DEF OneJobPerCaller, QueueTypeOK
<1>4. OneJobPerCaller'
  BY <1>2, <1>3 DEF OneJobPerCaller, QueueTypeOK
<1> QED
  BY <1>1, <1>4

LEMMA SendFailsStep ==
    ASSUME QueueInv, NEW c \in Callers, SendFails(c)
    PROVE  QueueInv'
<1> USE DEF QueueInv, SendFails
<1>1. QueueTypeOK' /\ BusyCallersAsk' /\ BatchEmptyBetweenRounds'
  BY DEF QueueTypeOK, BusyCallersAsk, BatchEmptyBetweenRounds
<1>2. Line' = Line
  BY DEF Line
<1>3. OneJobPerCaller'
  BY <1>2 DEF OneJobPerCaller, QueueTypeOK
<1> QED
  BY <1>1, <1>3

LEMMA EnqueueStep ==
    ASSUME QueueInv, NEW c \in Callers, Enqueue(c)
    PROVE  QueueInv'
<1> DEFINE job == [to |-> c, items |-> asked[c]]
           n == Len(batch) + Len(queue)
<1> USE DEF QueueInv, Enqueue
<1>1. job \in Job
  BY DEF BusyCallersAsk, Job
<1>2. QueueTypeOK' /\ BusyCallersAsk' /\ BatchEmptyBetweenRounds'
  BY <1>1 DEF QueueTypeOK, BusyCallersAsk, BatchEmptyBetweenRounds
<1>3. /\ DOMAIN Line = 1..n
      /\ DOMAIN Line' = 1..(n + 1)
      /\ n \in Nat
      /\ \A i \in 1..n : Line'[i] = Line[i]
      /\ Line'[n + 1] = job
  BY <1>1 DEF Line, QueueTypeOK
<1>4. job.to = c /\ job.items = asked[c]
  OBVIOUS
<1>5. \A i \in DOMAIN Line : Line[i].to # c
  BY DEF OneJobPerCaller, QueueTypeOK
<1> HIDE DEF job, n
<1>6. ASSUME NEW e \in Callers
      PROVE  /\ pc'[e] = "waiting" =>
                   \E i \in DOMAIN Line' : Line'[i].to = e /\ Line'[i].items = asked'[e]
             /\ \A i \in DOMAIN Line' : Line'[i].to = e => pc'[e] = "waiting"
             /\ \A i, j \in DOMAIN Line' : Line'[i].to = e /\ Line'[j].to = e => i = j
  <2>1. CASE e = c
    <3>1. pc'[e] = "waiting" /\ asked'[e] = asked[e]
      BY <2>1 DEF QueueTypeOK
    <3>2. n + 1 \in DOMAIN Line' /\ Line'[n + 1].to = e /\ Line'[n + 1].items = asked[e]
      BY <2>1, <1>3, <1>4
    <3>3. \A i \in DOMAIN Line' : Line'[i].to = e => i = n + 1
      BY <2>1, <1>3, <1>5
    <3> QED
      BY <3>1, <3>2, <3>3
  <2>2. CASE e # c
    <3>1. pc'[e] = pc[e] /\ asked'[e] = asked[e]
      BY <2>2 DEF QueueTypeOK
    <3>2. \A i \in DOMAIN Line' : Line'[i].to = e => i \in DOMAIN Line
      BY <2>2, <1>3, <1>4
    <3>3. \A i \in DOMAIN Line : i \in DOMAIN Line' /\ Line'[i] = Line[i]
      BY <1>3
    <3>4. pc[e] = "waiting" =>
             \E i \in DOMAIN Line : Line[i].to = e /\ Line[i].items = asked[e]
      BY DEF OneJobPerCaller
    <3> QED
      BY <3>1, <3>2, <3>3, <3>4 DEF OneJobPerCaller
  <2> QED
    BY <2>1, <2>2
<1>7. OneJobPerCaller'
  BY <1>6 DEF OneJobPerCaller
<1> QED
  BY <1>2, <1>7

LEMMA CancelledLine ==
    ASSUME QueueInv, NEW c \in Callers, Cancel(c)
    PROVE  /\ QueueTypeOK' /\ (batch = <<>> => batch' = <<>>)
           /\ DOMAIN Line' = DOMAIN Line
           /\ \A i \in DOMAIN Line :
                 /\ Line'[i].items = Line[i].items
                 /\ Line'[i].to = IF Line[i].to = c THEN Gone ELSE Line[i].to
<1> USE DEF QueueInv, Cancel
<1>1. /\ batch \in Seq(Job) /\ queue \in Seq(Job)
      /\ batch' = Forget(batch, c)
      /\ queue' = Forget(queue, c)
  BY DEF QueueTypeOK
<1>2. batch = <<>> => batch' = <<>>
  <2>1. Len(batch') = Len(batch) /\ batch' \in Seq(Job)
    BY <1>1, ForgetKeeps
  <2> QED
    BY <2>1
<1>3. QueueTypeOK'
  BY <1>1, ForgetKeeps DEF QueueTypeOK
<1>4. /\ DOMAIN Line' = DOMAIN Line
      /\ \A i \in DOMAIN Line :
            /\ Line'[i].items = Line[i].items
            /\ Line'[i].to = IF Line[i].to = c THEN Gone ELSE Line[i].to
  <2>1. /\ DOMAIN batch = 1..Len(batch) /\ DOMAIN queue = 1..Len(queue)
        /\ Len(batch) \in Nat /\ Len(queue) \in Nat
    BY <1>1
  <2>2. /\ Len(batch') = Len(batch) /\ Len(queue') = Len(queue)
        /\ \A i \in DOMAIN batch :
              /\ batch'[i].items = batch[i].items
              /\ batch'[i].to = IF batch[i].to = c THEN Gone ELSE batch[i].to
        /\ \A i \in DOMAIN queue :
              /\ queue'[i].items = queue[i].items
              /\ queue'[i].to = IF queue[i].to = c THEN Gone ELSE queue[i].to
    BY <1>1, ForgetKeeps
  <2>3. /\ DOMAIN Line = 1..(Len(batch) + Len(queue))
        /\ \A i \in DOMAIN Line :
              Line[i] = IF i <= Len(batch) THEN batch[i] ELSE queue[i - Len(batch)]
    BY LineAt
  <2>4. /\ DOMAIN Line' = 1..(Len(batch') + Len(queue'))
        /\ \A i \in DOMAIN Line' :
              Line'[i] = IF i <= Len(batch') THEN batch'[i] ELSE queue'[i - Len(batch')]
    BY <1>3 DEF Line, QueueTypeOK
  <2>5. DOMAIN Line' = DOMAIN Line
    BY <2>2, <2>3, <2>4
  <2>6. ASSUME NEW i \in DOMAIN Line, i <= Len(batch)
        PROVE  /\ Line'[i].items = Line[i].items
               /\ Line'[i].to = IF Line[i].to = c THEN Gone ELSE Line[i].to
    BY <2>1, <2>2, <2>3, <2>4, <2>5, <2>6
  <2>7. ASSUME NEW i \in DOMAIN Line, ~(i <= Len(batch))
        PROVE  /\ Line'[i].items = Line[i].items
               /\ Line'[i].to = IF Line[i].to = c THEN Gone ELSE Line[i].to
    <3>1. i - Len(batch) \in DOMAIN queue
      BY <2>1, <2>3, <2>7
    <3> QED
      BY <3>1, <2>2, <2>3, <2>4, <2>5, <2>7
  <2> QED
    BY <2>5, <2>6, <2>7
<1> QED
  BY <1>2, <1>3, <1>4

LEMMA CancelStep ==
    ASSUME QueueInv, NEW c \in Callers, Cancel(c)
    PROVE  QueueInv'
<1> USE DEF QueueInv
<1>3. QueueTypeOK' /\ BusyCallersAsk' /\ BatchEmptyBetweenRounds'
  BY CancelledLine DEF Cancel, QueueTypeOK, BusyCallersAsk, BatchEmptyBetweenRounds
<1>5. Gone \notin Callers
  BY QueueAssumption
<1>4. /\ DOMAIN Line' = DOMAIN Line
      /\ \A i \in DOMAIN Line :
            /\ Line'[i].items = Line[i].items
            /\ Line'[i].to = IF Line[i].to = c THEN Gone ELSE Line[i].to
  BY CancelledLine
<1>6. OneJobPerCaller'
  <2>1. pc'[c] = "idle" /\ \A i \in DOMAIN Line : Line'[i].to # c
    BY <1>4, <1>5 DEF Cancel, QueueTypeOK
  <2>2. ASSUME NEW e \in Callers, e # c
        PROVE  /\ pc'[e] = pc[e] /\ asked'[e] = asked[e]
               /\ \A i \in DOMAIN Line : Line'[i].to = e <=> Line[i].to = e
    BY <1>4, <1>5, <2>2 DEF Cancel, QueueTypeOK
  <2> QED
    BY <1>4, <2>1, <2>2 DEF OneJobPerCaller
<1> QED
  BY <1>3, <1>6

\* The worker takes requests off the front of the channel: the line, that is
\* who is ahead of whom, stays as it was.
LEMMA TakeStep ==
    ASSUME QueueInv, RecvFirst \/ CollectMore
    PROVE  QueueInv' /\ Line' = Line
<1> USE DEF QueueInv
<1>1. batch' = Append(batch, Head(queue)) /\ queue' = Tail(queue) /\ queue # <<>>
  <2>1. CASE RecvFirst
    <3>1. batch = <<>> /\ batch' = <<Head(queue)>>
      BY <2>1 DEF RecvFirst, BatchEmptyBetweenRounds
    <3>2. Append(<<>>, Head(queue)) = <<Head(queue)>>
      OBVIOUS
    <3> QED
      BY <2>1, <3>1, <3>2 DEF RecvFirst
  <2>2. CASE CollectMore
    BY <2>2 DEF CollectMore
  <2> QED
    BY <2>1, <2>2
<1>2. Head(queue) \in Job /\ Len(Head(queue).items) \in Nat
  BY <1>1, JobSize DEF QueueTypeOK
<1>3. QueueTypeOK'
  BY <1>1, <1>2 DEF QueueTypeOK, RecvFirst, CollectMore, callerVars
<1>4. BusyCallersAsk' /\ BatchEmptyBetweenRounds'
  BY DEF BusyCallersAsk, BatchEmptyBetweenRounds, RecvFirst, CollectMore, callerVars
<1>5. Line' = Line
  BY <1>1, <1>3 DEF Line, QueueTypeOK
<1>6. pc' = pc /\ asked' = asked
  BY DEF RecvFirst, CollectMore, callerVars
<1>7. OneJobPerCaller'
  BY <1>5, <1>6 DEF OneJobPerCaller
<1> QED
  BY <1>3, <1>4, <1>5, <1>7

LEMMA WindowClosesStep ==
    ASSUME QueueInv, WindowCloses
    PROVE  QueueInv' /\ Line' = Line
<1> USE DEF QueueInv, WindowCloses
<1>1. QueueTypeOK' /\ BusyCallersAsk' /\ BatchEmptyBetweenRounds'
  BY DEF QueueTypeOK, BusyCallersAsk, BatchEmptyBetweenRounds
<1>2. Line' = Line
  BY DEF Line
<1>3. OneJobPerCaller'
  BY <1>2 DEF OneJobPerCaller
<1> QED
  BY <1>1, <1>2, <1>3

\* Answering the batch leaves the callers behind it where they were.
LEMMA RoundEndsStep ==
    ASSUME QueueInv, RoundEnds
    PROVE  QueueInv'
<1> USE DEF QueueInv, RoundEnds
<1>1. QueueTypeOK' /\ BusyCallersAsk' /\ BatchEmptyBetweenRounds'
  BY DEF QueueTypeOK, BusyCallersAsk, BatchEmptyBetweenRounds
<1>2. Line' = queue
  BY DEF Line, QueueTypeOK
<1>3. /\ DOMAIN batch = 1..Len(batch) /\ DOMAIN queue = 1..Len(queue)
      /\ Len(batch) \in Nat /\ Len(queue) \in Nat
  BY DEF QueueTypeOK
<1>4. \A c \in Callers : c \in Addressees(batch) <=> \E i \in DOMAIN batch : batch[i].to = c
  BY QueueAssumption DEF Addressees
<1>5. \A i \in DOMAIN queue : i + Len(batch) \in DOMAIN Line /\ Line[i + Len(batch)] = queue[i]
  BY LineAt
<1>6. \A i \in DOMAIN batch : i \in DOMAIN Line /\ Line[i] = batch[i]
  BY LineAt
<1>7. \A i \in DOMAIN queue, j \in DOMAIN batch : i + Len(batch) # j
  BY <1>3
<1>8. ASSUME NEW c \in Callers
      PROVE  /\ pc'[c] = "waiting" =>
                   \E i \in DOMAIN queue : queue[i].to = c /\ queue[i].items = asked[c]
             /\ \A i \in DOMAIN queue : queue[i].to = c => pc'[c] = "waiting"
             /\ \A i, j \in DOMAIN queue : queue[i].to = c /\ queue[j].to = c => i = j
  <2>1. ASSUME pc'[c] = "waiting"
        PROVE  \E i \in DOMAIN queue : queue[i].to = c /\ queue[i].items = asked[c]
    <3>1. pc[c] = "waiting" /\ c \notin Addressees(batch)
      BY <2>1
    <3>2. PICK i \in DOMAIN Line : Line[i].to = c /\ Line[i].items = asked[c]
      BY <3>1 DEF OneJobPerCaller
    <3>3. ~(i <= Len(batch))
      BY <3>1, <3>2, <1>3, <1>4, LineAt
    <3>4. i - Len(batch) \in DOMAIN queue /\ Line[i] = queue[i - Len(batch)]
      BY <3>3, <1>3, LineAt
    <3> QED
      BY <3>2, <3>4
  <2>2. ASSUME NEW i \in DOMAIN queue, queue[i].to = c
        PROVE  pc'[c] = "waiting"
    <3>1. pc[c] = "waiting"
      BY <2>2, <1>5 DEF OneJobPerCaller
    <3>2. c \notin Addressees(batch)
      BY <2>2, <1>4, <1>5, <1>6, <1>7 DEF OneJobPerCaller
    <3> QED
      BY <3>1, <3>2
  <2>3. ASSUME NEW i \in DOMAIN queue, NEW j \in DOMAIN queue, queue[i].to = c, queue[j].to = c
        PROVE  i = j
    <3>1. i + Len(batch) = j + Len(batch)
      BY <2>3, <1>5 DEF OneJobPerCaller
    <3> QED
      BY <3>1, <1>3
  <2> QED
    BY <2>1, <2>2, <2>3
<1>9. OneJobPerCaller'
  BY <1>2, <1>8 DEF OneJobPerCaller
<1> QED
  BY <1>1, <1>9

\* Answering the first request moves every other one up by one place.
LEMMA MovedUp ==
    ASSUME QueueInv, FirstAnswered
    PROVE  /\ \A i \in DOMAIN Line' : i + 1 \in DOMAIN Line /\ Line'[i] = Line[i + 1]
           /\ \A j \in DOMAIN Line : j # 1 => j - 1 \in DOMAIN Line' /\ Line'[j - 1] = Line[j]
<1> USE DEF QueueInv, FirstAnswered
<1>1. /\ Head(batch) \in Job /\ Tail(batch) \in Seq(Job) /\ Head(batch) = batch[1]
      /\ Len(batch) \in Nat \ {0} /\ Len(queue) \in Nat
      /\ Len(Tail(batch)) = Len(batch) - 1
      /\ \A i \in 1..(Len(batch) - 1) : Tail(batch)[i] = batch[i + 1]
  BY DEF QueueTypeOK
<1>2. QueueTypeOK'
  BY <1>1 DEF QueueTypeOK
<1>3. /\ DOMAIN Line = 1..(Len(batch) + Len(queue))
      /\ DOMAIN Line' = 1..(Len(batch) + Len(queue) - 1)
  BY <1>1, <1>2, LineAt DEF Line, QueueTypeOK
<1>4. Line[1] = Head(batch)
  <2>1. 1 \in DOMAIN batch
    BY <1>1 DEF QueueTypeOK
  <2> QED
    BY <1>1, <2>1, LineAt
<1>5. ASSUME NEW i \in DOMAIN Line' PROVE i + 1 \in DOMAIN Line /\ Line'[i] = Line[i + 1]
  <2>1. i \in 1..(Len(batch) + Len(queue) - 1) /\ i + 1 \in 1..(Len(batch) + Len(queue))
    BY <1>1, <1>3
  <2>2. Line' = Tail(batch) \o queue
    BY DEF Line
  <2>3. CASE i <= Len(batch) - 1
    <3>1. Line'[i] = batch[i + 1]
      BY <1>1, <2>1, <2>2, <2>3 DEF QueueTypeOK
    <3>2. Line[i + 1] = batch[i + 1]
      BY <1>1, <1>3, <2>1, <2>3, LineAt
    <3> QED
      BY <1>3, <2>1, <3>1, <3>2
  <2>4. CASE ~(i <= Len(batch) - 1)
    <3>1. Line'[i] = queue[i - (Len(batch) - 1)]
      BY <1>1, <2>1, <2>2, <2>4 DEF QueueTypeOK
    <3>2. Line[i + 1] = queue[(i + 1) - Len(batch)]
      <4>1. i + 1 \in DOMAIN Line /\ ~(i + 1 <= Len(batch))
        BY <1>1, <1>3, <2>1, <2>4
      <4> QED
        BY <4>1, LineAt
    <3>3. i - (Len(batch) - 1) = (i + 1) - Len(batch)
      BY <1>1, <2>1
    <3> QED
      BY <1>3, <2>1, <3>1, <3>2, <3>3
  <2> QED
    BY <2>3, <2>4
<1>6. ASSUME NEW j \in DOMAIN Line, j # 1 PROVE j - 1 \in DOMAIN Line' /\ Line'[j - 1] = Line[j]
  <2>1. j - 1 \in DOMAIN Line' /\ (j - 1) + 1 = j
    BY <1>1, <1>3, <1>6
  <2> QED
    BY <1>5, <2>1
<1> QED
  BY <1>5, <1>6

\* Answering the first request takes it off the front of the line.
LEMMA FirstAnsweredStep ==
    ASSUME QueueInv, FirstAnswered
    PROVE  QueueInv'
<1> USE DEF QueueInv, FirstAnswered
<1>1. /\ Head(batch) \in Job /\ Tail(batch) \in Seq(Job) /\ Head(batch) = batch[1]
      /\ Len(batch) \in Nat \ {0} /\ Len(queue) \in Nat
      /\ Len(Tail(batch)) = Len(batch) - 1
      /\ \A i \in 1..(Len(batch) - 1) : Tail(batch)[i] = batch[i + 1]
  BY DEF QueueTypeOK
<1>2. QueueTypeOK' /\ BusyCallersAsk' /\ BatchEmptyBetweenRounds'
  <2>1. phase' \in {"recv", "run"} /\ queued' \in Nat /\ queue' \in Seq(Job) /\ batch' \in Seq(Job)
    BY <1>1 DEF QueueTypeOK
  <2>2. pc' \in [Callers -> {"idle", "sending", "waiting"}]
    BY DEF QueueTypeOK
  <2>3. asked' \in [Callers -> Payloads \union {<<>>}]
    BY DEF QueueTypeOK
  <2> QED
    BY <2>1, <2>2, <2>3 DEF QueueTypeOK, BusyCallersAsk, BatchEmptyBetweenRounds
<1>4. Line[1] = Head(batch) /\ 1 \in DOMAIN Line
  <2>1. 1 \in DOMAIN batch
    BY <1>1 DEF QueueTypeOK
  <2> QED
    BY <1>1, <2>1, LineAt
<1>5. \A i \in DOMAIN Line' : i + 1 \in DOMAIN Line /\ Line'[i] = Line[i + 1]
  BY MovedUp
<1>6. \A j \in DOMAIN Line : j # 1 => j - 1 \in DOMAIN Line' /\ Line'[j - 1] = Line[j]
  BY MovedUp
<1>3. DOMAIN Line \subseteq Nat /\ DOMAIN Line' \subseteq Nat \ {0}
  BY <1>2, LineAt DEF Line, QueueTypeOK
<1>8. ASSUME NEW c \in Callers
      PROVE  /\ pc'[c] = "waiting" =>
                   \E i \in DOMAIN Line' : Line'[i].to = c /\ Line'[i].items = asked'[c]
             /\ \A i \in DOMAIN Line' : Line'[i].to = c => pc'[c] = "waiting"
             /\ \A i, j \in DOMAIN Line' : Line'[i].to = c /\ Line'[j].to = c => i = j
  <2>1. ASSUME pc'[c] = "waiting"
        PROVE  \E i \in DOMAIN Line' : Line'[i].to = c /\ Line'[i].items = asked'[c]
    <3>1. pc[c] = "waiting" /\ c # Head(batch).to
      BY <2>1
    <3>2. PICK i \in DOMAIN Line : Line[i].to = c /\ Line[i].items = asked[c]
      BY <3>1 DEF OneJobPerCaller
    <3> QED
      BY <1>4, <1>6, <3>1, <3>2
  <2>2. ASSUME NEW i \in DOMAIN Line', Line'[i].to = c PROVE pc'[c] = "waiting"
    <3>1. i + 1 \in DOMAIN Line /\ Line[i + 1].to = c
      BY <1>5, <2>2
    <3>2. pc[c] = "waiting"
      BY <3>1 DEF OneJobPerCaller
    <3>3. i + 1 # 1
      BY <1>3, <1>1
    <3>4. c # Head(batch).to
      BY <1>4, <3>1, <3>3 DEF OneJobPerCaller
    <3> QED
      BY <3>2, <3>4
  <2>3. ASSUME NEW i \in DOMAIN Line', NEW j \in DOMAIN Line', Line'[i].to = c, Line'[j].to = c
        PROVE  i = j
    <3>1. i + 1 = j + 1
      BY <1>5, <2>3 DEF OneJobPerCaller
    <3> QED
      BY <1>3, <3>1
  <2> QED
    BY <2>1, <2>2, <2>3
<1>9. OneJobPerCaller'
  BY <1>8 DEF OneJobPerCaller
<1> QED
  BY <1>2, <1>9

LEMMA WorkerDiesStep ==
    ASSUME QueueInv, WorkerDies
    PROVE  QueueInv'
<1> USE DEF QueueInv, WorkerDies, Reply
<1>1. QueueTypeOK' /\ BusyCallersAsk' /\ BatchEmptyBetweenRounds'
  BY DEF QueueTypeOK, BusyCallersAsk, BatchEmptyBetweenRounds
<1>2. Line' = <<>>
  BY DEF Line
<1>3. ASSUME NEW c \in Callers, pc'[c] = "waiting" PROVE FALSE
  <2>1. pc[c] = "waiting" /\ c \notin Addressees(batch) \union Addressees(queue)
    BY <1>3
  <2>2. PICK i \in DOMAIN Line : Line[i].to = c
    BY <2>1 DEF OneJobPerCaller
  <2>3. \/ i \in DOMAIN batch /\ Line[i] = batch[i]
        \/ i - Len(batch) \in DOMAIN queue /\ Line[i] = queue[i - Len(batch)]
    BY LineAt DEF QueueTypeOK
  <2> QED
    BY <2>1, <2>2, <2>3, QueueAssumption DEF Addressees
<1>4. OneJobPerCaller'
  BY <1>2, <1>3 DEF OneJobPerCaller
<1> QED
  BY <1>1, <1>4

LEMMA QueueStutter ==
    ASSUME QueueInv, UNCHANGED queueVars
    PROVE  QueueInv'
BY DEF QueueInv, QueueTypeOK, BusyCallersAsk, BatchEmptyBetweenRounds, OneJobPerCaller,
       Line, queueVars

LEMMA QueueStart ==
    ASSUME QueueInit
    PROVE  QueueInv
<1> USE DEF QueueInit
<1>1. Line = <<>>
  BY DEF Line
<1>2. QueueTypeOK /\ BusyCallersAsk /\ BatchEmptyBetweenRounds
  BY DEF QueueTypeOK, BusyCallersAsk, BatchEmptyBetweenRounds
<1>3. OneJobPerCaller
  BY <1>1 DEF OneJobPerCaller
<1> QED
  BY <1>2, <1>3 DEF QueueInv

\* A step of the queue, as any worker that extends JobQueue makes it.
QueueStep ==
    \/ \E c \in Callers, p \in Payloads : Submit(c, p)
    \/ \E c \in Callers : Enqueue(c) \/ SendFails(c) \/ Cancel(c)
    \/ RecvFirst \/ CollectMore \/ WindowCloses
    \/ RoundEnds \/ FirstAnswered \/ WorkerDies
    \/ UNCHANGED queueVars

LEMMA QueueInvStep == QueueInv /\ QueueStep => QueueInv'
BY SubmitStep, EnqueueStep, SendFailsStep, CancelStep, TakeStep, WindowClosesStep,
   RoundEndsStep, FirstAnsweredStep, WorkerDiesStep, QueueStutter DEF QueueStep

\* Collecting stops in time, and a send waits for a free slot.
LEMMA BoundStep ==
    ASSUME QueueInv, BatchBounded, QueueStep
    PROVE  BatchBounded'
<1> USE Limits DEF QueueInv, QueueTypeOK
<1>1. CASE \/ \E c \in Callers, p \in Payloads : Submit(c, p)
           \/ \E c \in Callers : SendFails(c)
           \/ WindowCloses \/ UNCHANGED queueVars
  BY <1>1 DEF BatchBounded, Submit, SendFails, WindowCloses, queueVars
<1>2. ASSUME NEW c \in Callers, Enqueue(c) PROVE BatchBounded'
  <2>1. queue' \in Seq(Job) /\ Len(queue') = Len(queue) + 1
    BY <1>2 DEF Enqueue, BusyCallersAsk, Job
  <2> QED
    BY <1>2, <2>1 DEF BatchBounded, Enqueue
<1>3. ASSUME NEW c \in Callers, Cancel(c) PROVE BatchBounded'
  <2>1. /\ batch' = Forget(batch, c) /\ queue' = Forget(queue, c) /\ queued' = queued
    BY <1>3 DEF Cancel
  <2>2. Len(queue') = Len(queue) /\ Len(batch') = Len(batch)
    BY <2>1, ForgetKeeps
  <2>3. batch' # <<>> => batch # <<>> /\ Len(batch) \in DOMAIN batch
    BY <2>1, <2>2, ForgetKeeps
  <2>4. batch' # <<>> => batch'[Len(batch)].items = batch[Len(batch)].items
    BY <2>1, <2>3, ForgetKeeps
  <2> QED
    BY <2>1, <2>2, <2>3, <2>4 DEF BatchBounded
<1>4. CASE RecvFirst
  <2>1. Head(queue) \in Job /\ Len(Head(queue).items) \in Nat \ {0}
    BY <1>4, JobSize DEF RecvFirst
  <2>2. Len(batch') = 1 /\ batch'[1] = Head(queue) /\ queued' = Len(Head(queue).items)
    BY <1>4 DEF RecvFirst
  <2>3. Len(queue') <= Len(queue)
    BY <1>4 DEF RecvFirst
  <2> QED
    BY <2>1, <2>2, <2>3 DEF BatchBounded, Capacity
<1>5. CASE CollectMore
  <2>1. Head(queue) \in Job /\ Len(Head(queue).items) \in Nat \ {0}
    BY <1>5, JobSize DEF CollectMore
  <2>2. Len(batch') = Len(batch) + 1 /\ batch'[Len(batch) + 1] = Head(queue)
    BY <1>5, <2>1 DEF CollectMore
  <2>3. queued' = queued + Len(Head(queue).items) /\ queued < Limit
    BY <1>5 DEF CollectMore
  <2>4. Len(queue') <= Len(queue)
    BY <1>5 DEF CollectMore
  <2> QED
    BY <2>1, <2>2, <2>3, <2>4 DEF BatchBounded
<1>6. CASE RoundEnds \/ WorkerDies
  BY <1>6 DEF BatchBounded, RoundEnds, WorkerDies
<1>7. CASE FirstAnswered
  <2>1. batch' # <<>> => batch'[Len(batch')] = batch[Len(batch)] /\ queued' = queued
    BY <1>7 DEF FirstAnswered
  <2> QED
    BY <1>7, <2>1 DEF FirstAnswered, BatchBounded
<1> QED
  BY <1>1, <1>2, <1>3, <1>4, <1>5, <1>6, <1>7 DEF QueueStep

-----------------------------------------------------------------------------
\* The place of a waiting caller is where its only request is.
LEMMA PlaceOf ==
    ASSUME OneJobPerCaller, NEW c \in Callers, pc[c] = "waiting"
    PROVE  /\ Position(c) \in DOMAIN Line /\ Line[Position(c)].to = c
           /\ \A i \in DOMAIN Line : Line[i].to = c => i = Position(c)
BY DEF OneJobPerCaller, Position

\* When the requests behind the k first ones move up by k, callers that still
\* wait keep their order.
LEMMA OrderKept ==
    ASSUME QueueInv, OneJobPerCaller', NEW k \in Nat,
           \A i \in DOMAIN Line :
              Line[i].to \in Callers /\ pc'[Line[i].to] = "waiting" =>
                 i - k \in DOMAIN Line' /\ Line'[i - k].to = Line[i].to
    PROVE  \A c, d \in Callers :
              Ahead(d, c) /\ pc'[c] = "waiting" /\ pc'[d] = "waiting" => Ahead(d, c)'
<1>1. ASSUME NEW c \in Callers, pc[c] = "waiting", pc'[c] = "waiting"
      PROVE  Position(c)' = Position(c) - k /\ Position(c) \in Nat
  <2>1. Position(c) \in DOMAIN Line /\ Line[Position(c)].to = c
    BY <1>1, PlaceOf DEF QueueInv
  <2>2. Position(c) - k \in DOMAIN Line' /\ Line'[Position(c) - k].to = c
    BY <1>1, <2>1
  <2>3. \A i, j \in DOMAIN Line' : Line'[i].to = c /\ Line'[j].to = c => i = j
    BY DEF OneJobPerCaller
  <2>4. Position(c)' = Position(c) - k
    BY <2>2, <2>3 DEF Position
  <2>5. Position(c) \in Nat
    BY <2>1, LineAt DEF QueueInv
  <2> QED
    BY <2>4, <2>5
<1> SUFFICES ASSUME NEW c \in Callers, NEW d \in Callers, Ahead(d, c),
                    pc'[c] = "waiting", pc'[d] = "waiting"
             PROVE  Ahead(d, c)'
  OBVIOUS
<1>2. pc[c] = "waiting" /\ pc[d] = "waiting" /\ Position(d) < Position(c)
  BY DEF Ahead
<1>3. /\ Position(c)' = Position(c) - k /\ Position(d)' = Position(d) - k
      /\ Position(c) \in Nat /\ Position(d) \in Nat
  BY <1>1, <1>2
<1>4. Position(d)' < Position(c)'
  BY <1>2, <1>3
<1> QED
  BY <1>4 DEF Ahead

LEMMA UnmovedLine ==
    ASSUME \/ \E c \in Callers, p \in Payloads : Submit(c, p)
           \/ \E c \in Callers : SendFails(c)
           \/ WindowCloses \/ UNCHANGED queueVars
    PROVE  Line' = Line
BY DEF Line, Submit, SendFails, WindowCloses, queueVars

\* No step of the queue lets a waiting caller pass another.
LEMMA OrderStep ==
    ASSUME QueueInv, QueueStep
    PROVE  \A c, d \in Callers :
              Ahead(d, c) /\ pc'[c] = "waiting" /\ pc'[d] = "waiting" => Ahead(d, c)'
<1>1. QueueInv'
  BY QueueInvStep
<1>2. OneJobPerCaller' /\ QueueTypeOK' /\ QueueTypeOK /\ OneJobPerCaller
  BY <1>1 DEF QueueInv
<1>3. DOMAIN Line \subseteq Nat /\ \A i \in DOMAIN Line : i - 0 = i
  BY <1>2, LineAt
<1>4. CASE Line' = Line
  <2>1. \A i \in DOMAIN Line : i - 0 \in DOMAIN Line' /\ Line'[i - 0].to = Line[i].to
    BY <1>3, <1>4
  <2> QED
    BY <1>2, <2>1, OrderKept
<1>5. ASSUME NEW e \in Callers, Enqueue(e)
      PROVE  \A c, d \in Callers :
                Ahead(d, c) /\ pc'[c] = "waiting" /\ pc'[d] = "waiting" => Ahead(d, c)'
  <2> DEFINE job == [to |-> e, items |-> asked[e]]
  <2>1. job \in Job
    BY <1>5 DEF Enqueue, QueueInv, BusyCallersAsk, Job
  <2>2. /\ DOMAIN Line = 1..(Len(batch) + Len(queue))
        /\ DOMAIN Line' = 1..(Len(batch) + Len(queue) + 1)
        /\ Len(batch) \in Nat /\ Len(queue) \in Nat
        /\ \A i \in 1..(Len(batch) + Len(queue)) : Line'[i] = Line[i]
    BY <1>2, <1>5, <2>1 DEF Line, QueueTypeOK, Enqueue
  <2>3. ASSUME NEW i \in DOMAIN Line
        PROVE  i - 0 \in DOMAIN Line' /\ Line'[i - 0].to = Line[i].to
    BY <1>3, <2>2
  <2> QED
    BY <1>2, <2>3, OrderKept
<1>6. ASSUME NEW e \in Callers, Cancel(e)
      PROVE  \A c, d \in Callers :
                Ahead(d, c) /\ pc'[c] = "waiting" /\ pc'[d] = "waiting" => Ahead(d, c)'
  <2>1. /\ DOMAIN Line' = DOMAIN Line
        /\ \A i \in DOMAIN Line : Line'[i].to = IF Line[i].to = e THEN Gone ELSE Line[i].to
    BY <1>2, <1>6, CancelledLine
  <2>2. pc'[e] = "idle"
    BY <1>2, <1>6 DEF Cancel, QueueTypeOK
  <2>3. ASSUME NEW i \in DOMAIN Line, Line[i].to \in Callers, pc'[Line[i].to] = "waiting"
        PROVE  i - 0 \in DOMAIN Line' /\ Line'[i - 0].to = Line[i].to
    BY <1>3, <2>1, <2>2, <2>3
  <2> QED
    BY <1>2, <2>3, OrderKept
<1>7. CASE RoundEnds
  <2>1. /\ Line' = queue /\ Len(batch) \in Nat
        /\ \A c \in Callers : pc'[c] = "waiting" => c \notin Addressees(batch)
    BY <1>2, <1>7 DEF RoundEnds, Line, QueueTypeOK
  <2>2. ASSUME NEW i \in DOMAIN Line, Line[i].to \in Callers, pc'[Line[i].to] = "waiting"
        PROVE  i - Len(batch) \in DOMAIN Line' /\ Line'[i - Len(batch)].to = Line[i].to
    <3>1. ~(i \in DOMAIN batch /\ Line[i] = batch[i])
      BY <2>1, <2>2, QueueAssumption DEF Addressees
    <3>2. /\ DOMAIN batch = 1..Len(batch) /\ DOMAIN queue = 1..Len(queue)
          /\ Len(batch) \in Nat /\ Len(queue) \in Nat
      BY <1>2 DEF QueueTypeOK
    <3>3. i \in 1..(Len(batch) + Len(queue)) /\ Line[i] = IF i <= Len(batch) THEN batch[i] ELSE queue[i - Len(batch)]
      BY <1>2, LineAt
    <3>4. ~(i <= Len(batch)) /\ i - Len(batch) \in DOMAIN queue
      BY <3>1, <3>2, <3>3
    <3> QED
      BY <2>1, <3>3, <3>4
  <2> QED
    BY <1>2, <2>1, <2>2, OrderKept
<1>8. CASE FirstAnswered
  <2>1. ASSUME NEW i \in DOMAIN Line, Line[i].to \in Callers, pc'[Line[i].to] = "waiting"
        PROVE  i - 1 \in DOMAIN Line' /\ Line'[i - 1].to = Line[i].to
    <3>1. i # 1
      <4>1. Line[1] = Head(batch)
        BY <1>2, <1>8, LineAt DEF FirstAnswered, QueueTypeOK
      <4> QED
        BY <1>8, <2>1, <4>1 DEF FirstAnswered
    <3>2. i - 1 \in DOMAIN Line' /\ Line'[i - 1] = Line[i]
      BY <1>8, <3>1, MovedUp
    <3> QED
      BY <3>2
  <2> QED
    BY <1>2, <2>1, OrderKept
<1>9. CASE WorkerDies
  <2>1. \A c \in Callers : pc'[c] # "waiting"
    <3>1. Line' = <<>>
      BY <1>9 DEF WorkerDies, Line
    <3> QED
      BY <1>2, <3>1 DEF OneJobPerCaller
  <2> QED
    BY <2>1
<1> QED
  BY <1>4, <1>5, <1>6, <1>7, <1>8, <1>9, TakeStep, UnmovedLine DEF QueueStep
=============================================================================
