------------------------------ MODULE JobQueue ------------------------------
(***************************************************************************)
(* The front half of every model worker of dispatcher.rs: callers hand     *)
(* requests to a ModelHandle, which pushes them on a bounded channel and   *)
(* waits on a one-shot reply; the worker takes the first request, collects *)
(* more until the batch window closes, runs the batch and answers it.      *)
(*                                                                         *)
(* What the worker does with a collected batch is the business of the      *)
(* modules that extend this one (EmbedWorker, SpanWorker).                 *)
(***************************************************************************)
EXTENDS Naturals, Sequences, FiniteSets

CONSTANTS
    Callers,         \* tasks awaiting a ModelHandle call (HTTP handlers, socket connections)
    Gone,            \* the addressee of a request whose caller went away
    Items,           \* what a request is made of: texts, pairs or feature rows
    Payloads,        \* the requests callers make: sequences of items
    BatchSetting,    \* max_batch as configured, 0 included
    SessionSetting,  \* sessions as configured, 0 included
    MaxOrphans       \* bound: requests without a caller in the system at a time

\* Both channels answer an empty request themselves and never enqueue it
\* (uds.rs:88,112,139 and the validation in http.rs).
ASSUME QueueAssumption ==
    /\ Gone \notin Callers
    /\ \A p \in Payloads : p \in Seq(Items) /\ p # <<>>
    /\ BatchSetting \in Nat
    /\ SessionSetting \in Nat
    /\ MaxOrphans \in Nat

AtLeastOne(n) == IF n = 0 THEN 1 ELSE n

MaxBatch == AtLeastOne(BatchSetting)
Sessions == AtLeastOne(SessionSetting)

Capacity == MaxBatch * 4           \* slots of the bounded channel
Limit    == MaxBatch * Sessions    \* items one collection round aims for

VARIABLES
    pc,      \* pc[c]: what caller c is doing
    asked,   \* asked[c]: the payload of c's current or last request
    reply,   \* reply[c]: what c's last request was answered with
    queue,   \* the requests in the channel
    phase,   \* what the worker is doing
    batch,   \* the requests collected so far
    queued   \* the items in them

callerVars == <<pc, asked, reply>>
queueVars  == <<pc, asked, reply, queue, phase, batch, queued>>

Job     == [to : Callers \union {Gone}, items : Payloads]
NoReply == [status |-> "none", out |-> <<>>, tokens |-> 0]
Failure == [status |-> "err", out |-> <<>>, tokens |-> 0]
Success(out, tokens) == [status |-> "ok", out |-> out, tokens |-> tokens]

Addressees(jobs) == {jobs[i].to : i \in DOMAIN jobs} \ {Gone}

QueueInit ==
    /\ pc = [c \in Callers |-> "idle"]
    /\ asked = [c \in Callers |-> <<>>]
    /\ reply = [c \in Callers |-> NoReply]
    /\ queue = <<>>
    /\ phase = "recv"
    /\ batch = <<>>
    /\ queued = 0

-----------------------------------------------------------------------------
\* The callers' side: ModelHandle::embed, rerank and evaluate.

Submit(c, p) ==
    /\ pc[c] = "idle"
    /\ pc' = [pc EXCEPT ![c] = "sending"]
    /\ asked' = [asked EXCEPT ![c] = p]
    /\ reply' = [reply EXCEPT ![c] = NoReply]
    /\ UNCHANGED <<queue, phase, batch, queued>>

\* The channel takes the request as soon as it has a free slot.
Enqueue(c) ==
    /\ pc[c] = "sending"
    /\ phase # "stopped"
    /\ Len(queue) < Capacity
    /\ queue' = Append(queue, [to |-> c, items |-> asked[c]])
    /\ pc' = [pc EXCEPT ![c] = "waiting"]
    /\ UNCHANGED <<asked, reply, phase, batch, queued>>

\* "model worker stopped": the receiving end of the channel is gone.
SendFails(c) ==
    /\ pc[c] = "sending"
    /\ phase = "stopped"
    /\ pc' = [pc EXCEPT ![c] = "idle"]
    /\ reply' = [reply EXCEPT ![c] = Failure]
    /\ UNCHANGED <<asked, queue, phase, batch, queued>>

\* Slips: a reply goes to the caller rather than to its request; the request
\* is emptied along with its caller.
ForgetNothing(jobs, c) == jobs
ForgetItems(jobs, c) ==
    [i \in DOMAIN jobs |-> IF jobs[i].to = c THEN [to |-> Gone, items |-> <<>>] ELSE jobs[i]]

Forget(jobs, c) ==
    [i \in DOMAIN jobs |-> IF jobs[i].to = c THEN [jobs[i] EXCEPT !.to = Gone]
                                             ELSE jobs[i]]

Orphans(jobs) == Cardinality({i \in DOMAIN jobs : jobs[i].to = Gone})

\* An HTTP client disconnects and its handler is dropped.  A request still
\* waiting for a slot vanishes; one already in the channel is run for nobody.
Cancel(c) ==
    /\ pc[c] # "idle"
    /\ pc[c] = "waiting" => Orphans(queue) + Orphans(batch) < MaxOrphans
    /\ pc' = [pc EXCEPT ![c] = "idle"]
    /\ asked' = [asked EXCEPT ![c] = <<>>]
    /\ queue' = Forget(queue, c)
    /\ batch' = Forget(batch, c)
    /\ UNCHANGED <<reply, phase, queued>>

-----------------------------------------------------------------------------
\* The worker's side: the receive loop and collect_batch.

\* Slip: a stack instead of a queue.
RecvLast ==
    /\ phase = "recv"
    /\ queue # <<>>
    /\ phase' = "collect"
    /\ batch' = <<queue[Len(queue)]>>
    /\ queued' = Len(queue[Len(queue)].items)
    /\ queue' = SubSeq(queue, 1, Len(queue) - 1)
    /\ UNCHANGED callerVars

RecvFirst ==
    /\ phase = "recv"
    /\ queue # <<>>
    /\ phase' = "collect"
    /\ batch' = <<Head(queue)>>
    /\ queued' = Len(Head(queue).items)
    /\ queue' = Tail(queue)
    /\ UNCHANGED callerVars

\* Slips: the limit is not looked at; the request stays in the channel.
CollectPastLimit ==
    /\ phase = "collect"
    /\ queue # <<>>
    /\ batch' = Append(batch, Head(queue))
    /\ queued' = queued + Len(Head(queue).items)
    /\ queue' = Tail(queue)
    /\ UNCHANGED <<pc, asked, reply, phase>>

PeekMore ==
    /\ phase = "collect"
    /\ queued < Limit
    /\ queue # <<>>
    /\ batch' = Append(batch, Head(queue))
    /\ queued' = queued + Len(Head(queue).items)
    /\ UNCHANGED <<pc, asked, reply, phase, queue>>

CollectMore ==
    /\ phase = "collect"
    /\ queued < Limit
    /\ queue # <<>>
    /\ batch' = Append(batch, Head(queue))
    /\ queued' = queued + Len(Head(queue).items)
    /\ queue' = Tail(queue)
    /\ UNCHANGED <<pc, asked, reply, phase>>

\* The batch window closes or the limit is reached: collect_batch returns.
WindowCloses ==
    /\ phase = "collect"
    /\ phase' = "run"
    /\ UNCHANGED <<pc, asked, reply, queue, batch, queued>>

\* Every caller of S gets its reply from answer, in one worker step.
Reply(S, answer) ==
    /\ pc' = [c \in Callers |-> IF c \in S THEN "idle" ELSE pc[c]]
    /\ reply' = [c \in Callers |-> IF c \in S THEN answer[c] ELSE reply[c]]
    /\ asked' = asked

\* Answers the batch and goes back to the channel.
AnswerBatch(answer) ==
    /\ phase = "run"
    /\ Reply(Addressees(batch), answer)
    /\ phase' = "recv"
    /\ batch' = <<>>
    /\ queued' = 0
    /\ queue' = queue

\* Answers the first request of the batch; the round ends with the last one.
AnswerFirst(answer) ==
    /\ phase = "run"
    /\ batch # <<>>
    /\ Reply({Head(batch).to} \ {Gone}, [c \in Callers |-> answer])
    /\ batch' = Tail(batch)
    /\ IF Tail(batch) = <<>> THEN phase' = "recv" /\ queued' = 0 ELSE UNCHANGED <<phase, queued>>
    /\ queue' = queue

\* A panic unwinds the worker task: the channel and everything in it are
\* dropped, and with them every one-shot sender ("model worker dropped the
\* request").
WorkerDies ==
    /\ phase = "run"
    /\ Reply(Addressees(batch) \union Addressees(queue), [c \in Callers |-> Failure])
    /\ phase' = "stopped"
    /\ batch' = <<>>
    /\ queued' = 0
    /\ queue' = <<>>

-----------------------------------------------------------------------------
\* Properties of the front half, whatever the worker computes.

QueueTypeOK ==
    /\ pc \in [Callers -> {"idle", "sending", "waiting"}]
    /\ asked \in [Callers -> Payloads \union {<<>>}]
    /\ queue \in Seq(Job)
    /\ phase \in {"recv", "collect", "run", "stopped"}
    /\ batch \in Seq(Job)
    /\ queued \in Nat

\* The requests the worker has not answered, in the order the channel took them.
Line == batch \o queue

\* A caller that waits for a reply has exactly one request in the system, made
\* of what it asked for, and no other caller has any: a request is neither lost
\* nor run twice between channel, collection, reply and cancellation.
OneJobPerCaller ==
    \A c \in Callers :
        /\ pc[c] = "waiting" =>
              \E i \in DOMAIN Line : Line[i].to = c /\ Line[i].items = asked[c]
        /\ \A i \in DOMAIN Line : Line[i].to = c => pc[c] = "waiting"
        /\ \A i, j \in DOMAIN Line : Line[i].to = c /\ Line[j].to = c => i = j

\* One round never collects more than it needs to feed every session: without
\* its last request the batch is below the limit, and the channel stays bounded.
BatchBounded ==
    /\ batch # <<>> => queued < Limit + Len(batch[Len(batch)].items)
    /\ Len(queue) <= Capacity

Position(c) == CHOOSE i \in DOMAIN Line : Line[i].to = c

Ahead(d, c) ==
    /\ pc[d] = "waiting" /\ pc[c] = "waiting"
    /\ Position(d) < Position(c)

\* Requests are answered in the order the channel took them: a step that
\* answers one caller answers every caller ahead of it, and while two callers
\* wait neither passes the other, whether in the channel or in the batch.
NoOvertaking ==
    [][\A c, d \in Callers :
          Ahead(d, c) =>
              /\ reply'[c] # reply[c] => reply'[d] # reply[d]
              /\ pc'[c] = "waiting" /\ pc'[d] = "waiting" => Ahead(d, c)']_queueVars
=============================================================================
