---------------------------- MODULE BridgeClient ----------------------------
(***************************************************************************)
(* bridge-client, the process ClickHouse pools, and the daemon's side of   *)
(* the socket it talks to: blocks of rows come in, each is grouped by      *)
(* model, every group costs one round trip, and the rows go out in order.  *)
(* The daemon may go away and come back at any moment, any number of times.*)
(*                                                                         *)
(* Time is a deadline that passes at some point after the first failure;   *)
(* what the dispatcher answers is the subject of ModelService.             *)
(***************************************************************************)
EXTENDS Naturals, Sequences, SequencesExt, FiniteSets, SortedSets

CONSTANTS
    Clients,     \* pooled processes
    Models,      \* model names rows may carry
    Served,      \* the models the daemon serves for the mode of the clients
    Items,       \* what a row asks about: a text, a pair or a feature array
    Blocks,      \* the blocks ClickHouse sends: sequences of rows
    Size,        \* Size[i]: what item i adds to a request frame
    Features,    \* Features[i]: length of feature array i (one value elsewhere)
    Dim,         \* Dim[m]: the dimension in m's passport, 1 for a score
    Width,       \* Width[m]: the floats m really returns per row
    MaxFrame,    \* wire::MAX_FRAME
    NoFrame,     \* nothing on the wire
    Garbled      \* floats cut at the wrong boundary

Row == [model : Models, item : Items]

ASSUME ClientAssumption ==
    /\ Served \subseteq Models
    /\ \A b \in Blocks : b \in Seq(Row)
    /\ Size \in [Items -> Nat]
    /\ Features \in [Items -> Nat]
    /\ Dim \in [Models -> Nat]
    /\ Width \in [Models -> Nat]
    /\ MaxFrame \in Nat

VARIABLES
    daemon,     \* down, up, or deaf: alive but its accept loop has ended
    pc,         \* pc[c]: where the client is in its loop
    block,      \* block[c]: the rows of its current or last block
    answers,    \* answers[c]: per group answered so far, the rows it got
    deadline,   \* deadline[c]: the end of the retry window, if one is running
    link,       \* link[c]: the client's stream and what travels on it
    outcome,    \* outcome[c]: how its last block ended
    output      \* output[c]: the rows written for it

vars == <<daemon, pc, block, answers, deadline, link, outcome, output>>

NoLink == [state |-> "none", request |-> NoFrame, reply |-> NoFrame]

Init ==
    /\ daemon \in {"up", "down"}
    /\ pc = [c \in Clients |-> "idle"]
    /\ block = [c \in Clients |-> <<>>]
    /\ answers = [c \in Clients |-> <<>>]
    /\ deadline = [c \in Clients |-> "unset"]
    /\ link = [c \in Clients |-> NoLink]
    /\ outcome = [c \in Clients |-> "none"]
    /\ output = [c \in Clients |-> <<>>]

-----------------------------------------------------------------------------
\* Grouping and placement (group_by_model and the *_block functions).

FirstRows(b) == {r \in DOMAIN b : \A q \in 1..(r - 1) : b[q].model # b[r].model}

\* One group per model, in first-seen order: the positions of its rows.
Groups(b) ==
    LET firsts == Ascending(FirstRows(b))
    IN  [g \in DOMAIN firsts |->
            Ascending({r \in DOMAIN b : b[r].model = b[firsts[g]].model})]

ModelOf(b, group) == b[group[1]].model

Request(b, group) ==
    [model |-> ModelOf(b, group), items |-> [k \in DOMAIN group |-> b[group[k]].item]]

Ragged(b, group) ==
    \E r, q \in DOMAIN group : Features[b[group[r]].item] # Features[b[group[q]].item]

Pending(c) == Len(answers[c]) < Len(Groups(block[c]))
Group(c)   == Groups(block[c])[Len(answers[c]) + 1]

\* Slip: the answers of the groups are laid one after the other.
PlaceInGroupOrder(b, got) == FlattenSeq(got)

\* Each row takes its answer from the group it went out with.
Place(b, got) ==
    [r \in DOMAIN b |->
        LET g == CHOOSE i \in DOMAIN Groups(b) : \E k \in DOMAIN Groups(b)[i] : Groups(b)[i][k] = r
            k == CHOOSE j \in DOMAIN Groups(b)[g] : Groups(b)[g][j] = r
        IN  got[g][k]]

-----------------------------------------------------------------------------
\* Frames.

RequestSize(q) == FoldLeft(LAMBDA n, i : n + Size[i], 0, q.items)

\* process() answers with an error for any reason of its own (an unknown model
\* or one of another kind, the dispatcher's error), or with one row per item.
Refusal == [ok |-> FALSE, floats |-> 0, rows |-> <<>>]

Results(q) ==
    [ok     |-> TRUE,
     floats |-> Len(q.items) * Width[q.model],
     rows   |-> [k \in DOMAIN q.items |->
                    IF Width[q.model] = Dim[q.model] THEN <<q.model, q.items[k]>> ELSE Garbled]]

Replies(q) == {Refusal} \union (IF q.model \in Served THEN {Results(q)} ELSE {})

\* Slip: the client does not count the floats.
FitsAnyway(reply, m, rows) == reply.ok

\* One row per row sent, of the dimension the reply names.
Fits(reply, m, rows) ==
    /\ reply.ok
    /\ Dim[m] # 0
    /\ reply.floats = rows * Dim[m]

-----------------------------------------------------------------------------
\* The client: run, the *_block functions, round_trip and attempt.

ReadBlock(c, b) ==
    /\ pc[c] = "idle"
    /\ pc' = [pc EXCEPT ![c] = "group"]
    /\ block' = [block EXCEPT ![c] = b]
    /\ answers' = [answers EXCEPT ![c] = <<>>]
    /\ outcome' = [outcome EXCEPT ![c] = "none"]
    /\ output' = [output EXCEPT ![c] = <<>>]
    /\ UNCHANGED <<daemon, deadline, link>>

\* The process ends and its stream with it.
Exit(c) ==
    /\ pc' = [pc EXCEPT ![c] = "exited"]
    /\ link' = [link EXCEPT ![c] = NoLink]
    /\ deadline' = [deadline EXCEPT ![c] = "unset"]

\* End of input, or a chunk header that does not parse.
InputEnds(c) ==
    /\ pc[c] = "idle"
    /\ Exit(c)
    /\ UNCHANGED <<daemon, block, answers, outcome, output>>

\* ClickHouse replaces a process that is gone.
Respawn(c) ==
    /\ pc[c] = "exited"
    /\ pc' = [pc EXCEPT ![c] = "idle"]
    /\ UNCHANGED <<daemon, block, answers, deadline, link, outcome, output>>

Fail(c, how) ==
    /\ Exit(c)
    /\ outcome' = [outcome EXCEPT ![c] = how]
    /\ UNCHANGED <<daemon, block, answers, output>>

RefuseRagged(c) ==
    /\ pc[c] = "group"
    /\ Pending(c)
    /\ Ragged(block[c], Group(c))
    /\ Fail(c, "refused")

\* Slips: the failed stream stays; the window starts over with every failure.
RetryOnSameStream(c) ==
    IF deadline[c] = "passed" THEN Fail(c, "unreachable")
    ELSE /\ pc' = [pc EXCEPT ![c] = "sleep"]
         /\ deadline' = [deadline EXCEPT ![c] = "ahead"]
         /\ UNCHANGED <<daemon, block, answers, outcome, output, link>>

RetryForever(c) ==
    /\ pc' = [pc EXCEPT ![c] = "sleep"]
    /\ link' = [link EXCEPT ![c] = NoLink]
    /\ deadline' = [deadline EXCEPT ![c] = "ahead"]
    /\ UNCHANGED <<daemon, block, answers, outcome, output>>

\* A transport failure: the stream is dropped; the first one opens the window,
\* one after its end is final.
Retry(c) ==
    IF deadline[c] = "passed" THEN Fail(c, "unreachable")
    ELSE /\ pc' = [pc EXCEPT ![c] = "sleep"]
         /\ link' = [link EXCEPT ![c] = NoLink]
         /\ deadline' = [deadline EXCEPT ![c] = "ahead"]
         /\ UNCHANGED <<daemon, block, answers, outcome, output>>

\* attempt() is called: for a new group, or once the backoff is slept off.
Attempting(c) ==
    \/ pc[c] = "group" /\ Pending(c) /\ ~Ragged(block[c], Group(c))
    \/ pc[c] = "sleep"

Send(c) ==
    /\ Attempting(c)
    /\ \/ link[c].state = "none" /\ daemon = "up"
       \/ link[c].state \in {"backlog", "open"}
    /\ link' = [link EXCEPT
                   ![c].state = IF @ = "none" THEN "backlog" ELSE @,
                   ![c].request = Request(block[c], Group(c))]
    /\ pc' = [pc EXCEPT ![c] = "recv"]
    /\ UNCHANGED <<daemon, block, answers, deadline, outcome, output>>

\* No socket, nobody behind it, or a stream the daemon has closed since.
SendFails(c) ==
    /\ Attempting(c)
    /\ \/ link[c].state = "none" /\ daemon # "up"
       \/ link[c].state = "closed"
    /\ Retry(c)

ReplyLost(c) ==
    /\ pc[c] = "recv"
    /\ link[c].state = "closed"
    /\ link[c].reply = NoFrame
    /\ Retry(c)

Usable(c) ==
    LET reply == link[c].reply
    IN  /\ reply.floats <= MaxFrame
        /\ Fits(reply, ModelOf(block[c], Group(c)), Len(Group(c)))

Receive(c) ==
    /\ pc[c] = "recv"
    /\ link[c].reply # NoFrame
    /\ Usable(c)
    /\ answers' = [answers EXCEPT ![c] = Append(@, link[c].reply.rows)]
    /\ link' = [link EXCEPT ![c].reply = NoFrame]
    /\ deadline' = [deadline EXCEPT ![c] = "unset"]
    /\ pc' = [pc EXCEPT ![c] = "group"]
    /\ UNCHANGED <<daemon, block, outcome, output>>

\* An error, a reply of the wrong shape, or one over the frame limit: final.
ReceiveRefusal(c) ==
    /\ pc[c] = "recv"
    /\ link[c].reply # NoFrame
    /\ ~Usable(c)
    /\ Fail(c, "refused")

WriteBlock(c) ==
    /\ pc[c] = "group"
    /\ ~Pending(c)
    /\ output' = [output EXCEPT ![c] = Place(block[c], answers[c])]
    /\ outcome' = [outcome EXCEPT ![c] = "written"]
    /\ pc' = [pc EXCEPT ![c] = "idle"]
    /\ UNCHANGED <<daemon, block, answers, deadline, link>>

WindowEnds(c) ==
    /\ deadline[c] = "ahead"
    /\ deadline' = [deadline EXCEPT ![c] = "passed"]
    /\ UNCHANGED <<daemon, pc, block, answers, link, outcome, output>>

-----------------------------------------------------------------------------
\* The daemon: uds::serve, one handler per connection, and its life.

clientVars == <<pc, block, answers, deadline, outcome, output>>

Accept(c) ==
    /\ daemon = "up"
    /\ link[c].state = "backlog"
    /\ link' = [link EXCEPT ![c].state = "open"]
    /\ UNCHANGED <<daemon, clientVars>>

\* handle(): a frame over the limit ends the connection without an answer.
Handle(c) ==
    /\ link[c].state = "open"
    /\ link[c].request # NoFrame
    /\ IF RequestSize(link[c].request) > MaxFrame
       THEN link' = [link EXCEPT ![c].state = "closed", ![c].request = NoFrame]
       ELSE \E reply \in Replies(link[c].request) :
               link' = [link EXCEPT ![c].request = NoFrame, ![c].reply = reply]
    /\ UNCHANGED <<daemon, clientVars>>

\* A stream whose other end is gone: what it has delivered can still be read.
Cut(c) == [link[c] EXCEPT !.state = "closed", !.request = NoFrame]

\* accept() fails, serve() returns, and only the HTTP channel goes on.
AcceptLoopEnds ==
    /\ daemon = "up"
    /\ daemon' = "deaf"
    /\ link' = [c \in Clients |-> IF link[c].state = "backlog" THEN Cut(c) ELSE link[c]]
    /\ UNCHANGED clientVars

DaemonStops ==
    /\ daemon # "down"
    /\ daemon' = "down"
    /\ link' = [c \in Clients |-> IF link[c].state = "none" THEN NoLink ELSE Cut(c)]
    /\ UNCHANGED clientVars

DaemonStarts ==
    /\ daemon = "down"
    /\ daemon' = "up"
    /\ UNCHANGED <<link, clientVars>>

-----------------------------------------------------------------------------
ClientStep(c) ==
    \/ RefuseRagged(c)
    \/ Send(c)
    \/ SendFails(c)
    \/ ReplyLost(c)
    \/ Receive(c)
    \/ ReceiveRefusal(c)
    \/ WriteBlock(c)

Next ==
    \/ \E c \in Clients :
          \/ \E b \in Blocks : ReadBlock(c, b)
          \/ InputEnds(c)
          \/ Respawn(c)
          \/ ClientStep(c)
          \/ WindowEnds(c)
          \/ Accept(c)
          \/ Handle(c)
    \/ AcceptLoopEnds
    \/ DaemonStops
    \/ DaemonStarts

\* The process and the daemon's tasks are scheduled, the clock runs and every
\* request is answered (ModelService).  Nobody promises to start the daemon.
Fairness ==
    \A c \in Clients :
        /\ WF_vars(ClientStep(c))
        /\ WF_vars(WindowEnds(c))
        /\ WF_vars(Accept(c))
        /\ WF_vars(Handle(c))

SafeSpec == Init /\ [][Next]_vars
Spec     == SafeSpec /\ Fairness

-----------------------------------------------------------------------------
Answer  == Models \X Items
Frames  == [model : Models, items : Seq(Items)]
Replied == [ok : BOOLEAN, floats : Nat, rows : Seq(Answer \union {Garbled})]

TypeOK ==
    /\ daemon \in {"down", "up", "deaf"}
    /\ pc \in [Clients -> {"idle", "group", "recv", "sleep", "exited"}]
    /\ block \in [Clients -> Seq(Row)]
    /\ answers \in [Clients -> Seq(Seq(Answer))]
    /\ deadline \in [Clients -> {"unset", "ahead", "passed"}]
    /\ link \in [Clients -> [state   : {"none", "backlog", "open", "closed"},
                             request : Frames \union {NoFrame},
                             reply   : Replied \union {NoFrame}]]
    /\ outcome \in [Clients -> {"none", "written", "refused", "unreachable"}]
    /\ output \in [Clients -> Seq(Answer)]

\* What is written for a block is, row by row, the answer of that row's model
\* to that row's item, whatever the mix of models and the restarts on the way;
\* a block that does not end well leaves nothing behind.
OwnRows ==
    \A c \in Clients :
        output[c] = IF outcome[c] = "written"
                    THEN [r \in DOMAIN block[c] |-> <<block[c][r].model, block[c][r].item>>]
                    ELSE <<>>

\* No block hangs the process: it is written, or the process exits.  A daemon
\* that never returns, or returns and goes without end, changes nothing.
BlocksEnd ==
    \A c \in Clients : pc[c] # "idle" ~> pc[c] \in {"idle", "exited"}

WithinLimit(b) ==
    \A g \in DOMAIN Groups(b) : RequestSize(Request(b, Groups(b)[g])) <= MaxFrame

\* A restart stalls queries and fails none: once the daemon stays up, a request
\* that has met no failure yet gets the daemon's own answer, even over a stream
\* the restart has left dead.
RestartsRiddenOut ==
    \A c \in Clients :
        [](/\ pc[c] = "group" /\ WithinLimit(block[c])
           /\ [](daemon = "up")
           => <>(outcome[c] \in {"written", "refused"}))

\* "Anything else - a permission error, an oversized frame - is a fault that
\* retrying would only repeat" (bridge-client main.rs:167): with the daemon up,
\* no request over the limit is retried.
OversizedNotRetried ==
    [](daemon = "up") =>
        [](\A c \in Clients : pc[c] = "sleep" => WithinLimit(block[c]))
=============================================================================
