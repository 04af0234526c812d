------------------------------ MODULE Gateway ------------------------------
(***************************************************************************)
(* One request, end to end, over each of the ways into the daemon:         *)
(*   http     a JSON request and its answer (http.rs)                      *)
(*   pipe     a block ClickHouse writes to bridge-client, the frame it     *)
(*            becomes, the reply and the column ClickHouse reads back      *)
(*   socket   a frame straight to the socket, whole or damaged, the way    *)
(*            the functional suite plays other peers                       *)
(* Requests for one model merge into one batch whichever way they came;    *)
(* how batches form is the subject of EmbedWorker and SpanWorker, and any  *)
(* merge may happen here.  A block has one model (BridgeClient groups it). *)
(*                                                                         *)
(* A connection carries bytes both ways, and the daemon serves it in a     *)
(* loop of its own: what a frame's prefix does not count is read as the    *)
(* next frame, also when the caller has what it waited for.  A caller has  *)
(* one connection at a time and may keep it from one request to the next.  *)
(***************************************************************************)
EXTENDS RowBinary, Engine, FiniteSets

CONSTANTS
    Callers,
    Configs,      \* the sets of models the daemon may be configured with
    Requests,     \* what callers may ask, a sequence of records (below)
    BodyLimit     \* floats and units an HTTP body may hold: axum's default limit

\* None is no option, nothing heard, no answer yet.

\* channel  http, pipe or socket
\* task, model
\* items    texts, pairs or feature rows; over HTTP pairs share their query
\* option   dimensions or top_n over HTTP
\* damage   what is done to the bytes: none, version, task, trailing, length or
\*          cut, the last cut units missing

VARIABLES
    entries,    \* the registry: entries[m] is the card of model m
    pc,         \* pc[c]: how far the caller is: idle, written, asked or done
    stage,      \* stage[c]: how far the daemon's handler of it is: closed, posted,
                \* reading, queued or replied
    ask,        \* ask[c]: the request
    wire,       \* wire[c]: what the daemon has not read of its connection
    back,       \* back[c]: what the caller has not read of it
    apart,      \* apart[c]: the request went out behind something left over
    heard,      \* heard[c]: the request the daemon read last
    reply,      \* reply[c]: the daemon's answer to it
    answer      \* answer[c]: what reached the caller

vars == <<entries, pc, stage, ask, wire, back, apart, heard, reply, answer>>

\* A configured model that does not load keeps the daemon from starting.
Init ==
    /\ \E S \in Configs : (\A m \in S : Loads(m)) /\ entries = [m \in S |-> Card(m)]
    /\ pc = [c \in Callers |-> "idle"]
    /\ stage = [c \in Callers |-> "closed"]
    /\ ask = [c \in Callers |-> None]
    /\ wire = [c \in Callers |-> <<>>]
    /\ back = [c \in Callers |-> <<>>]
    /\ apart = [c \in Callers |-> FALSE]
    /\ heard = [c \in Callers |-> None]
    /\ reply = [c \in Callers |-> None]
    /\ answer = [c \in Callers |-> None]

-----------------------------------------------------------------------------
\* The request as the daemon is to understand it.

Width(q)  == IF q.task = "evaluate" /\ q.items # <<>> THEN Len(q.items[1]) ELSE 0
Ragged(q) == q.task = "evaluate" /\ \E i \in DOMAIN q.items : Len(q.items[i]) # Width(q)

\* Rows of features travel as one matrix.
Matrix(task, items) == IF task = "evaluate" THEN FlattenSeq(items) ELSE items

AsRequest(q) ==
    [task |-> q.task, model |-> q.model, n |-> Width(q), items |-> Matrix(q.task, q.items)]

AsRead(q) ==
    IF q.channel # "pipe" THEN q
    ELSE [q EXCEPT !.model = Lossy(@), !.items = [i \in DOMAIN @ |-> Legible(q.task, @[i])]]

\* What is asked.
Askable(q) ==
    /\ q.task \in {"embed", "rerank", "evaluate"} /\ q.model \in Seq(Units)
    /\ q.items \in CASE q.task = "embed"    -> Seq(Seq(Units))
                     [] q.task = "rerank"   -> Seq(Seq(Units) \X Seq(Units))
                     [] q.task = "evaluate" -> Seq(Seq(Words))
    /\ q.option \in Nat \cup {None} /\ q.cut \in Nat
    /\ q.damage = "cut" <=> q.cut # 0
    /\ q.damage \in CASE q.channel = "http"   -> {"none"}
                      [] q.channel = "pipe"   -> {"none", "cut"}
                      [] q.channel = "socket" -> {"none", "version", "task", "trailing", "length", "cut"}

\* JSON and the suite's own frames hold text; ClickHouse's strings are any bytes.
InText(q) ==
    /\ IsText(q.model)
    /\ \A i \in DOMAIN q.items :
          /\ q.task = "embed"  => IsText(q.items[i])
          /\ q.task = "rerank" => IsText(q.items[i][1]) /\ IsText(q.items[i][2])

\* The suite's frames take a matrix, which has no ragged rows.
ASSUME RequestsAssumption ==
    \A k \in DOMAIN Requests :
        LET q == Requests[k]
        IN  /\ q = [channel |-> q.channel, task |-> q.task, model |-> q.model, items |-> q.items,
                    option |-> q.option, damage |-> q.damage, cut |-> q.cut]
            /\ q.channel \in {"http", "pipe", "socket"} /\ Askable(q)
            /\ q.channel # "pipe" => InText(q)
            /\ q.channel = "socket" => ~Ragged(q)

\* A vector has no more values than a u32 counts, and values are words.
ASSUME ConfigAssumption ==
    /\ IsFiniteSet(Callers)
    /\ \A S \in Configs : S \subseteq DOMAIN Model
    /\ FloatMod <= WordMod /\ StubDim \in Words

\* None and Malformed are nothing that is asked, read or answered.
ASSUME SentinelAssumption ==
    /\ Malformed \notin [task : {"embed", "rerank", "evaluate"}, model : Seq(Units), n : Nat,
                         items : Seq(Seq(Units)) \cup Seq(Seq(Units) \X Seq(Units)) \cup Seq(Nat)]
    /\ Malformed \notin [task : {"embed", "rerank", "evaluate"}, dim : Nat, floats : Seq(Nat)]
    /\ Malformed \notin Seq(Seq(Units) \X (Seq(Units) \cup (Seq(Units) \X Seq(Units)) \cup Seq(Nat)))
    /\ None \notin [status : {"ok", "refused", "failed", "lost"}, rows : Seq(Nat) \cup Seq(Seq(Nat))]

-----------------------------------------------------------------------------
\* Callers.

Cut(units, k) == SubSeq(units, 1, Len(units) - k)

Damaged(q, whole) ==
    CASE q.damage = "version"  -> [whole EXCEPT ![1] = @ + 1]
      [] q.damage = "task"     -> [whole EXCEPT ![2] = 3]
      [] q.damage = "trailing" -> Append(whole, 0)
      [] q.damage = "cut"      -> Cut(whole, q.cut)
      [] OTHER                 -> whole

\* A length prefix past the end of what is sent ends as EOF.
Framed(q, payload) ==
    IF q.damage = "length" THEN Word(Len(payload) + 1) \o payload ELSE Frame(payload)

Sent(q) == Framed(q, Damaged(q, EncodeRequest(AsRequest(q))))

Written(q) ==
    LET rows == Block([i \in DOMAIN q.items |-> RowOf(q.task, q.model, q.items[i])])
    IN  Cut(rows, q.cut)

\* What is there of a frame to read: all of it, or a length nobody takes.
FrameIn(units) == Len(units) >= 2 /\ WordAt(units, 1) + 2 <= Len(units)
TooLong(units) == Len(units) >= 2 /\ WordAt(units, 1) > MaxFrame
Rest(units)    == SubSeq(units, WordAt(units, 1) + 3, Len(units))
Payload(units) == SubSeq(units, 3, WordAt(units, 1) + 2)

\* The handler is gone, or waits for what nobody sends.
AtRest(c) == stage[c] = "closed" \/ (stage[c] = "reading" /\ ~FrameIn(wire[c]) /\ ~TooLong(wire[c]))

\* A connection kept for the next request: a peer of the suite may keep one
\* after any answer, bridge-client after a block that did not end the process.
Reuses(c, channel) ==
    /\ pc[c] = "done" /\ stage[c] # "closed" /\ channel # "http"
    /\ ask[c].channel = channel
    /\ channel = "pipe" => answer[c].ok

Leftover(c) == ~(stage[c] = "reading" /\ wire[c] = <<>> /\ back[c] = <<>>)

Opened(q) == IF q.channel = "http" THEN "posted" ELSE "reading"
Out(q)    == IF q.channel = "socket" THEN Sent(q) ELSE <<>>

\* A connection of its own; one that is kept with nothing left on it is the same.
Connect(c, state, units) ==
    /\ stage' = [stage EXCEPT ![c] = state]
    /\ wire' = [wire EXCEPT ![c] = units]
    /\ back' = [back EXCEPT ![c] = <<>>]
    /\ apart' = [apart EXCEPT ![c] = FALSE]
    /\ heard' = [heard EXCEPT ![c] = None]
    /\ reply' = [reply EXCEPT ![c] = None]

Behind(c, units) ==
    /\ wire' = [wire EXCEPT ![c] = @ \o units]
    /\ apart' = [apart EXCEPT ![c] = TRUE]
    /\ UNCHANGED <<stage, back, heard, reply>>

Ask(c, q) ==
    /\ pc[c] \in {"idle", "done"}
    /\ \/ AtRest(c) /\ Connect(c, Opened(q), Out(q))
       \/ Reuses(c, q.channel) /\ Leftover(c) /\ Behind(c, Out(q))
    /\ pc' = [pc EXCEPT ![c] = IF q.channel = "pipe" THEN "written" ELSE "asked"]
    /\ ask' = [ask EXCEPT ![c] = q]
    /\ answer' = [answer EXCEPT ![c] = None]
    /\ UNCHANGED entries

Done(c, a) ==
    /\ pc' = [pc EXCEPT ![c] = "done"]
    /\ answer' = [answer EXCEPT ![c] = a]

\* No rows: a status other than 200, an error, or the end of the process.
Nothing == [ok |-> FALSE, rows |-> <<>>]

\* bridge-client reads a block and encodes what it read.
BlockRows(q) == ReadBlock(q.task, Written(q))

Regrouped(q, rows) == [q EXCEPT !.model = rows[1][1], !.items = [i \in DOMAIN rows |-> rows[i][2]]]

FrameOf(q) == Frame(EncodeRequest(AsRequest(Regrouped(q, BlockRows(q)))))

\* The block is over at once when it has no rows, and the process when it does
\* not read as rows, or as a matrix.
Read(c, rows) ==
    IF rows = Malformed THEN Done(c, Nothing) /\ UNCHANGED wire
    ELSE IF rows = <<>> THEN Done(c, [ok |-> TRUE, rows |-> <<>>]) /\ UNCHANGED wire
    ELSE IF Ragged(Regrouped(ask[c], rows)) THEN Done(c, Nothing) /\ UNCHANGED wire
    ELSE /\ wire' = [wire EXCEPT ![c] = @ \o FrameOf(ask[c])]
         /\ pc' = [pc EXCEPT ![c] = "asked"]
         /\ UNCHANGED answer

ReadRows(c) ==
    /\ pc[c] = "written"
    /\ Read(c, BlockRows(ask[c]))
    /\ UNCHANGED <<entries, stage, ask, back, apart, heard, reply>>

\* round_trip() takes a closed connection for a restart and sends again, its
\* write failing or nothing coming back; how long it does is in BridgeClient.
Resend(c) ==
    /\ pc[c] = "asked" /\ ask[c].channel = "pipe"
    /\ stage[c] = "closed"
    /\ Connect(c, "reading", FrameOf(ask[c]))
    /\ UNCHANGED <<entries, pc, ask, answer>>

\* No answer comes: the handler has closed, or waits for the rest of a frame
\* until the caller closes (a peer of the suite, or ClickHouse's own timeout).
GiveUp(c) ==
    /\ pc[c] = "asked"
    /\ AtRest(c) /\ ~FrameIn(back[c])
    /\ Done(c, Nothing)
    /\ stage' = [stage EXCEPT ![c] = "closed"]
    /\ wire' = [wire EXCEPT ![c] = <<>>]
    /\ UNCHANGED <<entries, ask, back, apart, heard, reply>>

-----------------------------------------------------------------------------
\* The daemon.

KindOf(task) ==
    CASE task = "embed" -> "embedding" [] task = "rerank" -> "rerank" [] task = "evaluate" -> "tabular"

Known(r) == r.model \in DOMAIN entries /\ entries[r.model].kind = KindOf(r.task)

\* process(): what is answered without the dispatcher.
Admissible(r) ==
    /\ r # Malformed
    /\ Known(r)
    /\ r.task = "evaluate" => r.n = entries[r.model].n

Ok(rows)    == [status |-> "ok", rows |-> rows]
Refused     == [status |-> "refused", rows |-> <<>>]
EngineError == [status |-> "failed", rows |-> <<>>]
Lost        == [status |-> "lost", rows |-> <<>>]

Said(c, r) == reply' = [reply EXCEPT ![c] = r] /\ stage' = [stage EXCEPT ![c] = "replied"]

\* process(): an empty request is answered on the spot, any other is queued.
Process(c, request) ==
    /\ heard' = [heard EXCEPT ![c] = request]
    /\ IF ~Admissible(request) THEN Said(c, Refused)
       ELSE IF request.items = <<>> THEN Said(c, Ok(<<>>))
       ELSE stage' = [stage EXCEPT ![c] = "queued"] /\ reply' = [reply EXCEPT ![c] = None]

\* handle(), one turn of its loop: a length that is too long closes the
\* connection, a frame that is there whole is processed, and the loop goes on
\* with whatever the prefix did not count.
Handle(c) ==
    /\ stage[c] = "reading"
    /\ \/ /\ TooLong(wire[c])
          /\ stage' = [stage EXCEPT ![c] = "closed"]
          /\ wire' = [wire EXCEPT ![c] = <<>>]
          /\ UNCHANGED <<heard, reply>>
       \/ /\ FrameIn(wire[c]) /\ ~TooLong(wire[c])
          /\ wire' = [wire EXCEPT ![c] = Rest(@)]
          /\ Process(c, DecodeRequest(Payload(wire[c])))
    /\ UNCHANGED <<entries, pc, ask, back, apart, answer>>

BodySize(q) == Len(EncodeRequest(AsRequest(q)))

\* Slip: the rows are only counted together.
WellFormedByTotal(q) ==
    /\ q.items # <<>>
    /\ Known(AsRequest(q))
    /\ q.task = "embed" => q.option \in {None, entries[q.model].dim}
    /\ q.task = "evaluate" => Len(FlattenSeq(q.items)) = Len(q.items) * entries[q.model].n

\* The checks of the three HTTP handlers.
WellFormed(q) ==
    /\ q.items # <<>>
    /\ Known(AsRequest(q))
    /\ q.task = "embed" => q.option \in {None, entries[q.model].dim}
    /\ q.task = "evaluate" => \A i \in DOMAIN q.items : Len(q.items[i]) = entries[q.model].n

Post(c) ==
    /\ stage[c] = "posted"
    /\ IF BodySize(ask[c]) <= BodyLimit /\ WellFormed(ask[c])
       THEN /\ heard' = [heard EXCEPT ![c] = AsRequest(ask[c])]
            /\ stage' = [stage EXCEPT ![c] = "queued"]
            /\ UNCHANGED reply
       ELSE Said(c, Refused) /\ UNCHANGED heard
    /\ UNCHANGED <<entries, pc, ask, wire, back, apart, answer>>

\* Items of a queued request; the matrix is cut at the width of the model.
ItemsOf(r) ==
    LET n == entries[r.model].n
    IN  IF r.task # "evaluate" THEN r.items
        ELSE [i \in 1..(Len(r.items) \div n) |-> SubSeq(r.items, (i - 1) * n + 1, i * n)]

Batch(order) == FlattenSeq([i \in DOMAIN order |-> ItemsOf(heard[order[i]])])

\* c's part of what the engine returned for the batch.
Part(c, order, out) ==
    LET i      == CHOOSE j \in DOMAIN order : order[j] = c
        before == Len(Batch(SubSeq(order, 1, i - 1)))
    IN  SubSeq(out, before + 1, before + Len(ItemsOf(heard[c])))

Answers(S, order, out) ==
    [c \in Callers |-> IF c \notin S THEN reply[c]
                       ELSE IF out = Failed THEN EngineError
                       ELSE Ok(Part(c, order, out))]

\* One batch of the model's worker: some of its queued requests, in the order
\* they came, and each takes its part of what the engine returns, or the error.
Serve(m) ==
    \E S \in SUBSET {c \in Callers : stage[c] = "queued" /\ heard[c].model = m} :
        /\ S # {}
        /\ \E order \in SetToSeqs(S) : reply' = Answers(S, order, Infer(m, Batch(order)))
        /\ stage' = [c \in Callers |-> IF c \in S THEN "replied" ELSE stage[c]]
        /\ UNCHANGED <<entries, pc, ask, wire, back, apart, heard, answer>>

\* The dispatcher has errors of its own: a worker that is gone, a failed run.
Lose(c) ==
    /\ stage[c] = "queued"
    /\ Said(c, Lost)
    /\ UNCHANGED <<entries, pc, ask, wire, back, apart, heard, answer>>

\* The stable sort by score, highest first, and top_n.
Ranked(scores, top) ==
    LET D     == DOMAIN scores
        ahead == {z \in D \X D : \/ scores[z[1]] > scores[z[2]]
                                 \/ scores[z[1]] = scores[z[2]] /\ z[1] < z[2]}
        order == Ordered(D, ahead)
    IN  [k \in 1..(IF top = None \/ top > Len(scores) THEN Len(scores) ELSE top) |->
            [index |-> order[k], score |-> scores[order[k]]]]

\* The HTTP answer: rerank ranks, the others answer in request order.
Respond(c) ==
    /\ stage[c] = "replied"
    /\ ask[c].channel = "http"
    /\ Done(c, IF reply[c].status # "ok" THEN Nothing
               ELSE [ok   |-> TRUE,
                     rows |-> IF ask[c].task = "rerank" THEN Ranked(reply[c].rows, ask[c].option)
                              ELSE reply[c].rows])
    /\ stage' = [stage EXCEPT ![c] = "closed"]
    /\ UNCHANGED <<entries, ask, wire, back, apart, heard, reply>>

\* The reply frame; embeddings are flattened under the card's dimension.
Response(c) ==
    IF reply[c].status # "ok" THEN Error
    ELSE IF heard[c].task = "embed"
    THEN [task |-> "embed", dim |-> entries[heard[c].model].dim, floats |-> FlattenSeq(reply[c].rows)]
    ELSE [task |-> heard[c].task, dim |-> 0, floats |-> reply[c].rows]

\* The loop of handle() writes its reply and reads on; it ends when the caller
\* has gone, which nobody hears of but a caller that is done may have.
Encode(c) ==
    /\ stage[c] = "replied"
    /\ ask[c].channel # "http"
    /\ \/ /\ back' = [back EXCEPT ![c] = @ \o Frame(EncodeResponse(Response(c)))]
          /\ stage' = [stage EXCEPT ![c] = "reading"]
          /\ UNCHANGED wire
       \/ /\ pc[c] = "done"
          /\ stage' = [stage EXCEPT ![c] = "closed"]
          /\ wire' = [wire EXCEPT ![c] = <<>>]
          /\ UNCHANGED back
    /\ UNCHANGED <<entries, pc, ask, apart, heard, reply, answer>>

-----------------------------------------------------------------------------
\* The reply at the caller's end.

\* The rows of a response for count items, if it has the shape of one.
RowsOf(r, count) ==
    IF r.task = "embed"
    THEN [i \in 1..count |-> SubSeq(r.floats, (i - 1) * r.dim + 1, i * r.dim)]
    ELSE r.floats

Fits(r, task, count) ==
    /\ r # Malformed
    /\ r.task = task
    /\ IF task = "embed" THEN r.dim # 0 /\ Len(r.floats) = count * r.dim ELSE Len(r.floats) = count

\* bridge-client checks the shape, writes a column and ClickHouse reads it.
Column(task, rows) ==
    IF task = "embed"
    THEN ReadF32Arrays(FlattenSeq([i \in DOMAIN rows |-> WriteVector(rows[i])]), Len(rows))
    ELSE ReadF32Scalars(FlattenSeq([i \in DOMAIN rows |-> WriteScore(rows[i])]), Len(rows))

\* A peer of the suite takes the rows as they are.
Took(c, response) ==
    LET q == ask[c] IN
    IF q.channel = "socket" /\ response \notin {Malformed, Error}
    THEN Done(c, [ok |-> TRUE, rows |-> RowsOf(response, Len(q.items))])
    ELSE IF ~TooLong(back[c]) /\ Fits(response, q.task, Len(q.items))
    THEN Done(c, [ok |-> TRUE, rows |-> Column(q.task, RowsOf(response, Len(q.items)))])
    ELSE Done(c, Nothing)

Receive(c) ==
    /\ pc[c] = "asked"
    /\ FrameIn(back[c])
    /\ Took(c, DecodeResponse(Payload(back[c])))
    /\ back' = [back EXCEPT ![c] = Rest(@)]
    /\ UNCHANGED <<entries, stage, ask, wire, apart, heard, reply>>

-----------------------------------------------------------------------------
Next ==
    \/ \E c \in Callers :
          \/ \E k \in DOMAIN Requests : Ask(c, Requests[k])
          \/ ReadRows(c)
          \/ Resend(c)
          \/ GiveUp(c)
          \/ Handle(c)
          \/ Post(c)
          \/ Lose(c)
          \/ Respond(c)
          \/ Encode(c)
          \/ Receive(c)
    \/ \E m \in DOMAIN entries : Serve(m)

Spec == Init /\ [][Next]_vars

-----------------------------------------------------------------------------
TypeOK ==
    /\ DOMAIN entries \in Configs
    /\ pc \in [Callers -> {"idle", "written", "asked", "done"}]
    /\ stage \in [Callers -> {"closed", "posted", "reading", "queued", "replied"}]
    /\ wire \in [Callers -> Seq(0..(Base - 1))] /\ back \in [Callers -> Seq(0..(Base - 1))]
    /\ apart \in [Callers -> BOOLEAN]
    /\ \A c \in Callers : reply[c] # None => reply[c].status \in {"ok", "refused", "failed", "lost"}
    /\ \A c \in Callers : IF pc[c] = "done" THEN answer[c].ok \in BOOLEAN ELSE answer[c] = None

\* No text, and nothing else that a request counts, is more than a u32 can count.
Countable(q) ==
    /\ Len(q.model) < WordMod /\ Len(q.items) < WordMod
    /\ \A i \in DOMAIN q.items :
          CASE q.task = "embed"    -> Len(q.items[i]) < WordMod
            [] q.task = "rerank"   -> Len(q.items[i][1]) < WordMod /\ Len(q.items[i][2]) < WordMod
            [] q.task = "evaluate" -> Len(q.items[i]) < WordMod
    /\ q.task = "evaluate" => Len(FlattenSeq(q.items)) < WordMod

\* rows are the top ones by score, each under its own index.
AreTop(rows, scores, top) ==
    /\ Len(rows) = IF top = None \/ top > Len(scores) THEN Len(scores) ELSE top
    /\ \A i \in DOMAIN rows : rows[i].score = scores[rows[i].index]
    /\ \A i, j \in DOMAIN rows :
          i < j => rows[i].index # rows[j].index /\ rows[i].score >= rows[j].score
    /\ \A k \in DOMAIN scores :
          \/ \E i \in DOMAIN rows : rows[i].index = k
          \/ \A i \in DOMAIN rows : rows[i].score >= scores[k]

\* What the model says of every item taken alone.
Own(q) == [i \in DOMAIN q.items |-> Alone(q.model, q.items[i])]

\* A u32 counts the values of the answer, or the client sees that it does not.
CountableAnswer(q) == q.channel = "socket" /\ q.task = "embed" => Len(FlattenSeq(Own(q))) < WordMod

\* Fixed padding so short that rows of different lengths can fill a tensor of
\* the first row's width: they are then cut where another begins.
Skewed(m) == m \in DOMAIN Model /\ Model[m].padding \in 0..(MaxTokens(m) - 2)

\* Every row a caller gets is what its model says of its own item taken alone:
\* neither the batch it was merged into, nor the padding, nor either format it
\* crossed on the way shows in it.  Over HTTP a rerank is the top of these.  A
\* request whose frame is longer than its prefix counts has no rows at all, for
\* its caller takes the first reply, an error.
OwnAnswers ==
    \A c \in Callers :
        LET q == AsRead(ask[c])
        IN  /\ answer[c] # None /\ answer[c].ok /\ ~apart[c]
            /\ Countable(q) /\ CountableAnswer(q) /\ ~Skewed(q.model)
            =>
                IF q.channel = "http" /\ q.task = "rerank" THEN AreTop(answer[c].rows, Own(q), q.option)
                ELSE answer[c].rows = Own(q)

\* A request whose frame is longer than its prefix says.
FrameAsSent(q) == IF q.channel = "pipe" THEN Frame(EncodeRequest(AsRequest(q))) ELSE Sent(q)
Overruns(q)    == q.channel # "http" /\ FrameIn(FrameAsSent(q)) /\ Rest(FrameAsSent(q)) # <<>>

\* The daemon has answered such a frame and is in what is left of it.
Strays(c) == Overruns(AsRead(ask[c])) /\ (pc[c] = "done" \/ back[c] # <<>>)

\* "A truncated frame is rejected instead of being guessed at": of a request
\* the daemon hears what was asked or nothing at all.  A frame is not misread
\* when it is damaged, and neither when its length overflows the prefix: that
\* one is refused, and only what is left of it behind its first reply may be
\* taken for anything.  Every other request leaves nothing on the connection
\* that the next one on it could be misread with.
HeardAsAsked ==
    \A c \in Callers :
        LET q == AsRead(ask[c])
        IN  pc[c] # "idle" /\ ~apart[c] /\ Countable(q) /\ ~Strays(c) =>
                /\ \/ heard[c] = None
                   \/ heard[c] = AsRequest(q) /\ q.damage = "none" /\ ~Overruns(q)
                   \/ heard[c] = Malformed /\ (q.damage # "none" \/ Overruns(q))
                /\ pc[c] = "done" \/ back[c] # <<>> => wire[c] = <<>> /\ stage[c] \in {"reading", "closed"}

\* The bridge takes no vectors of dimension 0, which --stub-dim 0 asks for.
Dimensioned(q) == q.task = "embed" /\ q.model \in DOMAIN entries => entries[q.model].dim # 0

\* A request both channels have room for.
Plain(q) ==
    /\ q.items # <<>>
    /\ q.option = None
    /\ q.damage = "none"
    /\ Countable(q)
    /\ BodySize(q) <= BodyLimit /\ BodySize(q) <= MaxFrame

ReplyFits(c) == reply[c] # None => Len(EncodeResponse(Response(c))) <= MaxFrame

SameRows(q, a, b) ==
    /\ a.ok = b.ok
    /\ Len(a.rows) = Len(b.rows)
    /\ \A i \in DOMAIN a.rows :
          IF q.task = "rerank" THEN a.rows[i].score = b.rows[a.rows[i].index] ELSE a.rows[i] = b.rows[i]

\* The channels are one service: of the requests both have room for, and that
\* are not empty (HTTP refuses those, a frame of them is answered), what HTTP
\* accepts the binary channel accepts and answers with the same values, and
\* what one refuses so does the other.
ChannelsAgree ==
    \A c, d \in Callers :
        LET q == AsRead(ask[c])
            r == AsRead(ask[d])
        IN  /\ pc[c] = "done" /\ pc[d] = "done" /\ ~apart[d]
            /\ q.channel = "http" /\ r.channel # "http"
            /\ <<q.task, q.model, q.items>> = <<r.task, r.model, r.items>>
            /\ Plain(q) /\ Plain(r) /\ ReplyFits(d) /\ ~Skewed(q.model) /\ Dimensioned(q)
            /\ \A x \in {c, d} : reply[x] = None \/ reply[x].status \in {"ok", "refused"}
            => SameRows(q, answer[c], answer[d])

\* What load() probes with one row holds for every batch, so that no request a
\* served model admits fails for the model's shape, except what one row cannot
\* show: a graph of one row only, and padding shorter than the texts.
ProbeSuffices ==
    \A c \in Callers :
        reply[c] = EngineError =>
            LET m == heard[c].model
            IN  Model[m].output = "static" \/ Model[m].padding \in 0..(MaxTokens(m) - 1)
=============================================================================
