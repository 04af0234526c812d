-------------------------------- MODULE Wire --------------------------------
(***************************************************************************)
(* protocol::wire, the frames of the binary channel.  A request is         *)
(*   [task, model, n, items]                                               *)
(* with texts, pairs of texts or a row-major matrix as items and n its     *)
(* n_features; a response is [task, dim, floats] or an error.              *)
(***************************************************************************)
EXTENDS Cursor

CONSTANTS
    MaxFrame,    \* MAX_FRAME
    NotText,     \* units no UTF-8 text contains
    Malformed    \* what a payload that does not decode decodes to

ASSUME WireAssumption ==
    /\ MaxFrame \in Nat /\ MaxFrame < WordMod
    /\ NotText \subseteq Units

ProtocolVersion == 1
StatusOk        == 0
StatusError     == 1
Tasks           == <<"embed", "rerank", "evaluate">>
Code(task)      == CHOOSE k \in 0..2 : Tasks[k + 1] = task

\* Error messages are left out: a response that is an error says so.
Error == [task |-> "error", dim |-> 0, floats |-> <<>>]

PutStr(s) == Word(Len(s)) \o s

\* The head every request shares.
Opening(task, model, count) ==
    <<ProtocolVersion, Code(task)>> \o PutStr(model) \o Word(count)

EncodeEmbed(model, texts) ==
    Opening("embed", model, Len(texts)) \o FlattenSeq([i \in DOMAIN texts |-> PutStr(texts[i])])

EncodeRerank(model, pairs) ==
    Opening("rerank", model, Len(pairs))
        \o FlattenSeq([i \in DOMAIN pairs |-> PutStr(pairs[i][1]) \o PutStr(pairs[i][2])])

EncodeEvaluate(model, n, values) ==
    LET rows == IF n % WordMod = 0 THEN 0 ELSE (Len(values) % WordMod) \div (n % WordMod)
    IN  Opening("evaluate", model, rows) \o Word(n) \o Floats(values)

EncodeRequest(q) ==
    CASE q.task = "embed"    -> EncodeEmbed(q.model, q.items)
      [] q.task = "rerank"   -> EncodeRerank(q.model, q.items)
      [] q.task = "evaluate" -> EncodeEvaluate(q.model, q.n, q.items)

IsText(s) == \A i \in DOMAIN s : s[i] \notin NotText

\* from_utf8: the units read last are text.
Checked(c) == IF c.at # 0 /\ IsText(Last(c.got)) THEN c ELSE Broken

TakeStr(p, c) == Checked(Sized(TakeWord(p, c), LAMBDA d, n : TakeUnits(p, d, n)))

TakeStrs(p, n, c) ==
    LET after[k \in 0..n] == IF k = 0 THEN c ELSE TakeStr(p, after[k - 1]) IN after[n]

\* rows of the width read last.
TakeMatrix(p, rows, c) == IF c.at = 0 THEN Broken ELSE TakeFloats(p, c, rows * Last(c.got))

TakeItems(p, task, count, c) ==
    IF task = "evaluate" THEN TakeMatrix(p, count, TakeWord(p, c))
    ELSE TakeStrs(p, IF task = "rerank" THEN 2 * count ELSE count, c)

Pairs(texts) == [i \in 1..(Len(texts) \div 2) |-> <<texts[2 * i - 1], texts[2 * i]>>]

\* What was read of a request whose items start at c.got.
Decoded(p, task, model, c) ==
    IF ~AtEnd(p, c) THEN Malformed
    ELSE [task  |-> task,
          model |-> model,
          n     |-> IF task = "evaluate" THEN c.got[1] ELSE 0,
          items |-> CASE task = "embed"    -> c.got
                      [] task = "rerank"   -> Pairs(c.got)
                      [] task = "evaluate" -> c.got[2]]

\* The rest of a request behind its version, task, model and count.
DecodeRest(p, head) ==
    IF head.at = 0 \/ head.got[1] # ProtocolVersion \/ head.got[2] \notin 0..2 THEN Malformed
    ELSE LET task == Tasks[head.got[2] + 1]
         IN  Decoded(p, task, head.got[3],
                     TakeItems(p, task, head.got[4], [head EXCEPT !.got = <<>>]))

DecodeRequest(p) == DecodeRest(p, TakeWord(p, TakeStr(p, TakeUnit(p, TakeUnit(p, Start)))))

EncodeResponse(r) ==
    IF r = Error THEN <<StatusError>> \o PutStr(<<>>)
    ELSE <<StatusOk, Code(r.task)>>
             \o (IF r.task = "embed" THEN Word(r.dim) ELSE <<>>)
             \o Word(Len(r.floats)) \o Floats(r.floats)

\* An error's message is read to be sure there is one.
DecodeError(p) == IF TakeStr(p, TakeUnit(p, Start)).at = 0 THEN Malformed ELSE Error

\* The dimension of embeddings, 0 for scores.
TakeDim(p, c) ==
    IF Tasks[c.got[2] + 1] = "embed" THEN TakeWord(p, c) ELSE Advance(c, 0, 0)

DecodeFloats(p, c) ==
    IF AtEnd(p, c) THEN [task |-> Tasks[c.got[2] + 1], dim |-> c.got[3], floats |-> c.got[4]]
    ELSE Malformed

DecodeOk(p, head) ==
    IF head.at = 0 \/ head.got[1] # StatusOk \/ head.got[2] \notin 0..2 THEN Malformed
    ELSE DecodeFloats(p, Sized(TakeWord(p, TakeDim(p, head)), LAMBDA c, n : TakeFloats(p, c, n)))

DecodeResponse(p) ==
    IF Has(p, Start, 1) /\ p[1] = StatusError THEN DecodeError(p)
    ELSE DecodeOk(p, TakeUnit(p, TakeUnit(p, Start)))

\* A length prefix and the payload, as both ends write them.
Frame(payload) == Word(Len(payload)) \o payload
=============================================================================
