------------------------------- MODULE Engine -------------------------------
(***************************************************************************)
(* onnx.rs: what one run of a model returns for the items of a batch, and  *)
(* what is checked of a model when it is loaded.  A batch is padded to a   *)
(* rectangle, goes to the session as one flat tensor, and comes back as    *)
(* one flat tensor from which every item takes its own part.               *)
(*                                                                         *)
(* The tokenizer and the session are external.  They are given here as     *)
(* simply as the properties allow: a token's state depends on its place    *)
(* and on every token of its row that the mask shows, and what stands at a *)
(* masked place is noise.  Floats are words; scaling a vector by its own   *)
(* norm is left out, it looks at nothing else.                             *)
(***************************************************************************)
EXTENDS Naturals, Sequences, SequencesExt, SortedSets

CONSTANTS
    Model,               \* Model[m]: the files of model m, a record (below)
    DefaultMaxTokens,    \* DEFAULT_MAX_TOKENS
    StubDim,             \* --stub-dim
    FloatMod,            \* floats are below it
    Failed,              \* an engine's error
    None                 \* no limit

\*   kind      embedding, rerank or tabular, or stub, the built-in embedder
\*   limit     max_tokens of the passport, None if it has none
\*   shipped   the truncation limit in tokenizer.json, None if it has none
\*   padding   the padding in tokenizer.json: a fixed length, None for the
\*             longest row of the batch or no padding at all
\*   segments  whether the graph has a token_type_ids input
\*   output    states, logits, column or two; static is logits of one row only
\*   inputs, outputs, features   what the graph declares, for tabular models
ASSUME EngineAssumption ==
    /\ DefaultMaxTokens \in Nat \ {0}
    /\ FloatMod \in Nat \ {0}
    /\ StubDim \in Nat
    /\ None \notin Nat
    /\ Failed \notin Seq(Nat) \cup Seq(Seq(Nat)) \cup [shape : Seq(Nat), data : Seq(Nat)]

ASSUME ModelAssumption ==
    \A m \in DOMAIN Model :
        /\ Model[m].kind \in {"stub", "embedding", "rerank", "tabular"}
        /\ {Model[m].limit, Model[m].shipped, Model[m].padding} \subseteq Nat \cup {None}
        /\ Model[m].features \in Nat
        /\ Model[m].segments \in BOOLEAN
        /\ Model[m].output \in IF Model[m].kind = "tabular" THEN {"column", "two"}
                               ELSE {"states", "logits", "column", "two", "static"}

Sum(s) ==
    LET sum[i \in 0..Len(s)] == IF i = 0 THEN 0 ELSE sum[i - 1] + s[i] IN sum[Len(s)]

Hidden == 2

-----------------------------------------------------------------------------
\* External: the tokenizer and the session.

\* A pair is encoded jointly, the second side as segment 1.
Tokens(kind, item) ==
    IF kind = "embedding" THEN [i \in DOMAIN item |-> [id |-> item[i] + 1, type |-> 0, mask |-> 1]]
    ELSE [i \in DOMAIN item[1] |-> [id |-> item[1][i] + 1, type |-> 0, mask |-> 1]]
             \o [i \in DOMAIN item[2] |-> [id |-> item[2][i] + 1, type |-> 1, mask |-> 1]]

Pad == [id |-> 0, type |-> 0, mask |-> 0]

Shown(row) ==
    LET seen == Ascending({t \in DOMAIN row : row[t].mask = 1}) IN [i \in DOMAIN seen |-> row[seen[i]]]
Weight(m, t)      == t.id * (1 + (IF Model[m].segments THEN t.type ELSE 0))
Attention(m, row) == LET seen == Shown(row) IN Sum([i \in DOMAIN seen |-> Weight(m, seen[i])])

State(m, row, t) ==
    IF row[t].mask = 1 THEN <<row[t].id, (Attention(m, row) + t) % FloatMod>>
    ELSE <<FloatMod - 1, t>>

Logit(m, row) == Attention(m, row) % FloatMod

\* One score per feature row.
TreeScore(features) == Sum([i \in DOMAIN features |-> i * features[i]]) % FloatMod

Session(m, rows) ==
    LET batch  == Len(rows)
        seq    == Len(rows[1])
        output == Model[m].output
        states == FlattenSeq([b \in 1..batch |-> FlattenSeq([t \in 1..seq |-> State(m, rows[b], t)])])
        logits == [b \in 1..batch |-> Logit(m, rows[b])]
    IN  CASE output = "states" -> [shape |-> <<batch, seq, Hidden>>, data |-> states]
          [] output = "logits" -> [shape |-> <<batch>>, data |-> logits]
          [] output = "column" -> [shape |-> <<batch, 1>>, data |-> logits]
          [] output = "two"    -> [shape |-> <<batch, 2>>, data |-> logits \o logits]
          [] output = "static" -> IF batch = 1 THEN [shape |-> <<1>>, data |-> logits] ELSE Failed

-----------------------------------------------------------------------------
\* LoadedModel.

\* The passport, then tokenizer.json, then the default.
MaxTokens(m) ==
    IF Model[m].limit # None THEN Model[m].limit
    ELSE IF Model[m].shipped # None THEN Model[m].shipped
    ELSE DefaultMaxTokens

Truncated(m, item) ==
    LET tokens == Tokens(Model[m].kind, item)
    IN  SubSeq(tokens, 1, IF Len(tokens) < MaxTokens(m) THEN Len(tokens) ELSE MaxTokens(m))

\* Slip: the padding is not masked out.
PaddedUnmasked(row, width) ==
    row \o [i \in 1..(IF Len(row) < width THEN width - Len(row) ELSE 0) |-> [Pad EXCEPT !.mask = 1]]

Padded(row, width) ==
    row \o [i \in 1..(IF Len(row) < width THEN width - Len(row) ELSE 0) |-> Pad]

\* The longest row, or the fixed length of the tokenizer's own padding.
Rectangle(m, rows) ==
    LET longest == CHOOSE n \in {Len(rows[b]) : b \in DOMAIN rows} : \A b \in DOMAIN rows : Len(rows[b]) <= n
        width   == IF Model[m].padding = None THEN longest ELSE Model[m].padding
    IN  [b \in DOMAIN rows |-> Padded(rows[b], width)]

\* encode_batch, with the padding load() makes sure of.
EncodeBatch(m, items) == Rectangle(m, [b \in DOMAIN items |-> Truncated(m, items[b])])

\* A tensor of the first row's width, or an error when the rows do not fill it.
Shaped(m, batch, seq, flat) ==
    IF Len(flat) # batch * seq THEN Failed
    ELSE Session(m, [b \in 1..batch |-> SubSeq(flat, (b - 1) * seq + 1, b * seq)])

Run(m, encodings) == Shaped(m, Len(encodings), Len(encodings[1]), FlattenSeq(encodings))

-----------------------------------------------------------------------------
\* The engines.

\* The mean of the states of row b that the mask keeps.
Pool(out, mask, b) ==
    LET seq    == out.shape[2]
        hidden == out.shape[3]
        kept   == Ascending({t \in 1..seq : mask[(b - 1) * seq + t] # 0})
    IN  [h \in 1..hidden |->
            Sum([i \in DOMAIN kept |-> out.data[((b - 1) * seq + kept[i] - 1) * hidden + h]])
                \div (IF kept = <<>> THEN 1 ELSE Len(kept))]

Mask(encodings) == LET flat == FlattenSeq(encodings) IN [i \in DOMAIN flat |-> flat[i].mask]

Pooled(out, mask) ==
    IF out = Failed \/ Len(out.shape) # 3 THEN Failed
    ELSE [b \in 1..out.shape[1] |-> Pool(out, mask, b)]

EmbedEncoded(m, encodings) == Pooled(Run(m, encodings), Mask(encodings))

Embed(m, texts) == EmbedEncoded(m, EncodeBatch(m, texts))

\* One score per item: [batch] or [batch, 1].
Scores(out, batch) ==
    IF out # Failed /\ out.shape \in {<<batch>>, <<batch, 1>>} THEN out.data ELSE Failed

ScorePairs(m, pairs) == Scores(Run(m, EncodeBatch(m, pairs)), Len(pairs))

Evaluate(m, values) ==
    LET n     == Model[m].features
        batch == Len(values) \div n
        rows  == [b \in 1..batch |-> SubSeq(values, (b - 1) * n + 1, b * n)]
        score == [b \in 1..batch |-> TreeScore(rows[b])]
    IN  IF Len(values) % n # 0 THEN Failed
        ELSE CASE Model[m].output = "column" -> Scores([shape |-> <<batch, 1>>, data |-> score], batch)
               [] Model[m].output = "two"    -> Scores([shape |-> <<batch, 2>>, data |-> score \o score], batch)

\* The built-in stub: a vector drawn from the text's hash.
PseudoEmbedding(text) == [h \in 1..StubDim |-> (Sum(text) + 3 * h) % FloatMod]
StubEmbed(texts)      == [b \in DOMAIN texts |-> PseudoEmbedding(texts[b])]

\* What the worker's engine returns for the items of a batch.
Infer(m, items) ==
    CASE Model[m].kind = "stub"      -> StubEmbed(items)
      [] Model[m].kind = "embedding" -> Embed(m, items)
      [] Model[m].kind = "rerank"    -> ScorePairs(m, items)
      [] Model[m].kind = "tabular"   -> Evaluate(m, FlattenSeq(items))

\* Slip: nothing is run before serving.
LoadsUnprobed(m) ==
    Model[m].kind = "tabular" => Model[m].inputs = 1 /\ Model[m].outputs = 1 /\ Model[m].features > 0

\* load(): the graph a tabular model declares, and one probe of one row.
Loads(m) ==
    LET probe == CASE Model[m].kind \in {"stub", "embedding"} -> <<1>>
                   [] Model[m].kind = "rerank"    -> <<<<1>>, <<1>>>>
                   [] Model[m].kind = "tabular"   -> [i \in 1..Model[m].features |-> 0]
    IN  /\ Model[m].kind = "tabular" =>
               Model[m].inputs = 1 /\ Model[m].outputs = 1 /\ Model[m].features > 0
        /\ Infer(m, <<probe>>) # Failed

\* The model card: dim is what the probe returned.
Card(m) ==
    [kind |-> IF Model[m].kind = "stub" THEN "embedding" ELSE Model[m].kind,
     dim  |-> IF Model[m].kind \in {"stub", "embedding"} THEN Len(Infer(m, <<<<1>>>>)[1]) ELSE 0,
     n    |-> IF Model[m].kind = "tabular" THEN Model[m].features ELSE 0]

-----------------------------------------------------------------------------
\* What each item gets when nothing else is in the batch, nothing is padded
\* and no tensor is flattened: the reference the runs are held against.

Alone(m, item) ==
    LET kept == IF Model[m].kind \in {"stub", "tabular"} THEN <<>> ELSE Truncated(m, item)
        mean(h) == Sum([t \in DOMAIN kept |-> State(m, kept, t)[h]])
                       \div (IF kept = <<>> THEN 1 ELSE Len(kept))
    IN  CASE Model[m].kind = "stub"      -> PseudoEmbedding(item)
          [] Model[m].kind = "embedding" -> [h \in 1..Hidden |-> mean(h)]
          [] Model[m].kind = "rerank"    -> Logit(m, kept)
          [] Model[m].kind = "tabular"   -> TreeScore(item)
=============================================================================
