---------------------------- MODULE GatewayProofs ----------------------------
(***************************************************************************)
(* Gateway, proved: whatever models are served and whatever is asked, over *)
(* any of the channels and in any batch.                                   *)
(*                                                                         *)
(* The first part is about the engines: what a batch returns is what each  *)
(* of its texts would be given alone, padding and truncation included, and *)
(* a model that loads fails in a batch for two reasons only.               *)
(*                                                                         *)
(* The second is about the requests.  While caller and daemon are in step, *)
(* a request goes through one phase after another; the inductive invariant *)
(* says of each phase what is known of the request, and a step takes a     *)
(* caller from one phase to the next.  They fall out of step over a frame  *)
(* that wraps its prefix, and behind leftovers: then the invariant says    *)
(* only what is on the connection and that its first reply is an error.    *)
(* All of it is stated of a record that holds what the variables hold of   *)
(* one caller, and of the registry E, so that what a step leaves alone     *)
(* needs no proof.                                                         *)
(***************************************************************************)
EXTENDS Gateway, RowBinaryProofs

-----------------------------------------------------------------------------
\* Sums.

SumStep(s) == [p \in Nat \X Nat |-> IF p[1] \in DOMAIN s THEN p[2] + s[p[1]] ELSE p[2]]

SumOf(s, f) ==
    /\ f = [i \in 0..Len(s) |-> f[i]]
    /\ f[0] = 0
    /\ \A i \in 1..Len(s) : f[i] = f[i - 1] + s[i]

LEMMA SumDef ==
    ASSUME NEW s \in Seq(Nat)
    PROVE  \E f : SumOf(s, f) /\ Sum(s) = f[Len(s)] /\ \A i \in 0..Len(s) : f[i] \in Nat
<1> DEFINE F == SumStep(s)
<1>1. Iterates(Nat, 0, F)
  <2>1. \A p \in Nat \X Nat : (IF p[1] \in DOMAIN s THEN p[2] + s[p[1]] ELSE p[2]) \in Nat
    OBVIOUS
  <2>2. F \in [Nat \X Nat -> Nat]
    BY <2>1 DEF SumStep
  <2> QED
    BY <2>2 DEF Iterates
<1>2. Len(s) \in Nat
  OBVIOUS
<1> HIDE DEF F
<1>3. PICK g : Computes(g, Nat, 0, F, Len(s))
  BY <1>1, <1>2, Recursion
<1> DEFINE sum == CHOOSE f : f = [i \in 0..Len(s) |-> IF i = 0 THEN 0 ELSE f[i - 1] + s[i]]
<1>4. g = [i \in 0..Len(s) |-> g[i]] /\ g[0] = 0 /\ (\A i \in 0..Len(s) : g[i] \in Nat)
      /\ \A i \in 1..Len(s) : g[i] = F[<<i, g[i - 1]>>]
  BY <1>3, <1>2 DEF Computes
<1>5. ASSUME NEW i \in 1..Len(s) PROVE g[i] = g[i - 1] + s[i]
  <2>1. i \in Nat /\ i - 1 \in 0..Len(s) /\ i \in DOMAIN s
    BY <1>2
  <2>2. g[i - 1] \in Nat
    BY <1>4, <2>1
  <2>3. F[<<i, g[i - 1]>>] = g[i - 1] + s[i]
    BY <2>1, <2>2 DEF F, SumStep
  <2> QED
    BY <1>4, <2>3
<1>6. g = [i \in 0..Len(s) |-> IF i = 0 THEN 0 ELSE g[i - 1] + s[i]]
  <2>1. ASSUME NEW i \in 0..Len(s) PROVE g[i] = IF i = 0 THEN 0 ELSE g[i - 1] + s[i]
    <3>1. CASE i = 0
      BY <3>1, <1>4
    <3>2. CASE i # 0
      <4>1. i \in 1..Len(s)
        BY <3>2, <1>2
      <4> QED
        BY <4>1, <3>2, <1>5
    <3> QED
      BY <3>1, <3>2
  <2> QED
    BY <2>1, <1>4
<1>7. sum = [i \in 0..Len(s) |-> IF i = 0 THEN 0 ELSE sum[i - 1] + s[i]]
  BY <1>6, Zenon
<1>8. Sum(s) = sum[Len(s)]
  BY Zenon DEF Sum
<1> HIDE DEF sum
<1>9. sum[0] = 0 /\ \A i \in 1..Len(s) : sum[i] = sum[i - 1] + s[i]
  BY <1>7, <1>2
<1>10. sum = [i \in 0..Len(s) |-> sum[i]]
  BY <1>7
<1>11. SumOf(s, sum)
  BY <1>9, <1>10 DEF SumOf
<1>12. \A i \in 0..Len(s) : sum[i] \in Nat
  <2> DEFINE P == {i \in Nat : i \in 0..Len(s) => sum[i] \in Nat}
  <2>1. 0 \in P
    BY <1>9
  <2>2. \A i \in Nat : i \in P => i + 1 \in P
    <3>1. ASSUME NEW i \in Nat, i \in P, i + 1 \in 0..Len(s) PROVE sum[i + 1] \in Nat
      <4>1. i + 1 \in 1..Len(s) /\ (i + 1) - 1 = i /\ i \in 0..Len(s)
        BY <3>1, <1>2
      <4>2. sum[i + 1] = sum[i] + s[i + 1]
        BY <4>1, <1>9
      <4>3. sum[i] \in Nat /\ s[i + 1] \in Nat
        BY <3>1, <4>1
      <4> QED
        BY <4>2, <4>3
    <3> QED
      BY <3>1
  <2> HIDE DEF P
  <2>3. \A i \in Nat : i \in P
    BY <2>1, <2>2, Induction
  <2> QED
    BY <2>3, <1>2 DEF P
<1> QED
  BY <1>8, <1>11, <1>12

LEMMA SumBounds ==
    ASSUME NEW s \in Seq(Nat), NEW B \in Nat, \A i \in DOMAIN s : s[i] <= B
    PROVE  Sum(s) \in Nat /\ Sum(s) <= Len(s) * B
<1>0. Len(s) \in Nat /\ DOMAIN s = 1..Len(s)
  OBVIOUS
<1>1. PICK f : SumOf(s, f) /\ Sum(s) = f[Len(s)] /\ \A i \in 0..Len(s) : f[i] \in Nat
  BY SumDef
<1> DEFINE P == {i \in Nat : i \in 0..Len(s) => f[i] <= i * B}
<1>2. 0 \in P
  BY <1>1 DEF SumOf
<1>3. \A i \in Nat : i \in P => i + 1 \in P
  <2>1. ASSUME NEW i \in Nat, i \in P, i + 1 \in 0..Len(s) PROVE f[i + 1] <= (i + 1) * B
    <3>1. i + 1 \in 1..Len(s) /\ (i + 1) - 1 = i /\ i \in 0..Len(s)
      BY <2>1, <1>0
    <3>2. f[i + 1] = f[i] + s[i + 1]
      BY <3>1, <1>1 DEF SumOf
    <3>3. f[i] <= i * B
      BY <2>1, <3>1
    <3>5. s[i + 1] <= B /\ f[i] \in Nat /\ s[i + 1] \in Nat
      <4> HIDE DEF P
      <4>1. i + 1 \in DOMAIN s
        BY <3>1, <1>0
      <4>2. s[i + 1] \in Nat
        BY <4>1
      <4> QED
        BY <4>1, <4>2, <3>1, <1>1
    <3>4. (i + 1) * B = i * B + B /\ i * B \in Nat
      OBVIOUS
    <3> QED
      BY <3>2, <3>3, <3>5, <3>4
  <2> QED
    BY <2>1
<1> HIDE DEF P
<1>4. \A i \in Nat : i \in P
  BY <1>2, <1>3, Induction
<1> QED
  BY <1>0, <1>1, <1>4 DEF P

LEMMA SumType ==
    ASSUME NEW s \in Seq(Nat)
    PROVE  Sum(s) \in Nat
<1>1. PICK f : SumOf(s, f) /\ Sum(s) = f[Len(s)] /\ \A i \in 0..Len(s) : f[i] \in Nat
  BY SumDef
<1>2. Len(s) \in 0..Len(s)
  OBVIOUS
<1> QED
  BY <1>1, <1>2

-----------------------------------------------------------------------------
\* Rows of tokens.

Token   == [id : Nat, type : {0, 1}, mask : {0, 1}]
Visible == {t \in Token : t.mask = 1}

\* A row whose mask shows the tokens kept and nothing else.
Shows(row, kept) ==
    /\ row \in Seq(Token) /\ kept \in Seq(Visible)
    /\ Len(kept) <= Len(row)
    /\ \A t \in 1..Len(kept) : row[t] = kept[t]
    /\ \A t \in 1..Len(row) : t > Len(kept) => row[t].mask = 0

TextItem == Seq(Nat)
PairItem == Seq(Nat) \X Seq(Nat)

LEMMA VisibleToken ==
    ASSUME NEW s \in Seq(Visible)
    PROVE  s \in Seq(Token) /\ Len(s) \in Nat /\ \A t \in 1..Len(s) : s[t] \in Token /\ s[t].mask = 1
<1>1. \A t \in 1..Len(s) : s[t] \in Visible
  OBVIOUS
<1>2. Visible \subseteq Token
  BY DEF Visible
<1>3. s \in Seq(Token)
  BY <1>2, WiderSeq
<1> QED
  BY <1>1, <1>3 DEF Visible

LEMMA OneSide ==
    ASSUME NEW s \in Seq(Nat), NEW k \in {0, 1}
    PROVE  [i \in DOMAIN s |-> [id |-> s[i] + 1, type |-> k, mask |-> 1]] \in Seq(Visible)
<1> DEFINE f == [i \in DOMAIN s |-> [id |-> s[i] + 1, type |-> k, mask |-> 1]]
<1>1. Len(s) \in Nat /\ DOMAIN s = 1..Len(s)
  OBVIOUS
<1>2. ASSUME NEW i \in 1..Len(s) PROVE f[i] \in Visible
  <2>1. s[i] \in Nat /\ i \in DOMAIN s
    BY <1>1
  <2>2. f[i] = [id |-> s[i] + 1, type |-> k, mask |-> 1]
    BY <2>1
  <2>3. f[i] \in Token /\ f[i].mask = 1
    BY <2>1, <2>2 DEF Token
  <2> QED
    BY <2>3 DEF Visible
<1>3. f = [i \in 1..Len(s) |-> f[i]]
  BY <1>1
<1> HIDE DEF f
<1> QED
  <2>1. f \in Seq(Visible)
    BY <1>1, <1>2, <1>3, TypeOfSeq
  <2> QED
    BY <2>1 DEF f

LEMMA TokensType ==
    ASSUME NEW kind, NEW item, IF kind = "embedding" THEN item \in TextItem ELSE item \in PairItem
    PROVE  Tokens(kind, item) \in Seq(Visible)
<1>1. CASE kind = "embedding"
  <2>1. item \in Seq(Nat)
    BY <1>1 DEF TextItem
  <2>2. [i \in DOMAIN item |-> [id |-> item[i] + 1, type |-> 0, mask |-> 1]] \in Seq(Visible)
    BY <2>1, OneSide
  <2> QED
    BY <1>1, <2>2 DEF Tokens
<1>2. CASE kind # "embedding"
  <2>1. item[1] \in Seq(Nat) /\ item[2] \in Seq(Nat)
    BY <1>2 DEF PairItem
  <2> DEFINE a == [i \in DOMAIN item[1] |-> [id |-> item[1][i] + 1, type |-> 0, mask |-> 1]]
             b == [i \in DOMAIN item[2] |-> [id |-> item[2][i] + 1, type |-> 1, mask |-> 1]]
  <2>2. a \in Seq(Visible)
    BY <2>1, OneSide
  <2>3. b \in Seq(Visible)
    BY <2>1, OneSide
  <2>4. Tokens(kind, item) = a \o b
    BY <1>2 DEF Tokens
  <2> HIDE DEF a, b
  <2>5. a \o b \in Seq(Visible)
    BY <2>2, <2>3, ConcatLength
  <2> QED
    BY <2>4, <2>5
<1> QED
  BY <1>1, <1>2

LEMMA MaxTokensType ==
    ASSUME NEW m \in DOMAIN Model
    PROVE  MaxTokens(m) \in Nat
BY ModelAssumption, EngineAssumption DEF MaxTokens

\* An item of a text model, and a model of the kind.
Textual(m, item) ==
    /\ m \in DOMAIN Model
    /\ \/ Model[m].kind = "embedding" /\ item \in TextItem
       \/ Model[m].kind = "rerank" /\ item \in PairItem

LEMMA TruncatedType ==
    ASSUME NEW m, NEW item, Textual(m, item)
    PROVE  Truncated(m, item) \in Seq(Visible) /\ Len(Truncated(m, item)) <= MaxTokens(m)
<1> DEFINE ts == Tokens(Model[m].kind, item)
           n  == IF Len(ts) < MaxTokens(m) THEN Len(ts) ELSE MaxTokens(m)
<1>1. ts \in Seq(Visible)
  <2>1. IF Model[m].kind = "embedding" THEN item \in TextItem ELSE item \in PairItem
    BY DEF Textual
  <2> QED
    BY <2>1, TokensType
<1>2. Truncated(m, item) = SubSeq(ts, 1, n)
  BY DEF Truncated
<1>3. MaxTokens(m) \in Nat
  BY MaxTokensType DEF Textual
<1> HIDE DEF ts
<1>4. n \in Nat /\ n <= Len(ts) /\ n <= MaxTokens(m)
  BY <1>1, <1>3
<1> HIDE DEF n
<1>5. SubSeq(ts, 1, n) \in Seq(Visible) /\ Len(SubSeq(ts, 1, n)) = n
  BY <1>1, <1>4
<1> QED
  BY <1>2, <1>4, <1>5

LEMMA PaddedShows ==
    ASSUME NEW kept \in Seq(Visible), NEW width \in Nat
    PROVE  /\ Shows(Padded(kept, width), kept)
           /\ Len(Padded(kept, width)) = IF Len(kept) < width THEN width ELSE Len(kept)
<1> DEFINE n == IF Len(kept) < width THEN width - Len(kept) ELSE 0
           pad == [i \in 1..n |-> Pad]
<1>1. kept \in Seq(Token) /\ Len(kept) \in Nat
  BY VisibleToken
<1>2. n \in Nat
  BY <1>1
<1>3. Pad \in Token /\ Pad.mask = 0
  BY DEF Pad, Token
<1>4. pad \in Seq(Token) /\ Len(pad) = n /\ \A i \in 1..n : pad[i] = Pad
  <2>1. pad = [i \in 1..n |-> pad[i]] /\ \A i \in 1..n : pad[i] = Pad
    BY Zenon
  <2> HIDE DEF pad, n
  <2>2. \A i \in 1..n : pad[i] \in Token
    BY <2>1, <1>3
  <2>3. pad \in Seq(Token) /\ Len(pad) = n
    BY <2>1, <2>2, <1>2, TypeOfSeq
  <2> QED
    BY <2>1, <2>3
<1>5. Padded(kept, width) = kept \o pad
  BY DEF Padded
<1>6. Len(kept) + n = IF Len(kept) < width THEN width ELSE Len(kept)
  BY <1>1
<1> HIDE DEF pad, n
<1>7. kept \o pad \in Seq(Token) /\ Len(kept \o pad) = Len(kept) + n
  BY <1>1, <1>4
<1>8. \A t \in 1..Len(kept) : (kept \o pad)[t] = kept[t]
  BY <1>1, <1>4
<1>9. ASSUME NEW t \in 1..(Len(kept) + n), t > Len(kept) PROVE (kept \o pad)[t].mask = 0
  <2>1. t - Len(kept) \in 1..n
    BY <1>1, <1>2, <1>9
  <2>2. (kept \o pad)[t] = pad[t - Len(kept)]
    BY <1>1, <1>4, <1>9, <2>1
  <2> QED
    BY <1>3, <1>4, <2>1, <2>2
<1> QED
  <2>1. Shows(kept \o pad, kept)
    BY <1>1, <1>2, <1>7, <1>8, <1>9 DEF Shows
  <2> QED
    BY <2>1, <1>5, <1>6, <1>7

LEMMA ShowsItself ==
    ASSUME NEW kept \in Seq(Visible)
    PROVE  Shows(kept, kept)
BY VisibleToken DEF Shows

\* The positions the mask keeps are the first ones, in order.
LEMMA KeptPlaces ==
    ASSUME NEW row, NEW kept, Shows(row, kept)
    PROVE  /\ Ascending({t \in DOMAIN row : row[t].mask = 1}) = [i \in 1..Len(kept) |-> i]
           /\ \A n : n = Len(row) => Ascending({t \in 1..n : row[t].mask # 0}) = [i \in 1..Len(kept) |-> i]
<1>1. Len(kept) \in Nat /\ Len(row) \in Nat /\ DOMAIN row = 1..Len(row)
      /\ \A t \in 1..Len(kept) : kept[t] \in Token /\ kept[t].mask = 1
  BY VisibleToken DEF Shows
<1>2. {t \in DOMAIN row : row[t].mask = 1} = 1..Len(kept)
  <2>1. ASSUME NEW t \in 1..Len(row) PROVE row[t].mask = 1 <=> t <= Len(kept)
    <3>1. CASE t <= Len(kept)
      <4>1. t \in 1..Len(kept)
        BY <3>1, <1>1
      <4> QED
        BY <4>1, <3>1, <1>1 DEF Shows
    <3>2. CASE t > Len(kept)
      BY <3>2, <1>1 DEF Shows
    <3> QED
      BY <3>1, <3>2, <1>1
  <2>2. Len(kept) <= Len(row)
    BY DEF Shows
  <2> QED
    BY <1>1, <2>1, <2>2
<1>3. {t \in 1..Len(row) : row[t].mask # 0} = {t \in DOMAIN row : row[t].mask = 1}
  <2>1. ASSUME NEW t \in 1..Len(row) PROVE row[t].mask \in {0, 1}
    <3>1. row[t] \in Token
      BY <1>1 DEF Shows
    <3> QED
      BY <3>1 DEF Token
  <2> QED
    BY <1>1, <2>1
<1>4. Ascending(1..Len(kept)) = [i \in 1..Len(kept) |-> i]
  BY <1>1, AscendingPrefix
<1> QED
  BY <1>2, <1>3, <1>4

LEMMA ShownIsKept ==
    ASSUME NEW row, NEW kept, Shows(row, kept)
    PROVE  Shown(row) = kept
<1> DEFINE seen == Ascending({t \in DOMAIN row : row[t].mask = 1})
<1>1. seen = [i \in 1..Len(kept) |-> i]
  BY KeptPlaces
<1>2. Shown(row) = [i \in DOMAIN seen |-> row[seen[i]]]
  BY DEF Shown
<1> HIDE DEF seen
<1>3. Shown(row) = [i \in 1..Len(kept) |-> row[i]]
  BY <1>1, <1>2
<1>4. kept = [i \in 1..Len(kept) |-> kept[i]]
  BY VisibleToken DEF Shows
<1>5. \A i \in 1..Len(kept) : row[i] = kept[i]
  BY DEF Shows
<1> QED
  BY <1>3, <1>4, <1>5

\* What the mask does not show changes nothing.
LEMMA MaskedUnseen ==
    ASSUME NEW m, NEW row, NEW kept, Shows(row, kept)
    PROVE  /\ Attention(m, row) = Attention(m, kept) /\ Logit(m, row) = Logit(m, kept)
           /\ \A t \in 1..Len(kept) : State(m, row, t) = State(m, kept, t)
<1>1. Shown(row) = kept
  BY ShownIsKept
<1>2. Shown(kept) = kept
  <2>1. kept \in Seq(Visible)
    BY DEF Shows
  <2>2. Shows(kept, kept)
    BY <2>1, ShowsItself
  <2> QED
    BY <2>2, ShownIsKept
<1>3. Attention(m, row) = Attention(m, kept)
  BY <1>1, <1>2 DEF Attention
<1>4. Logit(m, row) = Logit(m, kept)
  BY <1>3 DEF Logit
<1>5. \A t \in 1..Len(kept) : State(m, row, t) = State(m, kept, t)
  BY <1>3 DEF State, Shows
<1> QED
  BY <1>3, <1>4, <1>5

-----------------------------------------------------------------------------
\* What the session returns.

LEMMA WeightType ==
    ASSUME NEW m \in DOMAIN Model, NEW t \in Token
    PROVE  Weight(m, t) \in Nat
<1> DEFINE k == 1 + (IF Model[m].segments THEN t.type ELSE 0)
<1>1. t.id \in Nat /\ t.type \in {0, 1}
  BY DEF Token
<1>2. k \in Nat
  BY <1>1
<1>3. Weight(m, t) = t.id * k
  BY DEF Weight
<1> HIDE DEF k
<1> QED
  BY <1>1, <1>2, <1>3

LEMMA ShownType ==
    ASSUME NEW row \in Seq(Token)
    PROVE  Shown(row) \in Seq(Token)
<1> DEFINE S == {t \in DOMAIN row : row[t].mask = 1}
           seen == Ascending(S)
<1>1. DOMAIN row = 1..Len(row) /\ Len(row) \in Nat
  OBVIOUS
<1>2. S \in SUBSET Nat /\ IsFiniteSet(S) /\ S \subseteq 1..Len(row)
  <2>1. S \subseteq 1..Len(row)
    BY <1>1
  <2>2. IsFiniteSet(1..Len(row))
    BY <1>1, FS_Interval
  <2>3. IsFiniteSet(S)
    BY <2>1, <2>2, FS_Subset
  <2> QED
    BY <2>1, <2>3, <1>1
<1>3. Shown(row) = [i \in DOMAIN seen |-> row[seen[i]]]
  BY DEF Shown
<1> HIDE DEF S
<1>4. /\ Cardinality(S) \in Nat /\ DOMAIN seen = 1..Cardinality(S)
      /\ \A i \in 1..Cardinality(S) : seen[i] \in S
  BY <1>2, AscendingProperties
<1> HIDE DEF seen
<1>5. \A i \in 1..Cardinality(S) : row[seen[i]] \in Token
  <2>1. \A j \in 1..Len(row) : row[j] \in Token
    BY <1>1
  <2> QED
    BY <2>1, <1>2, <1>4
<1>6. Shown(row) = [i \in 1..Cardinality(S) |-> Shown(row)[i]] /\ \A i \in 1..Cardinality(S) : Shown(row)[i] \in Token
  BY <1>3, <1>4, <1>5
<1> QED
  BY <1>4, <1>6, TypeOfSeq

LEMMA AttentionType ==
    ASSUME NEW m \in DOMAIN Model, NEW row \in Seq(Token)
    PROVE  Attention(m, row) \in Nat /\ Logit(m, row) \in 0..(FloatMod - 1)
<1> DEFINE seen == Shown(row)
           ws   == [i \in DOMAIN seen |-> Weight(m, seen[i])]
<1>1. seen \in Seq(Token)
  BY ShownType
<1>2. Attention(m, row) = Sum(ws)
  BY DEF Attention
<1> HIDE DEF seen
<1>3. DOMAIN seen = 1..Len(seen) /\ Len(seen) \in Nat /\ \A i \in 1..Len(seen) : seen[i] \in Token
  BY <1>1
<1>4. ws = [i \in 1..Len(seen) |-> ws[i]] /\ \A i \in 1..Len(seen) : ws[i] = Weight(m, seen[i])
  BY <1>3
<1> HIDE DEF ws
<1>5. \A i \in 1..Len(seen) : ws[i] \in Nat
  BY <1>3, <1>4, WeightType
<1>6. ws \in Seq(Nat)
  BY <1>3, <1>4, <1>5, TypeOfSeq
<1>7. Attention(m, row) \in Nat
  BY <1>2, <1>6, SumType
<1>8. Attention(m, row) % FloatMod \in 0..(FloatMod - 1)
  BY <1>7, EngineAssumption, Division
<1> QED
  BY <1>7, <1>8 DEF Logit

LEMMA StateType ==
    ASSUME NEW m \in DOMAIN Model, NEW row \in Seq(Token), NEW t \in 1..Len(row)
    PROVE  State(m, row, t) \in Seq(Nat) /\ Len(State(m, row, t)) = Hidden
<1>1. row[t] \in Token /\ t \in Nat
  OBVIOUS
<1>2. row[t].id \in Nat
  BY <1>1 DEF Token
<1>3. Attention(m, row) + t \in Nat
  BY <1>1, AttentionType
<1>4. (Attention(m, row) + t) % FloatMod \in Nat
  <2> DEFINE a == Attention(m, row) + t
  <2>1. a \in Nat
    BY <1>3
  <2> HIDE DEF a
  <2>2. FloatMod \in Nat \ {0}
    BY EngineAssumption
  <2>3. a % FloatMod \in 0..(FloatMod - 1)
    BY <2>1, <2>2, Division
  <2>4. a % FloatMod \in Nat
    BY <2>2, <2>3
  <2> QED
    BY <2>4 DEF a
<1>5. FloatMod - 1 \in Nat
  BY EngineAssumption
<1>6. \A x, y \in Nat : <<x, y>> \in Seq(Nat) /\ Len(<<x, y>>) = 2
  OBVIOUS
<1> DEFINE x == row[t].id
           y == (Attention(m, row) + t) % FloatMod
           z == FloatMod - 1
<1>7. State(m, row, t) = IF row[t].mask = 1 THEN <<x, y>> ELSE <<z, t>>
  BY DEF State
<1>8. x \in Nat /\ y \in Nat /\ z \in Nat
  BY <1>2, <1>4, <1>5
<1> HIDE DEF x, y, z
<1>9. State(m, row, t) \in Seq(Nat) /\ Len(State(m, row, t)) = 2
  BY <1>1, <1>6, <1>7, <1>8
<1> QED
  BY <1>9 DEF Hidden

\* The states of one row stand one behind the other.
RowStates(m, row, n) == FlattenSeq([t \in 1..n |-> State(m, row, t)])

LEMMA RowStatesAt ==
    ASSUME NEW m \in DOMAIN Model, NEW row \in Seq(Token), NEW n \in Nat, n = Len(row)
    PROVE  /\ RowStates(m, row, n) \in Seq(Nat) /\ Len(RowStates(m, row, n)) = n * Hidden
           /\ \A t \in 1..n, h \in 1..Hidden :
                  RowStates(m, row, n)[(t - 1) * Hidden + h] = State(m, row, t)[h]
<1> DEFINE ss == [t \in 1..n |-> State(m, row, t)]
<1>1. ss = [t \in 1..n |-> ss[t]] /\ \A t \in 1..n : ss[t] = State(m, row, t)
  BY Zenon
<1>2. RowStates(m, row, n) = FlattenSeq(ss)
  BY DEF RowStates
<1> HIDE DEF ss
<1>3. \A t \in 1..n : ss[t] \in Seq(Nat) /\ Len(ss[t]) = Hidden
  BY <1>1, StateType
<1>4. ss \in Seq(Seq(Nat)) /\ Len(ss) = n
  BY <1>1, <1>3, TypeOfSeq
<1>5. Hidden \in Nat
  BY DEF Hidden
<1>6. OfWidth(ss, Hidden)
  BY <1>3, <1>4 DEF OfWidth
<1>7. FlattenSeq(ss) \in Seq(Nat)
  BY <1>4, FlattenType
<1>8. Len(FlattenSeq(ss)) = n * Hidden
  BY <1>4, <1>5, <1>6, FlattenEqualLength
<1>9. ASSUME NEW t \in 1..n, NEW h \in 1..Hidden
      PROVE  FlattenSeq(ss)[(t - 1) * Hidden + h] = State(m, row, t)[h]
  <2>1. RowStands(ss, Hidden, t)
    BY <1>4, <1>5, <1>6, FlattenRow
  <2>2. FlattenSeq(ss)[(t - 1) * Hidden + h] = ss[t][h]
    BY <2>1 DEF RowStands
  <2> QED
    BY <2>2, <1>1
<1> QED
  BY <1>2, <1>7, <1>8, <1>9

Matrices(seq) == {rows \in Seq(Seq(Token)) : Len(rows) # 0 /\ OfWidth(rows, seq)}

BatchStates(m, rows, n) == FlattenSeq([b \in 1..Len(rows) |-> RowStates(m, rows[b], n)])
BatchLogits(m, rows)    == [b \in 1..Len(rows) |-> Logit(m, rows[b])]

LEMMA MatrixType ==
    ASSUME NEW seq, NEW rows \in Matrices(seq)
    PROVE  /\ Len(rows) \in Nat \ {0} /\ rows \in Seq(Seq(Token)) /\ seq \in Nat /\ 1 \in 1..Len(rows)
           /\ \A b \in 1..Len(rows) : rows[b] \in Seq(Token) /\ Len(rows[b]) = seq
<1>1. rows \in Seq(Seq(Token)) /\ Len(rows) # 0 /\ OfWidth(rows, seq)
  BY DEF Matrices
<1>2. Len(rows) \in Nat \ {0} /\ 1 \in 1..Len(rows)
  BY <1>1
<1>3. \A b \in 1..Len(rows) : rows[b] \in Seq(Token) /\ Len(rows[b]) = seq
  BY <1>1 DEF OfWidth
<1>4. Len(rows[1]) \in Nat
  BY <1>2, <1>3
<1> QED
  BY <1>1, <1>2, <1>3, <1>4

LEMMA BatchStatesAt ==
    ASSUME NEW m \in DOMAIN Model, NEW seq, NEW rows \in Matrices(seq)
    PROVE  /\ BatchStates(m, rows, seq) \in Seq(Nat)
           /\ \A b \in 1..Len(rows), t \in 1..seq, h \in 1..Hidden :
                 BatchStates(m, rows, seq)[((b - 1) * seq + t - 1) * Hidden + h] = State(m, rows[b], t)[h]
<1>1. /\ Len(rows) \in Nat \ {0} /\ seq \in Nat
      /\ \A b \in 1..Len(rows) : rows[b] \in Seq(Token) /\ Len(rows[b]) = seq
  BY MatrixType
<1> DEFINE ss == [b \in 1..Len(rows) |-> RowStates(m, rows[b], seq)]
           w  == seq * Hidden
<1>2. ss = [b \in 1..Len(rows) |-> ss[b]] /\ \A b \in 1..Len(rows) : ss[b] = RowStates(m, rows[b], seq)
  BY Zenon
<1>3. BatchStates(m, rows, seq) = FlattenSeq(ss)
  BY DEF BatchStates
<1>4. ASSUME NEW b \in 1..Len(rows)
      PROVE  /\ RowStates(m, rows[b], seq) \in Seq(Nat) /\ Len(RowStates(m, rows[b], seq)) = w
             /\ \A t \in 1..seq, h \in 1..Hidden :
                  RowStates(m, rows[b], seq)[(t - 1) * Hidden + h] = State(m, rows[b], t)[h]
  BY <1>1, RowStatesAt
<1>5. w \in Nat /\ w = 2 * seq
  BY <1>1 DEF Hidden
<1> HIDE DEF ss, w
<1>6. \A b \in 1..Len(rows) : ss[b] \in Seq(Nat) /\ Len(ss[b]) = w
  BY <1>2, <1>4
<1>7. ss \in Seq(Seq(Nat)) /\ Len(ss) = Len(rows)
  BY <1>1, <1>2, <1>6, TypeOfSeq
<1>8. OfWidth(ss, w)
  BY <1>6, <1>7 DEF OfWidth
<1>9. FlattenSeq(ss) \in Seq(Nat)
  BY <1>7, FlattenType
<1>10. ASSUME NEW b \in 1..Len(rows), NEW t \in 1..seq, NEW h \in 1..Hidden
       PROVE  FlattenSeq(ss)[((b - 1) * seq + t - 1) * Hidden + h] = State(m, rows[b], t)[h]
  <2>1. RowStands(ss, w, b)
    BY <1>5, <1>7, <1>8, FlattenRow
  <2> DEFINE k == (t - 1) * Hidden + h
             x == (b - 1) * seq
  <2>2. k \in 1..w /\ k = 2 * t - 2 + h /\ h \in 1..2
    BY <1>1, <1>5 DEF Hidden
  <2>3. x \in Nat /\ (b - 1) * w = 2 * x
    <3>1. b - 1 \in Nat
      BY <1>1
    <3>2. \A u, v \in Nat : u * v \in Nat /\ u * (2 * v) = 2 * (u * v)
      OBVIOUS
    <3> QED
      BY <3>1, <3>2, <1>1, <1>5
  <2>4. FlattenSeq(ss)[(b - 1) * w + k] = ss[b][k]
    BY <2>1, <2>2 DEF RowStands
  <2>5. ss[b][k] = State(m, rows[b], t)[h]
    BY <1>2, <1>4
  <2>6. (b - 1) * w + k = (x + t - 1) * Hidden + h
    <3>1. t \in Nat /\ h \in Nat
      BY <1>1, <2>2
    <3> HIDE DEF k, x
    <3>2. (x + t - 1) * 2 = 2 * x + 2 * t - 2
      BY <2>3, <3>1
    <3> QED
      BY <2>2, <2>3, <3>1, <3>2 DEF Hidden
  <2> QED
    BY <2>4, <2>5, <2>6
<1> QED
  BY <1>3, <1>9, <1>10

LEMMA BatchLogitsType ==
    ASSUME NEW m \in DOMAIN Model, NEW seq, NEW rows \in Matrices(seq)
    PROVE  /\ BatchLogits(m, rows) \in Seq(Nat) /\ Len(BatchLogits(m, rows)) = Len(rows)
           /\ BatchLogits(m, rows) = [b \in 1..Len(rows) |-> Logit(m, rows[b])]
<1>1. Len(rows) \in Nat /\ \A b \in 1..Len(rows) : rows[b] \in Seq(Token)
  BY MatrixType
<1> DEFINE ls == BatchLogits(m, rows)
<1>2. ls = [b \in 1..Len(rows) |-> ls[b]] /\ \A b \in 1..Len(rows) : ls[b] = Logit(m, rows[b])
  BY Zenon DEF BatchLogits
<1> HIDE DEF ls
<1>3. \A b \in 1..Len(rows) : ls[b] \in Nat
  <2>1. ASSUME NEW b \in 1..Len(rows) PROVE ls[b] \in Nat
    <3>1. Logit(m, rows[b]) \in 0..(FloatMod - 1)
      BY <1>1, AttentionType
    <3> QED
      BY <3>1, <1>2, EngineAssumption
  <2> QED
    BY <2>1
<1>4. ls \in Seq(Nat) /\ Len(ls) = Len(rows)
  BY <1>1, <1>2, <1>3, TypeOfSeq
<1> QED
  BY <1>4 DEF ls, BatchLogits

\* The session, its tensors named.
LEMMA SessionReturns ==
    ASSUME NEW m \in DOMAIN Model, Model[m].kind # "tabular", NEW seq, NEW rows \in Matrices(seq)
    PROVE  LET n  == Len(rows)
               ls == BatchLogits(m, rows)
               o  == Model[m].output
           IN  /\ o \in {"states", "logits", "column", "two", "static"}
               /\ o = "states" => Session(m, rows) = [shape |-> <<n, seq, Hidden>>, data |-> BatchStates(m, rows, seq)]
               /\ o = "logits" => Session(m, rows) = [shape |-> <<n>>, data |-> ls]
               /\ o = "column" => Session(m, rows) = [shape |-> <<n, 1>>, data |-> ls]
               /\ o = "two"    => Session(m, rows) = [shape |-> <<n, 2>>, data |-> ls \o ls]
               /\ o = "static" => Session(m, rows) = IF n = 1 THEN [shape |-> <<1>>, data |-> ls] ELSE Failed
<1>1. Len(rows[1]) = seq
  BY MatrixType
<1>2. Model[m].output \in {"states", "logits", "column", "two", "static"}
  BY ModelAssumption
<1> DEFINE n == Len(rows)
           st == FlattenSeq([b \in 1..n |-> FlattenSeq([t \in 1..seq |-> State(m, rows[b], t)])])
           lo == [b \in 1..n |-> Logit(m, rows[b])]
<1>3. st = BatchStates(m, rows, seq)
  BY Zenon DEF BatchStates, RowStates
<1>4. lo = BatchLogits(m, rows)
  BY Zenon DEF BatchLogits
<1>5. Session(m, rows) =
        CASE Model[m].output = "states" -> [shape |-> <<n, seq, Hidden>>, data |-> st]
          [] Model[m].output = "logits" -> [shape |-> <<n>>, data |-> lo]
          [] Model[m].output = "column" -> [shape |-> <<n, 1>>, data |-> lo]
          [] Model[m].output = "two"    -> [shape |-> <<n, 2>>, data |-> lo \o lo]
          [] Model[m].output = "static" -> IF n = 1 THEN [shape |-> <<1>>, data |-> lo] ELSE Failed
  BY <1>1, Zenon DEF Session
<1> HIDE DEF st, lo
<1> DEFINE S == Session(m, rows)
<1> HIDE DEF S
<1>6. S =
        CASE Model[m].output = "states" -> [shape |-> <<n, seq, Hidden>>, data |-> BatchStates(m, rows, seq)]
          [] Model[m].output = "logits" -> [shape |-> <<n>>, data |-> BatchLogits(m, rows)]
          [] Model[m].output = "column" -> [shape |-> <<n, 1>>, data |-> BatchLogits(m, rows)]
          [] Model[m].output = "two"    -> [shape |-> <<n, 2>>, data |-> BatchLogits(m, rows) \o BatchLogits(m, rows)]
          [] Model[m].output = "static" -> IF n = 1 THEN [shape |-> <<1>>, data |-> BatchLogits(m, rows)] ELSE Failed
  BY <1>3, <1>4, <1>5 DEF S
<1> QED
  BY <1>2, <1>6 DEF S

-----------------------------------------------------------------------------
\* Pooling.

Places(row) == Ascending({t \in 1..Len(row) : row[t].mask # 0})

Summands(m, row, at, h) == [i \in DOMAIN at |-> State(m, row, at[i])[h]]

MeanAt(m, row, at) == [h \in 1..Hidden |-> Sum(Summands(m, row, at, h)) \div (IF at = <<>> THEN 1 ELSE Len(at))]

LEMMA PlacesType ==
    ASSUME NEW row \in Seq(Token)
    PROVE  Places(row) \in Seq(1..Len(row))
<1> DEFINE S == {t \in 1..Len(row) : row[t].mask # 0}
<1>1. Len(row) \in Nat
  OBVIOUS
<1>2. S \subseteq 1..Len(row)
  OBVIOUS
<1>3. S \in SUBSET Nat /\ IsFiniteSet(S)
  <2>1. IsFiniteSet(1..Len(row))
    BY <1>1, FS_Interval
  <2> QED
    BY <2>1, <1>1, <1>2, FS_Subset
<1>4. Places(row) = Ascending(S)
  BY DEF Places
<1> HIDE DEF S
<1>5. Ascending(S) \in Seq(S)
  BY <1>3, AscendingProperties
<1> QED
  BY <1>2, <1>4, <1>5, WiderSeq

LEMMA PoolMeans ==
    ASSUME NEW m \in DOMAIN Model, NEW seq, NEW rows \in Matrices(seq), NEW mask, NEW out,
           NEW b \in 1..Len(rows), out.shape = <<Len(rows), seq, Hidden>>, out.data = BatchStates(m, rows, seq),
           \A t \in 1..seq : mask[(b - 1) * seq + t] = rows[b][t].mask
    PROVE  Pool(out, mask, b) = MeanAt(m, rows[b], Places(rows[b]))
<1>1. /\ Len(rows) \in Nat \ {0} /\ seq \in Nat
      /\ rows[b] \in Seq(Token) /\ Len(rows[b]) = seq
  BY MatrixType
<1>2. out.shape[2] = seq /\ out.shape[3] = Hidden
  OBVIOUS
<1> DEFINE kept == Ascending({t \in 1..seq : mask[(b - 1) * seq + t] # 0})
           terms(h) == [i \in DOMAIN kept |-> out.data[((b - 1) * seq + kept[i] - 1) * Hidden + h]]
<1>3. Pool(out, mask, b) = [h \in 1..Hidden |-> Sum(terms(h)) \div (IF kept = <<>> THEN 1 ELSE Len(kept))]
  BY <1>2, Zenon DEF Pool
<1>4. {t \in 1..seq : mask[(b - 1) * seq + t] # 0} = {t \in 1..seq : rows[b][t].mask # 0}
  OBVIOUS
<1>5. kept = Places(rows[b])
  BY <1>1, <1>4, Zenon DEF Places
<1>6. kept \in Seq(1..seq)
  BY <1>1, <1>5, PlacesType
<1> HIDE DEF kept
<1>7. \A i \in DOMAIN kept : kept[i] \in 1..seq
  <2> DEFINE R == 1..seq
  <2> HIDE DEF R
  <2>1. kept \in Seq(R)
    BY <1>6 DEF R
  <2>2. \A i \in DOMAIN kept : kept[i] \in R
    BY <2>1
  <2> QED
    BY <2>2 DEF R
<1>8. ASSUME NEW h \in 1..Hidden PROVE terms(h) = Summands(m, rows[b], kept, h)
  <2>0. \A a \in 1..Len(rows), t \in 1..seq, k \in 1..Hidden :
           BatchStates(m, rows, seq)[((a - 1) * seq + t - 1) * Hidden + k] = State(m, rows[a], t)[k]
    BY BatchStatesAt
  <2>1. \A t \in 1..seq : BatchStates(m, rows, seq)[((b - 1) * seq + t - 1) * Hidden + h] = State(m, rows[b], t)[h]
    BY <2>0, Zenon
  <2>2. \A i \in DOMAIN kept : out.data[((b - 1) * seq + kept[i] - 1) * Hidden + h] = State(m, rows[b], kept[i])[h]
    BY <2>1, <1>7, Zenon
  <2> QED
    BY <2>2, Zenon DEF Summands
<1>9. \A h \in 1..Hidden : Sum(terms(h)) = Sum(Summands(m, rows[b], kept, h))
  BY <1>8, Zenon
<1> HIDE DEF terms
<1>10. Pool(out, mask, b) = MeanAt(m, rows[b], kept)
  BY <1>3, <1>9, Zenon DEF MeanAt
<1> QED
  BY <1>5, <1>10

LEMMA MeanType ==
    ASSUME NEW m \in DOMAIN Model, NEW row \in Seq(Token), NEW at \in Seq(1..Len(row))
    PROVE  MeanAt(m, row, at) \in Seq(Nat) /\ Len(MeanAt(m, row, at)) = Hidden
<1> DEFINE n == IF at = <<>> THEN 1 ELSE Len(at)
           v == MeanAt(m, row, at)
<1>1. Hidden \in Nat /\ Len(at) \in Nat /\ DOMAIN at = 1..Len(at) /\ n \in Nat \ {0}
  BY DEF Hidden
<1>2. ASSUME NEW h \in 1..Hidden PROVE Summands(m, row, at, h) \in Seq(Nat)
  <2> DEFINE s == Summands(m, row, at, h)
  <2>1. s = [i \in 1..Len(at) |-> s[i]] /\ \A i \in 1..Len(at) : s[i] = State(m, row, at[i])[h]
    BY <1>1, Zenon DEF Summands
  <2> HIDE DEF s
  <2>2. ASSUME NEW i \in 1..Len(at) PROVE s[i] \in Nat
    <3>1. at[i] \in 1..Len(row)
      BY <1>1
    <3>2. State(m, row, at[i]) \in Seq(Nat) /\ Len(State(m, row, at[i])) = Hidden
      BY <3>1, StateType
    <3>3. State(m, row, at[i])[h] \in Nat
      BY <3>2
    <3> QED
      BY <3>3, <2>1
  <2>3. s \in Seq(Nat)
    BY <1>1, <2>1, <2>2, TypeOfSeq
  <2> QED
    BY <2>3 DEF s
<1>3. v = [h \in 1..Hidden |-> v[h]] /\ \A h \in 1..Hidden : v[h] = Sum(Summands(m, row, at, h)) \div n
  BY Zenon DEF MeanAt
<1> HIDE DEF v, n
<1>4. ASSUME NEW h \in 1..Hidden PROVE v[h] \in Nat
  <2> DEFINE x == Sum(Summands(m, row, at, h))
  <2>1. x \in Nat
    BY <1>2, SumType
  <2>2. v[h] = x \div n
    BY <1>3
  <2> HIDE DEF x
  <2>3. x \div n \in Nat
    BY <2>1, <1>1, Division
  <2> QED
    BY <2>2, <2>3
<1>5. v \in Seq(Nat) /\ Len(v) = Hidden
  BY <1>1, <1>3, <1>4, TypeOfSeq
<1> QED
  BY <1>5 DEF v

\* Of a padded row only what was there before the padding counts.
LEMMA MeanPadded ==
    ASSUME NEW m \in DOMAIN Model, NEW row, NEW kept, Shows(row, kept)
    PROVE  MeanAt(m, row, Places(row))
               = [h \in 1..Hidden |-> Sum([t \in DOMAIN kept |-> State(m, kept, t)[h]])
                                          \div (IF kept = <<>> THEN 1 ELSE Len(kept))]
<1> DEFINE at == Places(row)
<1>1. at = [i \in 1..Len(kept) |-> i]
  BY KeptPlaces DEF Places
<1> HIDE DEF at
<1>2. Len(kept) \in Nat /\ DOMAIN kept = 1..Len(kept) /\ kept \in Seq(Visible)
  <2>1. kept \in Seq(Visible)
    BY DEF Shows
  <2> QED
    BY <2>1
<1>3. at \in Seq(Nat) /\ Len(at) = Len(kept) /\ DOMAIN at = 1..Len(kept)
  <2>1. at = [i \in 1..Len(kept) |-> at[i]] /\ \A i \in 1..Len(kept) : at[i] \in Nat
    BY <1>1, <1>2
  <2> QED
    BY <1>2, <2>1, TypeOfSeq
<1>4. (at = <<>>) <=> (kept = <<>>)
  BY <1>2, <1>3
<1>5. ASSUME NEW h \in 1..Hidden
      PROVE  Summands(m, row, at, h) = [t \in DOMAIN kept |-> State(m, kept, t)[h]]
  <2>1. \A t \in 1..Len(kept) : State(m, row, t) = State(m, kept, t)
    BY MaskedUnseen
  <2>2. \A t \in 1..Len(kept) : at[t] = t
    BY <1>1
  <2>3. \A t \in 1..Len(kept) : State(m, row, at[t])[h] = State(m, kept, t)[h]
    BY <2>1, <2>2, Zenon
  <2> QED
    BY <1>2, <1>3, <2>3, Zenon DEF Summands
<1> DEFINE n == IF kept = <<>> THEN 1 ELSE Len(kept)
<1>6. (IF at = <<>> THEN 1 ELSE Len(at)) = n
  BY <1>3, <1>4
<1> HIDE DEF n
<1>7. MeanAt(m, row, at) = [h \in 1..Hidden |-> Sum([t \in DOMAIN kept |-> State(m, kept, t)[h]]) \div n]
  <2>1. MeanAt(m, row, at) = [h \in 1..Hidden |-> Sum(Summands(m, row, at, h)) \div n]
    BY <1>6, Zenon DEF MeanAt
  <2> QED
    BY <2>1, <1>5, Zenon
<1> QED
  BY <1>7 DEF at, n

-----------------------------------------------------------------------------
\* Encoding.

\* Rows no longer, or no shorter, than w that fill as much as rows of w do.
Uneven(ss, w) ==
    /\ (\A i \in 1..Len(ss) : Len(ss[i]) <= w) =>
           Len(FlattenSeq(ss)) <= Len(ss) * w /\ (Len(FlattenSeq(ss)) = Len(ss) * w => OfWidth(ss, w))
    /\ (\A i \in 1..Len(ss) : Len(ss[i]) >= w) =>
           Len(FlattenSeq(ss)) >= Len(ss) * w /\ (Len(FlattenSeq(ss)) = Len(ss) * w => OfWidth(ss, w))

LEMMA EvenRows ==
    ASSUME NEW T, NEW w \in Nat
    PROVE  \A ss \in Seq(Seq(T)) : Uneven(ss, w)
<1> DEFINE P == {ss \in Seq(Seq(T)) : Uneven(ss, w)}
<1>1. <<>> \in P
  <2>1. FlattenSeq(<<>>) = <<>>
    BY FlattenNothing
  <2>2. Len(<<>>) = 0 /\ <<>> \in Seq(Seq(T)) /\ 0 * w = 0
    OBVIOUS
  <2> QED
    BY <2>1, <2>2 DEF Uneven, OfWidth
<1>2. ASSUME NEW ss \in Seq(Seq(T)), NEW x \in Seq(T), ss \in P PROVE Append(ss, x) \in P
  <2> DEFINE tt == Append(ss, x)
             a  == Len(FlattenSeq(ss))
             n  == Len(ss)
             k  == Len(x)
  <2>1. FlattenSeq(ss) \in Seq(T) /\ FlattenSeq(tt) = FlattenSeq(ss) \o x
    BY FlattenAppend
  <2>2. Len(FlattenSeq(tt)) = a + k /\ a \in Nat /\ k \in Nat
    BY <2>1, ConcatLength
  <2>3. tt \in Seq(Seq(T)) /\ Len(tt) = n + 1 /\ n \in Nat /\ tt[n + 1] = x /\ \A i \in 1..n : tt[i] = ss[i]
    BY AppendProperties
  <2>4. (n + 1) * w = n * w + w /\ n * w \in Nat
    BY <2>3
  <2>5. Uneven(ss, w)
    BY <1>2
  <2> DEFINE v == n * w
  <2> HIDE DEF tt, a, n, k, v
  <2>6. n + 1 \in 1..(n + 1) /\ \A i \in 1..n : i \in 1..(n + 1)
    BY <2>3
  <2>7. (OfWidth(ss, w) /\ k = w) => OfWidth(tt, w)
    <3>1. ASSUME OfWidth(ss, w), k = w, NEW i \in 1..(n + 1) PROVE Len(tt[i]) = w
      <4>1. CASE i = n + 1
        BY <4>1, <3>1, <2>3 DEF k
      <4>2. CASE i # n + 1
        <5>1. i \in 1..n
          BY <4>2, <2>3
        <5> QED
          BY <5>1, <3>1, <2>3 DEF OfWidth, n
      <4> QED
        BY <4>1, <4>2
    <3> QED
      BY <3>1, <2>3 DEF OfWidth
  <2>8. ASSUME \A i \in 1..Len(tt) : Len(tt[i]) <= w
        PROVE  Len(FlattenSeq(tt)) <= Len(tt) * w /\ (Len(FlattenSeq(tt)) = Len(tt) * w => OfWidth(tt, w))
    <3>1. k <= w /\ \A i \in 1..n : Len(ss[i]) <= w
      BY <2>8, <2>3, <2>6 DEF k
    <3>2. a <= v /\ (a = v => OfWidth(ss, w))
      BY <3>1, <2>5 DEF Uneven, a, n, v
    <3>3. Len(tt) * w = v + w /\ v \in Nat
      BY <2>3, <2>4 DEF v
    <3>4. a + k <= v + w /\ (a + k = v + w => a = v /\ k = w)
      BY <3>1, <3>2, <3>3, <2>2
    <3> QED
      BY <3>2, <3>3, <3>4, <2>2, <2>7
  <2>9. ASSUME \A i \in 1..Len(tt) : Len(tt[i]) >= w
        PROVE  Len(FlattenSeq(tt)) >= Len(tt) * w /\ (Len(FlattenSeq(tt)) = Len(tt) * w => OfWidth(tt, w))
    <3>1. k >= w /\ \A i \in 1..n : Len(ss[i]) >= w
      BY <2>9, <2>3, <2>6 DEF k
    <3>2. a >= v /\ (a = v => OfWidth(ss, w))
      BY <3>1, <2>5 DEF Uneven, a, n, v
    <3>3. Len(tt) * w = v + w /\ v \in Nat
      BY <2>3, <2>4 DEF v
    <3>4. a + k >= v + w /\ (a + k = v + w => a = v /\ k = w)
      BY <3>1, <3>2, <3>3, <2>2
    <3> QED
      BY <3>2, <3>3, <3>4, <2>2, <2>7
  <2>10. Uneven(tt, w)
    BY <2>8, <2>9 DEF Uneven
  <2> QED
    BY <2>3, <2>10 DEF tt
<1> HIDE DEF P
<1>3. \A ss \in Seq(Seq(T)) : ss \in P
  <2> DEFINE U == Seq(T)
  <2>1. \A s \in Seq(U), x \in U : s \in P => Append(s, x) \in P
    BY <1>2 DEF U
  <2> HIDE DEF U
  <2>2. \A s \in Seq(U) : s \in P
    BY <1>1, <2>1, SeqInduction
  <2> QED
    BY <2>2 DEF U
<1> QED
  BY <1>3 DEF P

LEMMA Longest ==
    ASSUME NEW n \in Nat \ {0}, NEW M \in Nat, NEW len, \A b \in 1..n : len[b] \in Nat /\ len[b] <= M
    PROVE  \E x \in {len[b] : b \in 1..n} : \A b \in 1..n : len[b] <= x
<1> DEFINE S == {M - len[b] : b \in 1..n}
<1>1. S \in SUBSET Nat
  <2>1. \A b \in 1..n : M - len[b] \in Nat
    OBVIOUS
  <2> QED
    BY <2>1
<1>2. M - len[1] \in S
  <2>1. 1 \in 1..n
    OBVIOUS
  <2> QED
    BY <2>1
<1>3. \A b \in 1..n : M - len[b] \in S
  OBVIOUS
<1>4. \A y \in S : \E b \in 1..n : y = M - len[b]
  OBVIOUS
<1> HIDE DEF S
<1>5. S # {}
  BY <1>2
<1>6. PICK y \in S : \A z \in S : y <= z
  BY <1>1, <1>5, LeastNumber
<1>7. PICK b \in 1..n : y = M - len[b]
  BY <1>4
<1>8. \A a \in 1..n : len[a] <= len[b]
  <2>1. ASSUME NEW a \in 1..n PROVE len[a] <= len[b]
    <3>1. M - len[b] <= M - len[a]
      BY <1>3, <1>6, <1>7
    <3> QED
      BY <3>1
  <2> QED
    BY <2>1
<1> QED
  BY <1>8

Texts(m, items) ==
    /\ m \in DOMAIN Model /\ items # <<>>
    /\ \/ Model[m].kind = "embedding" /\ items \in Seq(TextItem)
       \/ Model[m].kind = "rerank" /\ items \in Seq(PairItem)

\* Fixed padding shorter than what a text may be cut to, by one or by more.
ShortPadding(m, d) == Model[m].padding \in 0..(MaxTokens(m) - d)

Encoded(m, items, enc) ==
    /\ Len(items) \in Nat \ {0} /\ enc \in Seq(Seq(Token)) /\ Len(enc) = Len(items)
    /\ \A b \in 1..Len(items) : Shows(enc[b], Truncated(m, items[b]))
    /\ ~ShortPadding(m, 1) => OfWidth(enc, Len(enc[1]))
    /\ ~ShortPadding(m, 2) /\ Len(FlattenSeq(enc)) = Len(enc) * Len(enc[1]) => OfWidth(enc, Len(enc[1]))

LEMMA TextsType ==
    ASSUME NEW m, NEW items, Texts(m, items)
    PROVE  /\ Len(items) \in Nat \ {0} /\ DOMAIN items = 1..Len(items)
           /\ \A b \in 1..Len(items) : Textual(m, items[b])
<1>1. CASE Model[m].kind = "embedding" /\ items \in Seq(TextItem)
  <2>1. Len(items) \in Nat \ {0} /\ DOMAIN items = 1..Len(items) /\ \A b \in 1..Len(items) : items[b] \in TextItem
    BY <1>1 DEF Texts
  <2> QED
    BY <1>1, <2>1 DEF Texts, Textual
<1>2. CASE Model[m].kind = "rerank" /\ items \in Seq(PairItem)
  <2>1. Len(items) \in Nat \ {0} /\ DOMAIN items = 1..Len(items) /\ \A b \in 1..Len(items) : items[b] \in PairItem
    BY <1>2 DEF Texts
  <2> QED
    BY <1>2, <2>1 DEF Texts, Textual
<1> QED
  BY <1>1, <1>2 DEF Texts

LEMMA EncodedBatch ==
    ASSUME NEW m, NEW items, Texts(m, items)
    PROVE  Encoded(m, items, EncodeBatch(m, items))
<1> DEFINE n     == Len(items)
           M     == MaxTokens(m)
           pad   == Model[m].padding
           rows  == [b \in DOMAIN items |-> Truncated(m, items[b])]
           long  == CHOOSE k \in {Len(rows[b]) : b \in DOMAIN rows} : \A b \in DOMAIN rows : Len(rows[b]) <= k
           width == IF pad = None THEN long ELSE pad
           enc   == EncodeBatch(m, items)
<1>1. n \in Nat \ {0} /\ DOMAIN items = 1..n /\ \A b \in 1..n : Textual(m, items[b])
  BY TextsType
<1>2. m \in DOMAIN Model
  BY DEF Texts
<1>3. M \in Nat /\ pad \in Nat \cup {None}
  BY <1>2, MaxTokensType, ModelAssumption
<1>4. enc = [b \in DOMAIN rows |-> Padded(rows[b], width)]
  BY Zenon DEF EncodeBatch, Rectangle
<1>5. DOMAIN rows = 1..n /\ \A b \in 1..n : rows[b] = Truncated(m, items[b])
  BY <1>1
<1> HIDE DEF rows, M, n, pad
<1>6. \A b \in 1..n : rows[b] \in Seq(Visible) /\ Len(rows[b]) \in Nat /\ Len(rows[b]) <= M
  BY <1>1, <1>5, TruncatedType DEF M
<1>7. long \in {Len(rows[b]) : b \in 1..n} /\ \A b \in 1..n : Len(rows[b]) <= long
  <2> DEFINE len == [b \in 1..n |-> Len(rows[b])]
  <2>1. \A b \in 1..n : len[b] \in Nat /\ len[b] <= M
    BY <1>6
  <2>2. \A b \in 1..n : len[b] = Len(rows[b])
    OBVIOUS
  <2> HIDE DEF len
  <2>3. \E x \in {len[b] : b \in 1..n} : \A b \in 1..n : len[b] <= x
    BY <1>1, <1>3, <2>1, Longest
  <2>4. \E x \in {Len(rows[b]) : b \in 1..n} : \A b \in 1..n : Len(rows[b]) <= x
    BY <2>2, <2>3
  <2>5. \E x \in {Len(rows[b]) : b \in DOMAIN rows} : \A b \in DOMAIN rows : Len(rows[b]) <= x
    BY <2>4, <1>5
  <2>6. long \in {Len(rows[b]) : b \in DOMAIN rows} /\ \A b \in DOMAIN rows : Len(rows[b]) <= long
    BY <2>5, Zenon
  <2> HIDE DEF long
  <2> QED
    BY <2>6, <1>5
<1> HIDE DEF long
<1>8. long \in Nat
  BY <1>6, <1>7
<1>9. width \in Nat
  BY <1>3, <1>8
<1>10. enc = [b \in 1..n |-> enc[b]] /\ \A b \in 1..n : enc[b] = Padded(rows[b], width)
  BY <1>4, <1>5, Zenon
<1> HIDE DEF enc, width
<1>11. \A b \in 1..n : /\ Shows(enc[b], rows[b])
                       /\ Len(enc[b]) = IF Len(rows[b]) < width THEN width ELSE Len(rows[b])
  BY <1>6, <1>9, <1>10, PaddedShows
<1>12. enc \in Seq(Seq(Token)) /\ Len(enc) = n
  <2>1. \A b \in 1..n : enc[b] \in Seq(Token)
    BY <1>11 DEF Shows
  <2> QED
    BY <1>1, <1>10, <2>1, TypeOfSeq
<1> DEFINE w == Len(enc[1])
<1>13. 1 \in 1..n
  BY <1>1
<1>14. w = IF Len(rows[1]) < width THEN width ELSE Len(rows[1])
  BY <1>11, <1>13
<1> HIDE DEF w
<1>15. ASSUME ~ShortPadding(m, 1) PROVE OfWidth(enc, w)
  <2>1. pad \notin 0..(M - 1)
    BY <1>15 DEF ShortPadding, M, pad
  <2>2. \A b \in 1..n : Len(rows[b]) <= width
    BY <2>1, <1>3, <1>6, <1>7 DEF width
  <2>3. \A b \in 1..n : Len(enc[b]) = width
    BY <2>2, <1>6, <1>9, <1>11
  <2> QED
    BY <2>3, <1>12, <1>13 DEF OfWidth, w
<1>16. ASSUME ~ShortPadding(m, 2), Len(FlattenSeq(enc)) = Len(enc) * w PROVE OfWidth(enc, w)
  <2>1. pad \notin 0..(M - 2)
    BY <1>16 DEF ShortPadding, M, pad
  <2>2. \A b \in 1..n : Len(rows[b]) <= width + 1
    BY <2>1, <1>3, <1>6, <1>7, <1>8 DEF width
  <2>3. \A b \in 1..n : Len(enc[b]) \in {width, width + 1}
    BY <2>2, <1>6, <1>9, <1>11
  <2>4. w \in {width, width + 1}
    BY <2>3, <1>13 DEF w
  <2>5. w \in Nat
    BY <2>4, <1>9
  <2>6. Uneven(enc, w)
    BY <1>12, <2>5, EvenRows
  <2>7. CASE w = width
    <3>1. \A b \in 1..Len(enc) : Len(enc[b]) >= w
      BY <2>7, <2>3, <1>9, <1>12
    <3> QED
      BY <3>1, <2>6, <1>16 DEF Uneven
  <2>8. CASE w = width + 1
    <3>1. \A b \in 1..Len(enc) : Len(enc[b]) <= w
      BY <2>8, <2>3, <1>9, <1>12
    <3> QED
      BY <3>1, <2>6, <1>16 DEF Uneven
  <2> QED
    BY <2>4, <2>7, <2>8
<1>17. \A b \in 1..n : Shows(enc[b], Truncated(m, items[b]))
  BY <1>5, <1>11
<1> QED
  BY <1>1, <1>12, <1>15, <1>16, <1>17 DEF Encoded, n, w, enc

CutRows(flat, n, seq) == [b \in 1..n |-> SubSeq(flat, (b - 1) * seq + 1, b * seq)]

LEMMA CutRowsMatrix ==
    ASSUME NEW flat \in Seq(Token), NEW n \in Nat \ {0}, NEW seq \in Nat, Len(flat) = n * seq
    PROVE  /\ CutRows(flat, n, seq) \in Matrices(seq) /\ Len(CutRows(flat, n, seq)) = n
           /\ \A b \in 1..n, t \in 1..seq : /\ (b - 1) * seq + t \in 1..Len(flat)
                                            /\ CutRows(flat, n, seq)[b][t] = flat[(b - 1) * seq + t]
<1> DEFINE rows == CutRows(flat, n, seq)
<1>1. rows = [b \in 1..n |-> rows[b]] /\ \A b \in 1..n : rows[b] = SubSeq(flat, (b - 1) * seq + 1, b * seq)
  BY Zenon DEF CutRows
<1> HIDE DEF rows
<1>2. ASSUME NEW b \in 1..n
      PROVE  /\ rows[b] \in Seq(Token) /\ Len(rows[b]) = seq
             /\ \A t \in 1..seq : (b - 1) * seq + t \in 1..Len(flat) /\ rows[b][t] = flat[(b - 1) * seq + t]
  <2> DEFINE x == (b - 1) * seq
             y == n * seq
  <2>1. b \in Nat /\ b - 1 \in Nat
    OBVIOUS
  <2>2. x \in Nat /\ y \in Nat /\ b * seq = x + seq
    BY <2>1
  <2>3. b * seq <= y
    <3>1. seq * b <= seq * n
      BY <2>1, TimesMonotonic
    <3>2. seq * b = b * seq /\ seq * n = n * seq
      BY <2>1
    <3> QED
      BY <3>1, <3>2
  <2>4. rows[b] = SubSeq(flat, x + 1, x + seq)
    BY <1>1, <2>2
  <2>5. Len(flat) = y
    OBVIOUS
  <2> HIDE DEF x, y
  <2>6. x + seq <= Len(flat)
    BY <2>2, <2>3, <2>5
  <2>7. SubSeq(flat, x + 1, x + seq) \in Seq(Token) /\ Len(SubSeq(flat, x + 1, x + seq)) = seq
    BY <2>2, <2>6
  <2>8. ASSUME NEW t \in 1..seq PROVE x + t \in 1..Len(flat) /\ SubSeq(flat, x + 1, x + seq)[t] = flat[x + t]
    BY <2>2, <2>6
  <2> QED
    BY <2>4, <2>7, <2>8 DEF x
<1>3. rows \in Seq(Seq(Token)) /\ Len(rows) = n
  BY <1>1, <1>2, TypeOfSeq
<1>4. rows \in Matrices(seq)
  BY <1>2, <1>3 DEF Matrices, OfWidth
<1> QED
  BY <1>2, <1>3, <1>4 DEF rows

LEMMA CutRowsOfRows ==
    ASSUME NEW enc \in Seq(Seq(Token)), NEW seq \in Nat, OfWidth(enc, seq)
    PROVE  CutRows(FlattenSeq(enc), Len(enc), seq) = enc
<1>1. Len(enc) \in Nat /\ enc = [b \in 1..Len(enc) |-> enc[b]]
  OBVIOUS
<1>2. \A b \in 1..Len(enc) : SubSeq(FlattenSeq(enc), (b - 1) * seq + 1, b * seq) = enc[b]
  <2>1. ASSUME NEW b \in 1..Len(enc) PROVE SubSeq(FlattenSeq(enc), (b - 1) * seq + 1, b * seq) = enc[b]
    <3>1. RowStands(enc, seq, b)
      BY FlattenRow
    <3> QED
      BY <3>1 DEF RowStands
  <2> QED
    BY <2>1
<1> QED
  BY <1>1, <1>2, Zenon DEF CutRows

\* The rows a session is given for a batch.
Given(m, items, enc, rows) ==
    /\ rows \in Matrices(Len(enc[1])) /\ Len(rows) = Len(items)
    /\ \A b \in 1..Len(items), t \in 1..Len(enc[1]) :
          Mask(enc)[(b - 1) * Len(enc[1]) + t] = rows[b][t].mask
    /\ ~ShortPadding(m, 2) => \A b \in 1..Len(items) : Shows(rows[b], Truncated(m, items[b]))

LEMMA RunReturns ==
    ASSUME NEW m, NEW items, NEW enc, Encoded(m, items, enc)
    PROVE  \/ Run(m, enc) = Failed /\ ShortPadding(m, 1)
           \/ \E rows : Given(m, items, enc, rows) /\ Run(m, enc) = Session(m, rows)
<1> DEFINE n    == Len(enc)
           seq  == Len(enc[1])
           flat == FlattenSeq(enc)
           rows == CutRows(flat, n, seq)
<1>1. n = Len(items) /\ n \in Nat \ {0} /\ enc \in Seq(Seq(Token)) /\ 1 \in 1..n
  BY DEF Encoded
<1>2. seq \in Nat
  <2>1. enc[1] \in Seq(Token)
    BY <1>1
  <2> QED
    BY <2>1
<1>3. flat \in Seq(Token) /\ Len(flat) \in Nat
  BY <1>1, FlattenType
<1>4. Run(m, enc) = IF Len(flat) # n * seq THEN Failed ELSE Session(m, rows)
  BY Zenon DEF Run, Shaped, CutRows
<1>5. Mask(enc) = [i \in DOMAIN flat |-> flat[i].mask]
  BY Zenon DEF Mask
<1> HIDE DEF n, seq, flat, rows
<1>6. CASE Len(flat) # n * seq
  <2>1. ~OfWidth(enc, seq)
    <3>1. OfWidth(enc, seq) => Len(FlattenSeq(enc)) = Len(enc) * seq
      BY <1>1, <1>2, FlattenEqualLength, Zenon
    <3> QED
      BY <3>1, <1>6 DEF flat, n
  <2>2. ShortPadding(m, 1)
    BY <2>1 DEF Encoded, seq
  <2> QED
    BY <2>2, <1>4, <1>6
<1>7. CASE Len(flat) = n * seq
  <2>1. /\ rows \in Matrices(seq) /\ Len(rows) = n
        /\ \A b \in 1..n, t \in 1..seq : /\ (b - 1) * seq + t \in 1..Len(flat)
                                         /\ rows[b][t] = flat[(b - 1) * seq + t]
    BY <1>1, <1>2, <1>3, <1>7, CutRowsMatrix, Zenon DEF rows
  <2>2. \A i \in 1..Len(flat) : Mask(enc)[i] = flat[i].mask
    BY <1>3, <1>5
  <2>3. \A b \in 1..n, t \in 1..seq : Mask(enc)[(b - 1) * seq + t] = rows[b][t].mask
    BY <2>1, <2>2, Zenon
  <2>4. ASSUME ~ShortPadding(m, 2) PROVE \A b \in 1..n : Shows(rows[b], Truncated(m, items[b]))
    <3>1. OfWidth(enc, seq)
      BY <2>4, <1>7 DEF Encoded, flat, n, seq
    <3>2. rows = enc
      BY <3>1, <1>1, <1>2, CutRowsOfRows DEF rows, flat, n
    <3> QED
      BY <3>2, <1>1 DEF Encoded
  <2>5. Given(m, items, enc, rows)
    BY <1>1, <2>1, <2>3, <2>4, Zenon DEF Given, seq
  <2> QED
    BY <2>5, <1>4, <1>7
<1> QED
  BY <1>6, <1>7

-----------------------------------------------------------------------------
\* The engines.

Vectors(out, n) == out \in Seq(Seq(Nat)) /\ Len(out) = n /\ OfWidth(out, Hidden)

AllAlone(m, items) == [b \in DOMAIN items |-> Alone(m, items[b])]

LEMMA NotFailed ==
    /\ \A s \in Seq(Nat), d \in Seq(Nat) : [shape |-> s, data |-> d] # Failed
    /\ \A s \in Seq(Nat) : s # Failed
    /\ \A s \in Seq(Seq(Nat)) : s # Failed
BY EngineAssumption

LEMMA EmbedReturns ==
    ASSUME NEW m, NEW items, Texts(m, items), Model[m].kind = "embedding"
    PROVE  \/ /\ Embed(m, items) = Failed
              /\ ShortPadding(m, 1) \/ Model[m].output # "states"
           \/ /\ Model[m].output = "states" /\ Vectors(Embed(m, items), Len(items))
              /\ ~ShortPadding(m, 2) => Embed(m, items) = AllAlone(m, items)
<1> DEFINE enc == EncodeBatch(m, items)
           n   == Len(items)
           run == Run(m, enc)
           out == Embed(m, items)
<1>1. Encoded(m, items, enc)
  BY EncodedBatch
<1>2. n \in Nat \ {0} /\ DOMAIN items = 1..n /\ m \in DOMAIN Model
  BY TextsType DEF Texts
<1>3. out = Pooled(run, Mask(enc))
  BY Zenon DEF Embed, EmbedEncoded
<1> HIDE DEF enc, n, run, out
<1>4. CASE run = Failed /\ ShortPadding(m, 1)
  <2>1. out = Failed
    BY <1>3, <1>4 DEF Pooled
  <2> QED
    BY <2>1, <1>4 DEF out
<1>5. ASSUME NEW rows, Given(m, items, enc, rows), run = Session(m, rows)
      PROVE  \/ out = Failed /\ Model[m].output # "states"
             \/ /\ Model[m].output = "states" /\ Vectors(out, n)
                /\ ~ShortPadding(m, 2) => out = AllAlone(m, items)
  <2> DEFINE seq == Len(enc[1])
             ls  == BatchLogits(m, rows)
             st  == BatchStates(m, rows, seq)
             o   == Model[m].output
  <2>1. rows \in Matrices(seq) /\ Len(rows) = n
    BY <1>5 DEF Given, n
  <2>2. seq \in Nat /\ \A b \in 1..n : rows[b] \in Seq(Token) /\ Len(rows[b]) = seq
    BY <2>1, MatrixType
  <2>3. Model[m].kind # "tabular"
    OBVIOUS
  <2>4. /\ o \in {"states", "logits", "column", "two", "static"}
        /\ o = "states" => run = [shape |-> <<n, seq, Hidden>>, data |-> st]
        /\ o = "logits" => run = [shape |-> <<n>>, data |-> ls]
        /\ o = "column" => run = [shape |-> <<n, 1>>, data |-> ls]
        /\ o = "two"    => run = [shape |-> <<n, 2>>, data |-> ls \o ls]
        /\ o = "static" => run = IF n = 1 THEN [shape |-> <<1>>, data |-> ls] ELSE Failed
    <3>1. LET k == Len(rows)
          IN  /\ o \in {"states", "logits", "column", "two", "static"}
              /\ o = "states" => Session(m, rows) = [shape |-> <<k, seq, Hidden>>, data |-> BatchStates(m, rows, seq)]
              /\ o = "logits" => Session(m, rows) = [shape |-> <<k>>, data |-> ls]
              /\ o = "column" => Session(m, rows) = [shape |-> <<k, 1>>, data |-> ls]
              /\ o = "two"    => Session(m, rows) = [shape |-> <<k, 2>>, data |-> ls \o ls]
              /\ o = "static" => Session(m, rows) = IF k = 1 THEN [shape |-> <<1>>, data |-> ls] ELSE Failed
      <4> HIDE DEF seq
      <4> QED
        BY <1>2, <2>1, <2>3, SessionReturns
    <3> HIDE DEF seq, ls
    <3> QED
      BY <3>1, <2>1, <1>5 DEF st
  <2>5. st \in Seq(Nat)
    BY <1>2, <2>1, BatchStatesAt
  <2> HIDE DEF seq, ls, st, o
  <2>6. CASE o # "states"
    <3>1. run = Failed \/ Len(run.shape) # 3
      <4>1. Len(<<n>>) = 1 /\ Len(<<n, 1>>) = 2 /\ Len(<<n, 2>>) = 2 /\ Len(<<1>>) = 1
        OBVIOUS
      <4>2. run = Failed \/ run.shape \in {<<n>>, <<n, 1>>, <<n, 2>>, <<1>>}
        BY <2>4, <2>6
      <4> QED
        BY <4>1, <4>2
    <3>2. out = Failed
      BY <3>1, <1>3 DEF Pooled
    <3> QED
      BY <3>2, <2>6 DEF o
  <2>7. CASE o = "states"
    <3>1. run = [shape |-> <<n, seq, Hidden>>, data |-> st]
      BY <2>4, <2>7
    <3>2. <<n, seq, Hidden>> \in Seq(Nat) /\ Len(<<n, seq, Hidden>>) = 3 /\ <<n, seq, Hidden>>[1] = n
      BY <1>2, <2>2 DEF Hidden
    <3>3. run # Failed
      BY <3>1, <3>2, <2>5, NotFailed
    <3>4. run.shape = <<n, seq, Hidden>> /\ run.data = st
      BY <3>1
    <3>5. run.shape[1] = n /\ Len(run.shape) = 3
      BY <3>4, <3>2, Zenon
    <3>6. out = [b \in 1..n |-> Pool(run, Mask(enc), b)]
      BY <1>3, <3>3, <3>5 DEF Pooled
    <3>7. ASSUME NEW b \in 1..n PROVE Pool(run, Mask(enc), b) = MeanAt(m, rows[b], Places(rows[b]))
      <4>1. \A t \in 1..seq : Mask(enc)[(b - 1) * seq + t] = rows[b][t].mask
        BY <1>5, Zenon DEF Given, seq, n
      <4>2. run.shape = <<Len(rows), seq, Hidden>> /\ run.data = BatchStates(m, rows, seq)
        BY <3>4, <2>1 DEF st
      <4>3. b \in 1..Len(rows)
        BY <2>1
      <4> QED
        BY <4>1, <4>2, <4>3, <2>1, <1>2, PoolMeans
    <3>8. out = [b \in 1..n |-> out[b]] /\ \A b \in 1..n : out[b] = MeanAt(m, rows[b], Places(rows[b]))
      BY <3>6, <3>7
    <3>9. \A b \in 1..n : out[b] \in Seq(Nat) /\ Len(out[b]) = Hidden
      <4>1. ASSUME NEW b \in 1..n PROVE out[b] \in Seq(Nat) /\ Len(out[b]) = Hidden
        <5>1. rows[b] \in Seq(Token)
          BY <2>2
        <5>2. Places(rows[b]) \in Seq(1..Len(rows[b]))
          BY <5>1, PlacesType
        <5>3. MeanAt(m, rows[b], Places(rows[b])) \in Seq(Nat) /\ Len(MeanAt(m, rows[b], Places(rows[b]))) = Hidden
          BY <5>1, <5>2, <1>2, MeanType
        <5> QED
          BY <5>3, <3>8
      <4> QED
        BY <4>1
    <3>10. out \in Seq(Seq(Nat)) /\ Len(out) = n
      BY <3>8, <3>9, <1>2, TypeOfSeq
    <3>11. Vectors(out, n)
      BY <3>9, <3>10 DEF Vectors, OfWidth
    <3>12. ASSUME ~ShortPadding(m, 2) PROVE out = AllAlone(m, items)
      <4>1. ASSUME NEW b \in 1..n PROVE out[b] = Alone(m, items[b])
        <5> DEFINE kept == Truncated(m, items[b])
        <5>1. Shows(rows[b], kept)
          BY <1>5, <3>12 DEF Given, n
        <5>2. Alone(m, items[b]) = [h \in 1..Hidden |-> Sum([t \in DOMAIN kept |-> State(m, kept, t)[h]])
                                                           \div (IF kept = <<>> THEN 1 ELSE Len(kept))]
          <6>1. Model[m].kind \notin {"stub", "tabular"}
            OBVIOUS
          <6> QED
            BY <6>1 DEF Alone
        <5> HIDE DEF kept
        <5>3. MeanAt(m, rows[b], Places(rows[b]))
               = [h \in 1..Hidden |-> Sum([t \in DOMAIN kept |-> State(m, kept, t)[h]])
                                          \div (IF kept = <<>> THEN 1 ELSE Len(kept))]
          BY <5>1, <1>2, MeanPadded
        <5> QED
          BY <5>2, <5>3, <3>8
      <4> QED
        BY <4>1, <3>8, <1>2, Zenon DEF AllAlone
    <3> QED
      BY <2>7, <3>11, <3>12 DEF o
  <2> QED
    BY <2>6, <2>7
<1> QED
  <2>1. \/ run = Failed /\ ShortPadding(m, 1)
        \/ \E rows : Given(m, items, enc, rows) /\ run = Session(m, rows)
    BY <1>1, RunReturns DEF run
  <2> QED
    BY <2>1, <1>4, <1>5 DEF out, n

LEMMA ScoresReturn ==
    ASSUME NEW m, NEW items, Texts(m, items), Model[m].kind = "rerank"
    PROVE  \/ /\ ScorePairs(m, items) = Failed
              /\ \/ ShortPadding(m, 1) \/ Model[m].output \in {"states", "two"}
                 \/ Model[m].output = "static" /\ Len(items) # 1
           \/ /\ Model[m].output \notin {"states", "two"}
              /\ ScorePairs(m, items) \in Seq(Nat) /\ Len(ScorePairs(m, items)) = Len(items)
              /\ ~ShortPadding(m, 2) => ScorePairs(m, items) = AllAlone(m, items)
<1> DEFINE enc == EncodeBatch(m, items)
           n   == Len(items)
           run == Run(m, enc)
           out == ScorePairs(m, items)
<1>1. Encoded(m, items, enc)
  BY EncodedBatch
<1>2. n \in Nat \ {0} /\ DOMAIN items = 1..n /\ m \in DOMAIN Model
  BY TextsType DEF Texts
<1>3. out = Scores(run, n)
  BY Zenon DEF ScorePairs
<1> HIDE DEF enc, n, run, out
<1>4. CASE run = Failed /\ ShortPadding(m, 1)
  <2>1. out = Failed
    BY <1>3, <1>4 DEF Scores
  <2> QED
    BY <2>1, <1>4 DEF out
<1>5. ASSUME NEW rows, Given(m, items, enc, rows), run = Session(m, rows)
      PROVE  \/ /\ out = Failed
                /\ \/ Model[m].output \in {"states", "two"}
                   \/ Model[m].output = "static" /\ n # 1
             \/ /\ Model[m].output \notin {"states", "two"}
                /\ out \in Seq(Nat) /\ Len(out) = n
                /\ ~ShortPadding(m, 2) => out = AllAlone(m, items)
  <2> DEFINE seq == Len(enc[1])
             ls  == BatchLogits(m, rows)
             st  == BatchStates(m, rows, seq)
             o   == Model[m].output
  <2>1. rows \in Matrices(seq) /\ Len(rows) = n
    BY <1>5 DEF Given, n
  <2>2. seq \in Nat /\ \A b \in 1..n : rows[b] \in Seq(Token) /\ Len(rows[b]) = seq
    BY <2>1, MatrixType
  <2>3. Model[m].kind # "tabular"
    OBVIOUS
  <2>4. /\ o \in {"states", "logits", "column", "two", "static"}
        /\ o = "states" => run = [shape |-> <<n, seq, Hidden>>, data |-> st]
        /\ o = "logits" => run = [shape |-> <<n>>, data |-> ls]
        /\ o = "column" => run = [shape |-> <<n, 1>>, data |-> ls]
        /\ o = "two"    => run = [shape |-> <<n, 2>>, data |-> ls \o ls]
        /\ o = "static" => run = IF n = 1 THEN [shape |-> <<1>>, data |-> ls] ELSE Failed
    <3>1. LET k == Len(rows)
          IN  /\ o \in {"states", "logits", "column", "two", "static"}
              /\ o = "states" => Session(m, rows) = [shape |-> <<k, seq, Hidden>>, data |-> BatchStates(m, rows, seq)]
              /\ o = "logits" => Session(m, rows) = [shape |-> <<k>>, data |-> ls]
              /\ o = "column" => Session(m, rows) = [shape |-> <<k, 1>>, data |-> ls]
              /\ o = "two"    => Session(m, rows) = [shape |-> <<k, 2>>, data |-> ls \o ls]
              /\ o = "static" => Session(m, rows) = IF k = 1 THEN [shape |-> <<1>>, data |-> ls] ELSE Failed
      <4> HIDE DEF seq
      <4> QED
        BY <1>2, <2>1, <2>3, SessionReturns
    <3> HIDE DEF seq, ls
    <3> QED
      BY <3>1, <2>1, <1>5 DEF st
  <2>5. ls \in Seq(Nat) /\ Len(ls) = n /\ ls = [b \in 1..n |-> Logit(m, rows[b])]
    <3>1. /\ ls \in Seq(Nat) /\ Len(ls) = Len(rows)
          /\ ls = [b \in 1..Len(rows) |-> Logit(m, rows[b])]
      BY <1>2, <2>1, BatchLogitsType
    <3> HIDE DEF ls
    <3> QED
      BY <3>1, <2>1
  <2> HIDE DEF seq, ls, st, o
  <2>6. out = IF run # Failed /\ run.shape \in {<<n>>, <<n, 1>>} THEN run.data ELSE Failed
    BY <1>3 DEF Scores
  <2>7. CASE o = "states"
    <3>1. run.shape = <<n, seq, Hidden>>
      BY <2>4, <2>7
    <3>2. Len(<<n, seq, Hidden>>) = 3 /\ Len(<<n>>) = 1 /\ Len(<<n, 1>>) = 2
      OBVIOUS
    <3>3. run.shape \notin {<<n>>, <<n, 1>>}
      BY <3>1, <3>2
    <3>4. out = Failed
      BY <3>3, <2>6, Zenon
    <3>5. Model[m].output = "states"
      BY <2>7 DEF o
    <3> QED
      BY <3>4, <3>5
  <2>8. CASE o = "two"
    <3>1. run.shape = <<n, 2>>
      BY <2>4, <2>8
    <3>2. Len(<<n, 2>>) = 2 /\ Len(<<n>>) = 1 /\ <<n, 2>>[2] = 2 /\ <<n, 1>>[2] = 1
      OBVIOUS
    <3>3. run.shape \notin {<<n>>, <<n, 1>>}
      BY <3>1, <3>2
    <3>4. out = Failed
      BY <3>3, <2>6, Zenon
    <3>5. Model[m].output = "two"
      BY <2>8 DEF o
    <3> QED
      BY <3>4, <3>5
  <2>9. CASE o = "static" /\ n # 1
    BY <2>4, <2>6, <2>9 DEF o
  <2>10. CASE o \in {"logits", "column"} \/ (o = "static" /\ n = 1)
    <3>1. \/ run = [shape |-> <<n>>, data |-> ls]
          \/ run = [shape |-> <<n, 1>>, data |-> ls]
      BY <2>4, <2>10
    <3>2. <<n>> \in Seq(Nat) /\ <<n, 1>> \in Seq(Nat)
      BY <1>2
    <3>3. run # Failed
      BY <3>1, <3>2, <2>5, NotFailed
    <3>4. run.data = ls /\ run.shape \in {<<n>>, <<n, 1>>}
      BY <3>1
    <3>5. out = ls
      BY <2>6, <3>3, <3>4
    <3>6. ASSUME ~ShortPadding(m, 2) PROVE ls = AllAlone(m, items)
      <4>1. ASSUME NEW b \in 1..n PROVE Logit(m, rows[b]) = Alone(m, items[b])
        <5>1. Shows(rows[b], Truncated(m, items[b]))
          BY <1>5, <3>6 DEF Given, n
        <5>2. Logit(m, rows[b]) = Logit(m, Truncated(m, items[b]))
          BY <5>1, MaskedUnseen
        <5> QED
          BY <5>2 DEF Alone
      <4> QED
        BY <4>1, <2>5, <1>2, Zenon DEF AllAlone
    <3>7. o \notin {"states", "two"}
      BY <2>10
    <3> QED
      BY <3>5, <3>6, <3>7, <2>5 DEF o
  <2> QED
    BY <2>4, <2>7, <2>8, <2>9, <2>10
<1> QED
  <2>1. \/ run = Failed /\ ShortPadding(m, 1)
        \/ \E rows : Given(m, items, enc, rows) /\ run = Session(m, rows)
    BY <1>1, RunReturns DEF run
  <2> QED
    BY <2>1, <1>4, <1>5 DEF out, n

LEMMA TreeScoreType ==
    ASSUME NEW v \in Seq(Nat)
    PROVE  TreeScore(v) \in 0..(FloatMod - 1)
<1> DEFINE s == [i \in DOMAIN v |-> i * v[i]]
<1>1. Len(v) \in Nat /\ DOMAIN v = 1..Len(v)
  OBVIOUS
<1>2. s = [i \in 1..Len(v) |-> s[i]] /\ \A i \in 1..Len(v) : s[i] = i * v[i]
  BY <1>1
<1>3. TreeScore(v) = Sum(s) % FloatMod
  BY DEF TreeScore
<1> HIDE DEF s
<1>4. \A i \in 1..Len(v) : s[i] \in Nat
  <2>1. \A x, y \in Nat : x * y \in Nat
    OBVIOUS
  <2>2. \A i \in 1..Len(v) : i \in Nat /\ v[i] \in Nat
    BY <1>1
  <2> QED
    BY <1>2, <2>1, <2>2
<1>5. s \in Seq(Nat)
  BY <1>1, <1>2, <1>4, TypeOfSeq
<1> DEFINE x == Sum(s)
<1>6. x \in Nat
  BY <1>5, SumType
<1>7. TreeScore(v) = x % FloatMod
  BY <1>3
<1> HIDE DEF x
<1>8. x % FloatMod \in 0..(FloatMod - 1)
  BY <1>6, EngineAssumption, Division
<1> QED
  BY <1>7, <1>8

LEMMA EvaluateReturns ==
    ASSUME NEW m \in DOMAIN Model, Model[m].kind = "tabular", Model[m].features > 0,
           NEW items \in Seq(Seq(Nat)), OfWidth(items, Model[m].features)
    PROVE  LET out == Evaluate(m, FlattenSeq(items))
           IN  IF Model[m].output # "column" THEN out = Failed
               ELSE out = AllAlone(m, items) /\ out \in Seq(Nat) /\ Len(out) = Len(items)
<1> DEFINE n     == Model[m].features
           k     == Len(items)
           flat  == FlattenSeq(items)
           batch == Len(flat) \div n
           rows  == [b \in 1..batch |-> SubSeq(flat, (b - 1) * n + 1, b * n)]
           score == [b \in 1..batch |-> TreeScore(rows[b])]
           out   == Evaluate(m, flat)
<1>1. n \in Nat \ {0} /\ Model[m].output \in {"column", "two"}
  BY ModelAssumption
<1>2. k \in Nat /\ DOMAIN items = 1..k
  OBVIOUS
<1>3. flat \in Seq(Nat) /\ Len(flat) = k * n
  <2>1. flat \in Seq(Nat)
    BY FlattenType
  <2>2. Len(flat) = k * n
    BY <1>1, FlattenEqualLength
  <2> QED
    BY <2>1, <2>2
<1>4. (k * n) \div n = k /\ (k * n) % n = 0
  <2> DEFINE x == n
  <2>0. x \in Nat \ {0}
    BY <1>1
  <2> HIDE DEF x
  <2> DEFINE r == 0
  <2>3. r \in Nat /\ r < x
    BY <2>0
  <2> HIDE DEF r, k
  <2>4. (x * k + r) % x = r /\ (x * k + r) \div x = k
    BY <1>2, <2>0, <2>3, DivisionTells
  <2>1. (x * k + 0) % x = 0 /\ (x * k + 0) \div x = k
    BY <2>4 DEF r
  <2>2. x * k + 0 = k * x
    BY <1>2, <2>0
  <2>5. (k * x) \div x = k /\ (k * x) % x = 0
    BY <2>1, <2>2
  <2> QED
    BY <2>5 DEF x
<1>5. out = IF Len(flat) % n # 0 THEN Failed
            ELSE CASE Model[m].output = "column" -> Scores([shape |-> <<batch, 1>>, data |-> score], batch)
                   [] Model[m].output = "two"    -> Scores([shape |-> <<batch, 2>>, data |-> score \o score], batch)
  BY Zenon DEF Evaluate
<1>6. batch = k /\ Len(flat) % n = 0
  BY <1>3, <1>4
<1>7. ASSUME NEW b \in 1..k PROVE rows[b] = items[b]
  <2>1. RowStands(items, n, b)
    BY <1>1, FlattenRow
  <2>2. SubSeq(flat, (b - 1) * n + 1, b * n) = items[b]
    BY <2>1 DEF RowStands
  <2>3. rows[b] = SubSeq(flat, (b - 1) * n + 1, b * n)
    BY <1>6, Zenon
  <2> QED
    BY <2>2, <2>3
<1>8. ASSUME NEW b \in 1..k PROVE score[b] = Alone(m, items[b]) /\ score[b] \in Nat
  <2>1. score[b] = TreeScore(items[b])
    BY <1>6, <1>7, Zenon
  <2>2. items[b] \in Seq(Nat)
    OBVIOUS
  <2>3. TreeScore(items[b]) \in 0..(FloatMod - 1)
    BY <2>2, TreeScoreType
  <2>4. Alone(m, items[b]) = TreeScore(items[b])
    BY DEF Alone
  <2> QED
    BY <2>1, <2>3, <2>4, EngineAssumption
<1>9. score = [b \in 1..k |-> score[b]]
  BY <1>6, Zenon
<1> HIDE DEF flat, rows, score, out, batch, k, n
<1>10. score \in Seq(Nat) /\ Len(score) = k
  BY <1>2, <1>8, <1>9, TypeOfSeq
<1>11. score = AllAlone(m, items)
  BY <1>2, <1>8, <1>9, Zenon DEF AllAlone
<1>12. CASE Model[m].output = "column"
  <2>1. out = Scores([shape |-> <<k, 1>>, data |-> score], k)
    BY <1>5, <1>6, <1>12
  <2>2. <<k, 1>> \in Seq(Nat)
    BY <1>2
  <2>3. [shape |-> <<k, 1>>, data |-> score] # Failed
    BY <2>2, <1>10, NotFailed
  <2>4. out = score
    BY <2>1, <2>3 DEF Scores
  <2> QED
    BY <2>4, <1>10, <1>11, <1>12 DEF out, flat, k
<1>13. CASE Model[m].output = "two"
  <2>1. out = Scores([shape |-> <<k, 2>>, data |-> score \o score], k)
    BY <1>5, <1>6, <1>13
  <2>2. Len(<<k, 2>>) = 2 /\ Len(<<k>>) = 1 /\ <<k, 2>>[2] = 2 /\ <<k, 1>>[2] = 1
    OBVIOUS
  <2>3. <<k, 2>> \notin {<<k>>, <<k, 1>>}
    BY <2>2
  <2>4. out = Failed
    BY <2>1, <2>3 DEF Scores
  <2> QED
    BY <2>4, <1>13 DEF out, flat
<1> QED
  BY <1>1, <1>12, <1>13

LEMMA StubReturns ==
    ASSUME NEW m, Model[m].kind = "stub", NEW items \in Seq(Seq(Nat))
    PROVE  /\ StubEmbed(items) = AllAlone(m, items)
           /\ StubEmbed(items) \in Seq(Seq(Nat)) /\ Len(StubEmbed(items)) = Len(items)
           /\ OfWidth(StubEmbed(items), StubDim)
<1> DEFINE n   == Len(items)
           out == StubEmbed(items)
<1>1. n \in Nat /\ DOMAIN items = 1..n
  OBVIOUS
<1>2. out = [b \in 1..n |-> out[b]] /\ \A b \in 1..n : out[b] = PseudoEmbedding(items[b])
  BY <1>1, Zenon DEF StubEmbed
<1> HIDE DEF out, n
<1>3. ASSUME NEW b \in 1..n PROVE out[b] \in Seq(Nat) /\ Len(out[b]) = StubDim
  <2> DEFINE v == PseudoEmbedding(items[b])
  <2>1. items[b] \in Seq(Nat)
    BY <1>1
  <2>2. Sum(items[b]) \in Nat
    BY <2>1, SumType
  <2>3. v = [h \in 1..StubDim |-> v[h]] /\ \A h \in 1..StubDim : v[h] = (Sum(items[b]) + 3 * h) % FloatMod
    BY Zenon DEF PseudoEmbedding
  <2> HIDE DEF v
  <2>4. StubDim \in Nat
    BY EngineAssumption
  <2>5. ASSUME NEW h \in 1..StubDim PROVE v[h] \in Nat
    <3> DEFINE x == Sum(items[b]) + 3 * h
    <3>1. x \in Nat
      BY <2>2, <2>4
    <3>2. v[h] = x % FloatMod
      BY <2>3
    <3> HIDE DEF x
    <3>3. x % FloatMod \in 0..(FloatMod - 1)
      BY <3>1, EngineAssumption, Division
    <3> QED
      BY <3>2, <3>3, EngineAssumption
  <2>6. v \in Seq(Nat) /\ Len(v) = StubDim
    BY <2>3, <2>4, <2>5, TypeOfSeq
  <2> QED
    BY <2>6, <1>2 DEF v
<1>4. out \in Seq(Seq(Nat)) /\ Len(out) = n
  BY <1>1, <1>2, <1>3, TypeOfSeq
<1>5. OfWidth(out, StubDim)
  BY <1>3, <1>4 DEF OfWidth
<1>6. out = AllAlone(m, items)
  <2>1. \A b \in 1..n : Alone(m, items[b]) = PseudoEmbedding(items[b])
    BY DEF Alone
  <2> QED
    BY <2>1, <1>1, <1>2, Zenon DEF AllAlone
<1> QED
  BY <1>4, <1>5, <1>6 DEF out, n

-----------------------------------------------------------------------------
\* Any model that loads.

Batched(m, items) ==
    /\ m \in DOMAIN Model /\ items # <<>>
    /\ Model[m].kind \in {"stub", "embedding"} => items \in Seq(Seq(Nat))
    /\ Model[m].kind = "rerank" => items \in Seq(PairItem)
    /\ Model[m].kind = "tabular" => items \in Seq(Seq(Nat)) /\ OfWidth(items, Model[m].features)

Dim(m) == IF Model[m].kind = "stub" THEN StubDim ELSE Hidden

Returned(m, items, out) ==
    /\ IF Model[m].kind \in {"stub", "embedding"} THEN out \in Seq(Seq(Nat)) /\ OfWidth(out, Dim(m))
       ELSE out \in Seq(Nat)
    /\ Len(out) = Len(items)
    /\ ~ShortPadding(m, 2) => out = AllAlone(m, items)

LEMMA KindOfModel ==
    ASSUME NEW m \in DOMAIN Model
    PROVE  Model[m].kind \in {"stub", "embedding", "rerank", "tabular"}
BY ModelAssumption

\* What load() has seen of the one row it probes with.
Probed(m) ==
    /\ Model[m].kind = "embedding" => Model[m].output = "states"
    /\ Model[m].kind = "rerank" => Model[m].output \notin {"states", "two"}
    /\ Model[m].kind = "tabular" => Model[m].features > 0 /\ Model[m].output = "column"

\* load() runs the engine on one row of one token, and that row shows all that
\* the graph can do wrong for any row: a model that loads has the output its
\* kind reads (onnx.rs:241-256, 311-323, 340-384).
THEOREM LoadsProbed ==
    ASSUME NEW m \in DOMAIN Model, Loads(m)
    PROVE  Probed(m)
<1> DEFINE kind  == Model[m].kind
           zero  == [i \in 1..Model[m].features |-> 0]
           probe == CASE kind \in {"stub", "embedding"} -> <<1>>
                      [] kind = "rerank"    -> <<<<1>>, <<1>>>>
                      [] kind = "tabular"   -> zero
<1>1. /\ kind = "tabular" => Model[m].features > 0
      /\ Infer(m, <<probe>>) # Failed
  BY Zenon DEF Loads
<1>2. CASE kind = "embedding"
  <2>1. probe = <<1>>
    BY <1>2
  <2>2. Infer(m, <<probe>>) = Embed(m, <<probe>>)
    BY <1>2 DEF Infer
  <2>3. <<1>> \in Seq(Nat) /\ <<<<1>>>> \in Seq(Seq(Nat)) /\ <<<<1>>>> # <<>>
    OBVIOUS
  <2>4. Texts(m, <<<<1>>>>)
    BY <2>3, <1>2 DEF Texts, TextItem
  <2>5. Embed(m, <<<<1>>>>) # Failed
    BY <1>1, <2>1, <2>2
  <2>6. Model[m].output = "states"
    BY <2>4, <2>5, <1>2, EmbedReturns
  <2> QED
    BY <2>6, <1>2 DEF Probed
<1>3. CASE kind = "rerank"
  <2>1. probe = <<<<1>>, <<1>>>>
    BY <1>3
  <2>2. Infer(m, <<probe>>) = ScorePairs(m, <<probe>>)
    BY <1>3 DEF Infer
  <2> HIDE DEF probe
  <2>3. <<1>> \in Seq(Nat)
    OBVIOUS
  <2>4. probe \in PairItem
    BY <2>1, <2>3 DEF PairItem
  <2>5. <<probe>> \in Seq(PairItem) /\ <<probe>> # <<>>
    BY <2>4
  <2>6. Texts(m, <<probe>>)
    BY <2>5, <1>3 DEF Texts
  <2>7. Model[m].output \notin {"states", "two"}
    BY <1>1, <2>2, <2>6, <1>3, ScoresReturn
  <2> QED
    BY <2>7, <1>3 DEF Probed
<1>4. CASE kind = "tabular"
  <2>1. probe = zero
    BY <1>4
  <2>2. Infer(m, <<probe>>) = Evaluate(m, FlattenSeq(<<probe>>))
    BY <1>4 DEF Infer
  <2>3. Model[m].features \in Nat
    BY ModelAssumption
  <2>4. zero \in Seq(Nat) /\ Len(zero) = Model[m].features
    <3>1. zero = [i \in 1..Model[m].features |-> zero[i]] /\ \A i \in 1..Model[m].features : zero[i] \in Nat
      OBVIOUS
    <3> HIDE DEF zero
    <3> QED
      BY <3>1, <2>3, TypeOfSeq
  <2> HIDE DEF probe, zero
  <2>5. <<probe>> \in Seq(Seq(Nat)) /\ Len(<<probe>>) = 1 /\ <<probe>>[1] = probe
    BY <2>1, <2>4
  <2>6. OfWidth(<<probe>>, Model[m].features)
    BY <2>1, <2>4, <2>5 DEF OfWidth
  <2>7. Model[m].output # "column" => Evaluate(m, FlattenSeq(<<probe>>)) = Failed
    BY <1>1, <1>4, <2>5, <2>6, EvaluateReturns
  <2>8. Model[m].output = "column"
    BY <1>1, <2>2, <2>7
  <2> QED
    BY <2>8, <1>1, <1>4 DEF Probed
<1>5. CASE kind = "stub"
  BY <1>5 DEF Probed
<1> QED
  BY <1>2, <1>3, <1>4, <1>5, KindOfModel

\* What a batch returns, for any model that was probed and any batch: a row for
\* each item, and, unless its fixed padding is two tokens or more below what
\* the truncation keeps, the row that item gets alone.  It fails for a graph of
\* one row or for padding shorter than its texts, and for nothing else
\* (onnx.rs:113-297, 386-439).
THEOREM InferReturns ==
    ASSUME NEW m, NEW items, Batched(m, items), Probed(m)
    PROVE  \/ Infer(m, items) = Failed /\ (ShortPadding(m, 1) \/ Model[m].output = "static")
           \/ Returned(m, items, Infer(m, items))
<1>1. m \in DOMAIN Model /\ items # <<>> /\ Model[m].kind \in {"stub", "embedding", "rerank", "tabular"}
  BY KindOfModel DEF Batched
<1>2. CASE Model[m].kind = "embedding"
  <2>1. Infer(m, items) = Embed(m, items)
    BY <1>2 DEF Infer
  <2>2. Texts(m, items)
    BY <1>1, <1>2 DEF Texts, Batched, TextItem
  <2>3. Model[m].output = "states"
    BY <1>2 DEF Probed
  <2>4. \/ Embed(m, items) = Failed /\ ShortPadding(m, 1)
        \/ /\ Vectors(Embed(m, items), Len(items))
           /\ ~ShortPadding(m, 2) => Embed(m, items) = AllAlone(m, items)
    BY <2>2, <2>3, <1>2, EmbedReturns
  <2> QED
    BY <2>1, <2>4, <1>2 DEF Returned, Vectors, Dim
<1>3. CASE Model[m].kind = "rerank"
  <2>1. Infer(m, items) = ScorePairs(m, items)
    BY <1>3 DEF Infer
  <2>2. Texts(m, items)
    BY <1>1, <1>3 DEF Texts, Batched
  <2>3. Model[m].output \notin {"states", "two"}
    BY <1>3 DEF Probed
  <2>4. \/ ScorePairs(m, items) = Failed /\ (ShortPadding(m, 1) \/ Model[m].output = "static")
        \/ /\ ScorePairs(m, items) \in Seq(Nat) /\ Len(ScorePairs(m, items)) = Len(items)
           /\ ~ShortPadding(m, 2) => ScorePairs(m, items) = AllAlone(m, items)
    BY <2>2, <2>3, <1>3, ScoresReturn
  <2> QED
    BY <2>1, <2>4, <1>3 DEF Returned
<1>4. CASE Model[m].kind = "tabular"
  <2>1. Infer(m, items) = Evaluate(m, FlattenSeq(items))
    BY <1>4 DEF Infer
  <2>2. Model[m].features > 0 /\ Model[m].output = "column"
    BY <1>4 DEF Probed
  <2>3. items \in Seq(Seq(Nat)) /\ OfWidth(items, Model[m].features)
    BY <1>4 DEF Batched
  <2>4. /\ Evaluate(m, FlattenSeq(items)) = AllAlone(m, items)
        /\ Evaluate(m, FlattenSeq(items)) \in Seq(Nat) /\ Len(Evaluate(m, FlattenSeq(items))) = Len(items)
    BY <1>1, <1>4, <2>2, <2>3, EvaluateReturns
  <2> QED
    BY <2>1, <2>4, <1>4 DEF Returned
<1>5. CASE Model[m].kind = "stub"
  <2>1. Infer(m, items) = StubEmbed(items)
    BY <1>5 DEF Infer
  <2>2. items \in Seq(Seq(Nat))
    BY <1>5 DEF Batched
  <2>3. /\ StubEmbed(items) = AllAlone(m, items)
        /\ StubEmbed(items) \in Seq(Seq(Nat)) /\ Len(StubEmbed(items)) = Len(items)
        /\ OfWidth(StubEmbed(items), StubDim)
    BY <2>2, <1>5, StubReturns
  <2> QED
    BY <2>1, <2>3, <1>5 DEF Returned, Dim
<1> QED
  BY <1>1, <1>2, <1>3, <1>4, <1>5

LEMMA CardOf ==
    ASSUME NEW m \in DOMAIN Model, Loads(m)
    PROVE  /\ Card(m).kind = IF Model[m].kind = "stub" THEN "embedding" ELSE Model[m].kind
           /\ Card(m).dim = IF Model[m].kind \in {"stub", "embedding"} THEN Dim(m) ELSE 0
           /\ Card(m).n = IF Model[m].kind = "tabular" THEN Model[m].features ELSE 0
<1> DEFINE out == Infer(m, <<<<1>>>>)
<1>1. CASE Model[m].kind \in {"stub", "embedding"}
  <2>1. <<1>> \in Seq(Nat) /\ <<<<1>>>> \in Seq(Seq(Nat)) /\ <<<<1>>>> # <<>> /\ Len(<<<<1>>>>) = 1
    OBVIOUS
  <2>2. Batched(m, <<<<1>>>>)
    BY <2>1, <1>1 DEF Batched
  <2>3. Probed(m)
    BY LoadsProbed
  <2>4. out # Failed
    BY <1>1 DEF Loads
  <2>5. Returned(m, <<<<1>>>>, out)
    BY <2>2, <2>3, <2>4, InferReturns
  <2> HIDE DEF out
  <2>6. OfWidth(out, Dim(m)) /\ Len(out) = 1
    BY <2>1, <2>5, <1>1 DEF Returned
  <2>7. Len(out[1]) = Dim(m)
    BY <2>6 DEF OfWidth
  <2>8. Card(m).dim = Len(out[1])
    BY <1>1 DEF Card, out
  <2> QED
    BY <2>7, <2>8, <1>1 DEF Card
<1>2. CASE Model[m].kind \notin {"stub", "embedding"}
  BY <1>2 DEF Card
<1> QED
  BY <1>1, <1>2

-----------------------------------------------------------------------------
\* How large the values of an answer may be.

LEMMA MeanBound ==
    ASSUME NEW x \in Nat, NEW n \in Nat \ {0}, NEW B \in Nat, x <= n * B
    PROVE  x \div n <= B
<1> DEFINE q == x \div n
           r == x % n
           y == n * q
<1>1. q \in Nat /\ r \in 0..(n - 1) /\ x = n * q + r
  BY Division
<1> HIDE DEF q, r
<1>2. SUFFICES ASSUME q > B PROVE FALSE
  BY <1>1 DEF q
<1>3. n * (B + 1) <= n * q
  BY <1>1, <1>2, TimesMonotonic
<1>4. n * (B + 1) = n * B + n /\ n * B \in Nat /\ n * q \in Nat
  BY <1>1
<1> DEFINE z == n * B
<1>5. x = y + r /\ z + n <= y /\ x <= z /\ y \in Nat /\ z \in Nat
  BY <1>1, <1>3, <1>4
<1> HIDE DEF y, z
<1> QED
  BY <1>1, <1>5

LEMMA TokenIds ==
    ASSUME NEW B \in Nat, NEW m \in DOMAIN Model, Model[m].kind = "embedding",
           NEW item \in Seq(Nat), \A i \in 1..Len(item) : item[i] < B
    PROVE  \A t \in 1..Len(Truncated(m, item)) : Truncated(m, item)[t].id <= B
<1> DEFINE ts == Tokens("embedding", item)
           n  == IF Len(ts) < MaxTokens(m) THEN Len(ts) ELSE MaxTokens(m)
<1>1. Truncated(m, item) = SubSeq(ts, 1, n)
  BY DEF Truncated
<1>2. ts = [i \in DOMAIN item |-> [id |-> item[i] + 1, type |-> 0, mask |-> 1]]
  BY DEF Tokens
<1>3. MaxTokens(m) \in Nat
  BY MaxTokensType
<1>4. DOMAIN item = 1..Len(item) /\ Len(item) \in Nat
  OBVIOUS
<1> HIDE DEF ts
<1>5. ts \in Seq(Visible)
  BY <1>2, OneSide
<1>6. Len(ts) = Len(item)
  BY <1>2, <1>4, <1>5
<1>7. \A i \in 1..Len(item) : ts[i].id = item[i] + 1
  BY <1>2, <1>4
<1>8. n \in Nat /\ n <= Len(item)
  BY <1>3, <1>4, <1>6
<1> HIDE DEF n
<1>9. Len(SubSeq(ts, 1, n)) = n /\ \A t \in 1..n : SubSeq(ts, 1, n)[t] = ts[t]
  BY <1>5, <1>6, <1>8
<1>10. \A t \in 1..n : ts[t].id <= B
  <2>1. ASSUME NEW t \in 1..n PROVE ts[t].id <= B
    <3>1. t \in 1..Len(item)
      BY <1>4, <1>8
    <3>2. ts[t].id = item[t] + 1 /\ item[t] \in Nat /\ item[t] < B
      BY <3>1, <1>7
    <3> QED
      BY <3>2
  <2> QED
    BY <2>1
<1> QED
  BY <1>1, <1>9, <1>10

LEMMA AloneBound ==
    ASSUME NEW m \in DOMAIN Model, NEW B \in Nat, FloatMod - 1 <= B, NEW item,
           Model[m].kind = "embedding" => item \in Seq(Nat) /\ \A i \in 1..Len(item) : item[i] < B,
           Model[m].kind \in {"stub", "tabular"} => item \in Seq(Nat),
           Model[m].kind = "rerank" => item \in PairItem
    PROVE  IF Model[m].kind \in {"stub", "embedding"}
           THEN Alone(m, item) \in Seq(0..B) /\ Len(Alone(m, item)) = Dim(m)
           ELSE Alone(m, item) \in 0..B
<1>1. FloatMod \in Nat \ {0} /\ StubDim \in Nat /\ Model[m].kind \in {"stub", "embedding", "rerank", "tabular"}
  BY EngineAssumption, KindOfModel
<1>2. CASE Model[m].kind = "stub"
  <2> DEFINE v == PseudoEmbedding(item)
  <2>1. Sum(item) \in Nat
    BY <1>2, SumType
  <2>2. v = [h \in 1..StubDim |-> v[h]] /\ \A h \in 1..StubDim : v[h] = (Sum(item) + 3 * h) % FloatMod
    BY Zenon DEF PseudoEmbedding
  <2> HIDE DEF v
  <2>3. ASSUME NEW h \in 1..StubDim PROVE v[h] \in 0..B
    <3> DEFINE x == Sum(item) + 3 * h
    <3>1. x \in Nat
      BY <2>1, <1>1
    <3>2. v[h] = x % FloatMod
      BY <2>2
    <3> HIDE DEF x
    <3>3. x % FloatMod \in 0..(FloatMod - 1)
      BY <3>1, <1>1, Division
    <3> QED
      BY <3>2, <3>3, <1>1
  <2>4. v \in Seq(0..B) /\ Len(v) = StubDim
    BY <1>1, <2>2, <2>3, TypeOfSeq
  <2>5. Alone(m, item) = v
    BY <1>2 DEF Alone, v
  <2> QED
    BY <2>4, <2>5, <1>2 DEF Dim
<1>3. CASE Model[m].kind = "embedding"
  <2> DEFINE kept == Truncated(m, item)
             n    == IF kept = <<>> THEN 1 ELSE Len(kept)
             s(h) == [t \in DOMAIN kept |-> State(m, kept, t)[h]]
             v    == [h \in 1..Hidden |-> Sum(s(h)) \div n]
  <2>1. Alone(m, item) = v
    BY <1>3, Zenon DEF Alone
  <2>2. Textual(m, item)
    BY <1>3 DEF Textual, TextItem
  <2>3. kept \in Seq(Visible)
    BY <2>2, TruncatedType
  <2>4. \A t \in 1..Len(kept) : kept[t].id <= B
    BY <1>3, TokenIds
  <2> HIDE DEF kept
  <2>5. /\ Len(kept) \in Nat /\ DOMAIN kept = 1..Len(kept) /\ kept \in Seq(Token)
        /\ \A t \in 1..Len(kept) : kept[t] \in Token /\ kept[t].mask = 1
    BY <2>3, VisibleToken
  <2>6. n \in Nat \ {0} /\ Len(kept) <= n
    BY <2>5
  <2>7. ASSUME NEW h \in 1..Hidden PROVE s(h) \in Seq(Nat) /\ Len(s(h)) = Len(kept) /\ \A i \in DOMAIN s(h) : s(h)[i] <= B
    <3> DEFINE sh == s(h)
    <3>1. sh = [t \in 1..Len(kept) |-> sh[t]] /\ \A t \in 1..Len(kept) : sh[t] = State(m, kept, t)[h]
      BY <2>5
    <3>2. ASSUME NEW t \in 1..Len(kept) PROVE State(m, kept, t)[h] \in Nat /\ State(m, kept, t)[h] <= B
      <4>1. State(m, kept, t) \in Seq(Nat) /\ Len(State(m, kept, t)) = Hidden
        BY <2>5, StateType
      <4>2. State(m, kept, t)[h] \in Nat
        BY <4>1
      <4> DEFINE x == kept[t].id
                 a == Attention(m, kept) + t
                 y == a % FloatMod
      <4>3. State(m, kept, t) = <<x, y>>
        BY <2>5 DEF State
      <4>4. a \in Nat
        <5>1. Attention(m, kept) \in Nat
          BY <2>5, AttentionType
        <5> QED
          BY <5>1
      <4> HIDE DEF a
      <4>5. y \in 0..(FloatMod - 1)
        BY <4>4, <1>1, Division
      <4>6. x <= B
        BY <2>4
      <4> HIDE DEF x, y
      <4>7. y <= B
        BY <4>5, <1>1
      <4>8. h = 1 \/ h = 2
        BY DEF Hidden
      <4>9. <<x, y>>[1] = x /\ <<x, y>>[2] = y
        OBVIOUS
      <4> QED
        BY <4>2, <4>3, <4>6, <4>7, <4>8, <4>9
    <3> HIDE DEF sh, s
    <3>3. sh \in Seq(Nat) /\ Len(sh) = Len(kept)
      BY <2>5, <3>1, <3>2, TypeOfSeq
    <3>4. \A i \in DOMAIN sh : sh[i] <= B
      BY <3>1, <3>2, <3>3
    <3> QED
      BY <3>3, <3>4 DEF sh
  <2> HIDE DEF s
  <2>8. ASSUME NEW h \in 1..Hidden PROVE Sum(s(h)) \div n \in 0..B
    <3> DEFINE sh == s(h)
               x  == Sum(sh)
    <3>1. sh \in Seq(Nat) /\ Len(sh) = Len(kept) /\ \A i \in DOMAIN sh : sh[i] <= B
      BY <2>7
    <3> HIDE DEF sh
    <3>2. x \in Nat /\ x <= Len(sh) * B
      BY <3>1, SumBounds
    <3> HIDE DEF x, n
    <3>3. Len(kept) * B <= n * B
      <4>1. B * Len(kept) <= B * n
        BY <2>5, <2>6, TimesMonotonic
      <4>2. B * Len(kept) = Len(kept) * B /\ B * n = n * B
        BY <2>5, <2>6
      <4> QED
        BY <4>1, <4>2
    <3>4. x <= n * B
      <4>1. Len(kept) * B \in Nat /\ n * B \in Nat
        BY <2>5, <2>6
      <4> QED
        BY <3>1, <3>2, <3>3, <4>1
    <3>5. x \div n <= B
      BY <2>6, <3>2, <3>4, MeanBound
    <3>6. x \div n \in Nat
      BY <2>6, <3>2, Division
    <3>7. x \div n \in 0..B
      BY <3>5, <3>6
    <3> QED
      BY <3>7 DEF x, sh
  <2> HIDE DEF n
  <2>9. v = [h \in 1..Hidden |-> v[h]] /\ \A h \in 1..Hidden : v[h] = Sum(s(h)) \div n
    BY Zenon
  <2> HIDE DEF v
  <2>10. \A h \in 1..Hidden : v[h] \in 0..B
    BY <2>8, <2>9
  <2>11. Hidden \in Nat
    BY DEF Hidden
  <2>12. v \in Seq(0..B) /\ Len(v) = Hidden
    BY <2>9, <2>10, <2>11, TypeOfSeq
  <2> QED
    BY <2>1, <2>12, <1>3 DEF Dim
<1>4. CASE Model[m].kind = "rerank"
  <2>1. Textual(m, item)
    BY <1>4 DEF Textual
  <2>2. Truncated(m, item) \in Seq(Visible)
    BY <2>1, TruncatedType
  <2>3. Truncated(m, item) \in Seq(Token)
    BY <2>2, VisibleToken
  <2>4. Logit(m, Truncated(m, item)) \in 0..(FloatMod - 1)
    BY <2>3, AttentionType
  <2>5. Alone(m, item) = Logit(m, Truncated(m, item))
    BY <1>4 DEF Alone
  <2> QED
    BY <2>4, <2>5, <1>1, <1>4
<1>5. CASE Model[m].kind = "tabular"
  <2>1. TreeScore(item) \in 0..(FloatMod - 1)
    BY <1>5, TreeScoreType
  <2>2. Alone(m, item) = TreeScore(item)
    BY <1>5 DEF Alone
  <2> QED
    BY <2>1, <2>2, <1>1, <1>5
<1> QED
  BY <1>1, <1>2, <1>3, <1>4, <1>5

-----------------------------------------------------------------------------
\* The registry, and what the daemon looks up in it.

Registry(E) == \E S \in Configs : (\A m \in S : Loads(m)) /\ E = [m \in S |-> Card(m)]

KnownIn(E, r)   == r.model \in DOMAIN E /\ E[r.model].kind = KindOf(r.task)
AdmittedIn(E, r) == r # Malformed /\ KnownIn(E, r) /\ (r.task = "evaluate" => r.n = E[r.model].n)

WellFormedIn(E, q) ==
    /\ q.items # <<>>
    /\ KnownIn(E, AsRequest(q))
    /\ q.task = "embed" => q.option \in {None, E[q.model].dim}
    /\ q.task = "evaluate" => \A i \in DOMAIN q.items : Len(q.items[i]) = E[q.model].n

ItemsIn(E, r) ==
    LET n == E[r.model].n
    IN  IF r.task # "evaluate" THEN r.items
        ELSE [i \in 1..(Len(r.items) \div n) |-> SubSeq(r.items, (i - 1) * n + 1, i * n)]

ResponseIn(E, s) ==
    IF s.reply.status # "ok" THEN Error
    ELSE IF s.heard.task = "embed"
    THEN [task |-> "embed", dim |-> E[s.heard.model].dim, floats |-> FlattenSeq(s.reply.rows)]
    ELSE [task |-> s.heard.task, dim |-> 0, floats |-> s.reply.rows]

-----------------------------------------------------------------------------
\* What is known of a caller in each phase.

Asked(q) == \E k \in DOMAIN Requests : q = Requests[k]

\* HeardAsAsked, of one caller.
HeardRight(q, h) ==
    Countable(AsRead(q)) =>
        /\ ~Ragged(AsRead(q))
        /\ \/ h = AsRequest(AsRead(q)) /\ q.damage = "none" /\ ~Overruns(AsRead(q))
           \/ h = Malformed /\ (q.damage # "none" \/ Overruns(AsRead(q)))

\* A request as any channel may bring it, with rows of one width.
Taken(E, r) == Requested(r) /\ AdmittedIn(E, r)

\* OwnAnswers, of one caller.
AnsweredOwn(q, a) ==
    a.ok /\ Countable(q) /\ CountableAnswer(q) /\ ~Skewed(q.model) =>
        IF q.channel = "http" /\ q.task = "rerank" THEN AreTop(a.rows, Own(q), q.option)
        ELSE a.rows = Own(q)

Untold(s) == s.heard = None /\ s.reply = None /\ s.answer = None

IsPosted(s) == s.pc = "posted" /\ Asked(s.ask) /\ s.ask.channel = "http" /\ s.wire = <<>> /\ Untold(s)

IsWritten(s) ==
    s.pc = "written" /\ Asked(s.ask) /\ s.ask.channel = "pipe" /\ s.wire = Written(s.ask) /\ Untold(s)

\* The bytes of a frame, which the client wrote itself if they come from the pipe.
OnWire(s) ==
    /\ s.wire \in Seq(Units) /\ Len(s.wire) >= 2
    /\ s.ask.channel = "socket" => s.wire = Sent(s.ask)
    /\ s.ask.channel = "pipe" /\ Countable(AsRead(s.ask)) =>
          /\ s.ask.damage = "none" /\ ~Ragged(AsRead(s.ask))
          /\ s.wire = Frame(EncodeRequest(AsRequest(AsRead(s.ask))))

IsSent(s) == s.pc = "sent" /\ Asked(s.ask) /\ s.ask.channel # "http" /\ OnWire(s) /\ Untold(s)

\* The handler closed the connection on it.
IsShut(s) ==
    /\ s.pc = "shut" /\ Asked(s.ask) /\ s.ask.channel # "http" /\ Untold(s)
    /\ ~Plain(AsRead(s.ask))

\* What the daemon made of the request.
IsHeard(E, s) ==
    /\ HeardRight(s.ask, s.heard)
    /\ s.ask.channel = "http" => WellFormedIn(E, s.ask) /\ s.heard = AsRequest(s.ask)

IsQueued(E, s) ==
    /\ s.pc = "queued" /\ Asked(s.ask) /\ s.reply = None /\ s.answer = None
    /\ IsHeard(E, s) /\ Taken(E, s.heard) /\ s.heard.items # <<>>

Replies == [status : {"ok", "refused", "failed", "lost"}, rows : Seq(Nat) \cup Seq(Seq(Nat))]

IsRefused(E, s) ==
    /\ s.reply = Refused
    /\ IF s.ask.channel = "http"
       THEN s.heard = None /\ ~(BodySize(s.ask) <= BodyLimit /\ WellFormedIn(E, s.ask))
       ELSE HeardRight(s.ask, s.heard) /\ ~AdmittedIn(E, s.heard)

IsAnswered(E, s) ==
    /\ IsHeard(E, s) /\ Taken(E, s.heard)
    /\ s.reply.status # "refused"
    /\ s.reply.status = "ok" => Returned(s.heard.model, ItemsIn(E, s.heard), s.reply.rows)
    /\ s.reply.status = "failed" =>
          Model[s.heard.model].output = "static" \/ ShortPadding(s.heard.model, 1)

HasReply(E, s) == Asked(s.ask) /\ s.reply \in Replies /\ (IsRefused(E, s) \/ IsAnswered(E, s))

IsReplied(E, s) == s.pc = "replied" /\ s.answer = None /\ HasReply(E, s)

IsAnswering(E, s) ==
    /\ s.pc = "answering" /\ s.answer = None /\ s.ask.channel # "http" /\ HasReply(E, s)
    /\ s.wire = Frame(EncodeResponse(ResponseIn(E, s)))

\* A request both channels have room for, and so does its reply, is answered.
Room(E, s) ==
    /\ Plain(AsRead(s.ask)) /\ ~Skewed(AsRead(s.ask).model)
    /\ AsRead(s.ask).task = "embed" /\ AsRead(s.ask).model \in DOMAIN E => E[AsRead(s.ask).model].dim # 0
    /\ s.reply # None => Len(EncodeResponse(ResponseIn(E, s))) <= MaxFrame

\* An answer has rows or is Nothing.
Told(a) == a.ok \in BOOLEAN /\ (a.ok \/ a = Nothing)

IsDone(E, s) ==
    /\ s.pc = "done" /\ Asked(s.ask) /\ Told(s.answer)
    /\ AnsweredOwn(AsRead(s.ask), s.answer)
    /\ s.reply = None =>
          /\ s.heard = None /\ s.ask.channel # "http"
          /\ Room(E, s) => ~s.answer.ok /\ Ragged(AsRead(s.ask))
    /\ s.reply # None =>
          /\ HasReply(E, s)
          /\ s.reply.status # "ok" => ~s.answer.ok
          /\ s.reply.status = "ok" /\ (s.ask.channel = "http" \/ Room(E, s)) => s.answer.ok

Good(E, s) ==
    \/ IsPosted(s) \/ IsWritten(s) \/ IsSent(s) \/ IsShut(s)
    \/ IsQueued(E, s) \/ IsReplied(E, s) \/ IsAnswering(E, s) \/ IsDone(E, s)

-----------------------------------------------------------------------------
\* The invariant, of a record x of what the variables hold of one caller.

\* How far its request is, with the caller and the daemon taken together, and
\* the bytes that hold it there.
Phase(x) ==
    IF x.pc # "asked" THEN x.pc
    ELSE IF x.stage = "closed" THEN "shut"
    ELSE IF x.stage # "reading" THEN x.stage
    ELSE IF x.back = <<>> THEN "sent" ELSE "answering"

Bytes(x) ==
    IF Phase(x) = "written" THEN Written(x.ask) ELSE IF Phase(x) = "answering" THEN x.back ELSE x.wire

View(x) ==
    [pc |-> Phase(x), ask |-> x.ask, wire |-> Bytes(x), heard |-> x.heard, reply |-> x.reply,
     answer |-> x.answer]

\* What bridge-client makes one frame of.
Framable(q) == BlockRows(q) \notin {Malformed, <<>>} /\ ~Ragged(Regrouped(q, BlockRows(q)))

\* What the daemon says is so of what it heard, whoever asked for that.
Sincere(E, h, r) ==
    /\ r \in Replies
    /\ r.status = "ok" => Taken(E, h) /\ Returned(h.model, ItemsIn(E, h), r.rows)
    /\ r.status = "failed" => Model[h.model].output = "static" \/ ShortPadding(h.model, 1)

\* What holds of every caller.
Typed(x) ==
    /\ x.pc \in {"idle", "written", "asked", "done"}
    /\ x.stage \in {"closed", "posted", "reading", "queued", "replied"}
    /\ x.wire \in Seq(Units) /\ x.back \in Seq(Units) /\ x.apart \in BOOLEAN
    /\ IF x.pc = "done" THEN Told(x.answer) ELSE x.answer = None

Placed(x) ==
    /\ x.pc = "idle" => x.stage = "closed" /\ x.reply = None
    /\ x.pc # "idle" => Asked(x.ask)
    /\ x.pc # "idle" /\ x.ask.channel = "http" =>
          /\ x.pc # "written" /\ x.stage # "reading" /\ ~x.apart /\ x.back = <<>>
          /\ x.pc = "asked" <=> x.stage # "closed"
    /\ x.pc # "idle" /\ x.ask.channel # "http" => x.stage # "posted"
    /\ x.pc = "written" => x.ask.channel = "pipe"
    /\ x.pc = "asked" /\ x.ask.channel = "pipe" => Framable(x.ask)

Served(E, x) ==
    /\ x.stage = "posted" => x.reply = None
    /\ x.stage = "queued" => Taken(E, x.heard) /\ x.heard.items # <<>>
    /\ x.stage = "replied" => x.reply # None
    /\ x.reply # None => Sincere(E, x.heard, x.reply)

\* What holds of a request with a connection of its own: caller and daemon are
\* in step, and nothing is left behind it ...
Lock(E, x) ==
    /\ Good(E, View(x))
    /\ ~Overruns(AsRead(x.ask)) /\ (x.stage \in {"queued", "replied"} \/ x.pc = "done" \/ x.back # <<>>) =>
          x.wire = <<>>
    /\ x.pc = "done" => x.stage \in {"reading", "closed"}
    /\ x.pc = "written" => x.stage = "reading" /\ x.wire = <<>> /\ x.back = <<>>
    /\ x.pc = "asked" /\ x.stage # "reading" => x.back = <<>>

\* ... but for one that is longer than its prefix says: an error comes back
\* first, and what comes after it nobody takes for the answer.
Stray(x) ==
    /\ x.pc # "written"
    /\ x.pc = "asked" => \E more \in Seq(Units) : x.back = Frame(EncodeResponse(Error)) \o more
    /\ x.pc = "done" => AnsweredOwn(AsRead(x.ask), x.answer)

Vouched(x) == x.pc # "idle" /\ ~x.apart /\ Countable(AsRead(x.ask))
Astray(x)  == Overruns(AsRead(x.ask)) /\ (x.pc = "done" \/ x.back # <<>>)

Holds(E, x) ==
    /\ Typed(x) /\ Placed(x) /\ Served(E, x)
    /\ Vouched(x) => IF Astray(x) THEN Stray(x) ELSE Lock(E, x)

At(c) ==
    [pc |-> pc[c], stage |-> stage[c], ask |-> ask[c], wire |-> wire[c], back |-> back[c], apart |-> apart[c],
     heard |-> heard[c], reply |-> reply[c], answer |-> answer[c]]

OfCallers(f) == f = [c \in Callers |-> f[c]]

Shapes ==
    /\ OfCallers(pc) /\ OfCallers(stage) /\ OfCallers(ask) /\ OfCallers(wire) /\ OfCallers(back)
    /\ OfCallers(apart) /\ OfCallers(heard) /\ OfCallers(reply) /\ OfCallers(answer)

IInv == Registry(entries) /\ Shapes /\ \A c \in Callers : Holds(entries, At(c))

-----------------------------------------------------------------------------
\* What is asked, and as what it is read.

LEMMA AskedType ==
    ASSUME NEW q, Asked(q)
    PROVE  /\ q = [channel |-> q.channel, task |-> q.task, model |-> q.model, items |-> q.items,
                   option |-> q.option, damage |-> q.damage, cut |-> q.cut]
           /\ q.channel \in {"http", "pipe", "socket"} /\ q.task \in TaskNames /\ q.model \in Seq(Units)
           /\ q.task = "embed" => q.items \in Seq(Seq(Units))
           /\ q.task = "rerank" => q.items \in Seq(Seq(Units) \X Seq(Units))
           /\ q.task = "evaluate" => q.items \in Seq(Seq(Words))
           /\ q.cut \in Nat /\ (q.damage = "cut" <=> q.cut # 0)
           /\ q.channel = "http" => q.damage = "none"
           /\ q.channel = "pipe" => q.damage \in {"none", "cut"}
           /\ q.channel = "socket" => q.damage \in {"none", "version", "task", "trailing", "length", "cut"}
           /\ q.channel # "pipe" => InText(q)
           /\ q.channel = "socket" => ~Ragged(q)
           /\ q.option \in Nat \cup {None}
<1>1. PICK k \in DOMAIN Requests : q = Requests[k]
  BY DEF Asked
<1>2. /\ q = [channel |-> q.channel, task |-> q.task, model |-> q.model, items |-> q.items,
               option |-> q.option, damage |-> q.damage, cut |-> q.cut]
      /\ q.channel \in {"http", "pipe", "socket"} /\ Askable(q)
      /\ q.channel # "pipe" => InText(q)
      /\ q.channel = "socket" => ~Ragged(q)
  BY <1>1, RequestsAssumption, Zenon
<1>3. /\ q.task \in TaskNames /\ q.model \in Seq(Units)
      /\ q.option \in Nat \cup {None} /\ q.cut \in Nat /\ (q.damage = "cut" <=> q.cut # 0)
  BY <1>2 DEF Askable, TaskNames
<1>4. /\ q.task = "embed" => q.items \in Seq(Seq(Units))
      /\ q.task = "rerank" => q.items \in Seq(Seq(Units) \X Seq(Units))
      /\ q.task = "evaluate" => q.items \in Seq(Seq(Words))
  BY <1>2 DEF Askable
<1>5. /\ q.channel = "http" => q.damage = "none"
      /\ q.channel = "pipe" => q.damage \in {"none", "cut"}
      /\ q.channel = "socket" => q.damage \in {"none", "version", "task", "trailing", "length", "cut"}
  BY <1>2 DEF Askable
<1> QED
  BY <1>2, <1>3, <1>4, <1>5

Legibles == {s \in Seq(Units) : IsText(s)}

ReadItem(task) ==
    CASE task = "embed"    -> Legibles
      [] task = "rerank"   -> Legibles \X Legibles
      [] task = "evaluate" -> Seq(Words)

LEMMA LegibleType ==
    ASSUME NEW task \in TaskNames, NEW x,
           task = "embed" => x \in Seq(Units), task = "rerank" => x \in Seq(Units) \X Seq(Units),
           task = "evaluate" => x \in Seq(Words)
    PROVE  Legible(task, x) \in ReadItem(task)
<1>0. \A s \in Seq(Units) : Lossy(s) \in Legibles
  BY LossyType DEF Legibles
<1>1. CASE task = "embed"
  BY <1>0, <1>1 DEF Legible, ReadItem
<1>2. CASE task = "rerank"
  <2>1. x[1] \in Seq(Units) /\ x[2] \in Seq(Units)
    BY <1>2
  <2>2. <<Lossy(x[1]), Lossy(x[2])>> \in Legibles \X Legibles
    BY <1>0, <2>1
  <2> QED
    BY <1>2, <2>2 DEF Legible, ReadItem
<1>3. CASE task = "evaluate"
  BY <1>3 DEF Legible, ReadItem
<1> QED
  BY <1>1, <1>2, <1>3 DEF TaskNames

LEMMA ReadType ==
    ASSUME NEW q, Asked(q)
    PROVE  LET z == AsRead(q)
           IN  /\ z = [channel |-> q.channel, task |-> q.task, model |-> z.model, items |-> z.items,
                       option |-> q.option, damage |-> q.damage, cut |-> q.cut]
               /\ z.model \in Legibles /\ z.items \in Seq(ReadItem(q.task)) /\ Len(z.items) = Len(q.items)
               /\ DOMAIN z.items = 1..Len(q.items) /\ Len(q.items) \in Nat
               /\ q.channel # "pipe" => z = q
               /\ q.channel = "pipe" =>
                     /\ z.model = Lossy(q.model)
                     /\ z.items = [i \in 1..Len(q.items) |-> Legible(q.task, q.items[i])]
<1> DEFINE z == AsRead(q)
           n == Len(q.items)
<1>1. /\ q.task \in TaskNames /\ q.model \in Seq(Units)
      /\ q.task = "embed" => q.items \in Seq(Seq(Units))
      /\ q.task = "rerank" => q.items \in Seq(Seq(Units) \X Seq(Units))
      /\ q.task = "evaluate" => q.items \in Seq(Seq(Words))
      /\ q.channel # "pipe" => InText(q)
      /\ q = [channel |-> q.channel, task |-> q.task, model |-> q.model, items |-> q.items,
               option |-> q.option, damage |-> q.damage, cut |-> q.cut]
  BY AskedType
<1>2. n \in Nat /\ DOMAIN q.items = 1..n
  <2>1. q.task = "embed" \/ q.task = "rerank" \/ q.task = "evaluate"
    BY <1>1 DEF TaskNames
  <2>2. q.items \in Seq(Seq(Units)) \/ q.items \in Seq(Seq(Units) \X Seq(Units)) \/ q.items \in Seq(Seq(Words))
    BY <1>1, <2>1
  <2> QED
    BY <2>2
<1>3. \A i \in 1..n : /\ q.task = "embed" => q.items[i] \in Seq(Units)
                      /\ q.task = "rerank" => q.items[i] \in Seq(Units) \X Seq(Units)
                      /\ q.task = "evaluate" => q.items[i] \in Seq(Words)
  <2> TAKE i \in 1..n
  <2>1. CASE q.task = "embed"
    BY <1>1, <2>1
  <2>2. CASE q.task = "rerank"
    BY <1>1, <2>2
  <2>3. CASE q.task = "evaluate"
    BY <1>1, <2>3
  <2> QED
    BY <1>1, <2>1, <2>2, <2>3 DEF TaskNames
<1>4. CASE q.channel = "pipe"
  <2> DEFINE l == [i \in 1..n |-> Legible(q.task, q.items[i])]
  <2>1. z = [q EXCEPT !.model = Lossy(q.model), !.items = l]
    BY <1>2, <1>4 DEF AsRead
  <2>2. Lossy(q.model) \in Legibles
    BY <1>1, LossyType DEF Legibles
  <2>3. \A i \in 1..n : l[i] \in ReadItem(q.task)
    <3> TAKE i \in 1..n
    <3>1. Legible(q.task, q.items[i]) \in ReadItem(q.task)
      <4> DEFINE x == q.items[i]
      <4>1. /\ q.task = "embed" => x \in Seq(Units)
            /\ q.task = "rerank" => x \in Seq(Units) \X Seq(Units)
            /\ q.task = "evaluate" => x \in Seq(Words)
        BY <1>3
      <4> HIDE DEF x
      <4>2. Legible(q.task, x) \in ReadItem(q.task)
        BY <1>1, <4>1, LegibleType
      <4> QED
        BY <4>2 DEF x
    <3> QED
      BY <3>1
  <2>4. l = [i \in 1..n |-> l[i]]
    BY Zenon
  <2> HIDE DEF l
  <2>5. l \in Seq(ReadItem(q.task)) /\ Len(l) = n
    BY <1>2, <2>3, <2>4, TypeOfSeq
  <2>6. z.model = Lossy(q.model) /\ z.items = l
    BY <1>1, <2>1
  <2>7. z = [channel |-> q.channel, task |-> q.task, model |-> z.model, items |-> z.items,
             option |-> q.option, damage |-> q.damage, cut |-> q.cut]
    BY <1>1, <2>1, <2>6
  <2>8. DOMAIN l = 1..n
    BY <1>2, <2>4
  <2> QED
    BY <1>2, <1>4, <2>2, <2>5, <2>6, <2>7, <2>8 DEF l
<1>5. CASE q.channel # "pipe"
  <2>1. z = q
    BY <1>5 DEF AsRead
  <2>2. InText(q)
    BY <1>1, <1>5
  <2>3. q.model \in Legibles
    BY <1>1, <2>2 DEF InText, Legibles
  <2>4. \A i \in 1..n : q.items[i] \in ReadItem(q.task)
    <3> TAKE i \in 1..n
    <3>1. CASE q.task = "embed"
      <4>1. IsText(q.items[i]) /\ q.items[i] \in Seq(Units)
        BY <1>2, <1>3, <2>2, <3>1 DEF InText
      <4> QED
        BY <3>1, <4>1 DEF ReadItem, Legibles
    <3>2. CASE q.task = "rerank"
      <4>1. IsText(q.items[i][1]) /\ IsText(q.items[i][2]) /\ q.items[i] \in Seq(Units) \X Seq(Units)
        BY <1>2, <1>3, <2>2, <3>2 DEF InText
      <4>2. q.items[i] \in Legibles \X Legibles
        <5> DEFINE x == q.items[i]
        <5>1. x \in Seq(Units) \X Seq(Units) /\ IsText(x[1]) /\ IsText(x[2])
          BY <4>1
        <5> HIDE DEF x
        <5>2. x = <<x[1], x[2]>> /\ x[1] \in Seq(Units) /\ x[2] \in Seq(Units)
          BY <5>1
        <5>3. x[1] \in Legibles /\ x[2] \in Legibles
          BY <5>1, <5>2 DEF Legibles
        <5>4. <<x[1], x[2]>> \in Legibles \X Legibles
          BY <5>3
        <5> QED
          BY <5>2, <5>4 DEF x
      <4> QED
        BY <3>2, <4>2 DEF ReadItem
    <3>3. CASE q.task = "evaluate"
      BY <1>3, <3>3 DEF ReadItem
    <3> QED
      BY <1>1, <3>1, <3>2, <3>3 DEF TaskNames
  <2>5. q.items \in Seq(ReadItem(q.task))
    <3> DEFINE f == q.items
    <3>1. f = [i \in 1..n |-> f[i]]
      <4>1. q.task = "embed" \/ q.task = "rerank" \/ q.task = "evaluate"
        BY <1>1 DEF TaskNames
      <4>2. f \in Seq(Seq(Units)) \/ f \in Seq(Seq(Units) \X Seq(Units)) \/ f \in Seq(Seq(Words))
        BY <1>1, <4>1
      <4> QED
        BY <4>2
    <3>2. \A i \in 1..n : f[i] \in ReadItem(q.task)
      BY <2>4
    <3> HIDE DEF f
    <3>3. f \in Seq(ReadItem(q.task))
      BY <1>2, <3>1, <3>2, TypeOfSeq
    <3> QED
      BY <3>3 DEF f
  <2> QED
    BY <1>1, <1>2, <1>5, <2>1, <2>3, <2>5
<1> QED
  BY <1>4, <1>5

\* The request a caller's items become, and that it survives its frame.
LEMMA RequestOf ==
    ASSUME NEW q, Asked(q)
    PROVE  LET z == AsRead(q)
               r == AsRequest(z)
           IN  /\ r = [task |-> q.task, model |-> z.model, n |-> r.n, items |-> r.items]
               /\ r.task = q.task /\ r.model = z.model /\ r.n = Width(z) /\ r.n \in Nat
               /\ r.model \in Seq(Units) /\ r.task \in TaskNames
               /\ r.task = "embed" => r.items = z.items /\ r.n = 0 /\ r.items \in Seq(Legibles)
               /\ r.task = "rerank" => r.items = z.items /\ r.n = 0 /\ r.items \in Seq(Legibles \X Legibles)
               /\ r.task = "evaluate" =>
                     r.items = FlattenSeq(z.items) /\ z.items \in Seq(Seq(Words)) /\ r.items \in Seq(Words)
               /\ Soft(r) /\ r # Malformed
<1> DEFINE z == AsRead(q)
           r == AsRequest(z)
<1>1. /\ z.model \in Legibles /\ z.items \in Seq(ReadItem(q.task)) /\ z.task = q.task
      /\ q.task \in TaskNames
  <2>1. z = [channel |-> q.channel, task |-> q.task, model |-> z.model, items |-> z.items,
             option |-> q.option, damage |-> q.damage, cut |-> q.cut]
    BY ReadType
  <2> HIDE DEF z
  <2>2. z.task = q.task
    BY <2>1
  <2> QED
    BY <2>2, ReadType, AskedType DEF z
<1> HIDE DEF z
<1>2. r = [task |-> z.task, model |-> z.model, n |-> Width(z), items |-> Matrix(z.task, z.items)]
  BY DEF AsRequest
<1> HIDE DEF r
<1>3. r.task = q.task /\ r.model = z.model /\ r.n = Width(z) /\ r.items = Matrix(q.task, z.items)
  BY <1>1, <1>2
<1>4. r.model \in Seq(Units)
  BY <1>1, <1>3 DEF Legibles
<1>5. /\ q.task = "embed" => r.items = z.items /\ r.items \in Seq(Legibles)
      /\ q.task = "rerank" => r.items = z.items /\ r.items \in Seq(Legibles \X Legibles)
  BY <1>1, <1>3 DEF Matrix, ReadItem
<1>6. ASSUME q.task = "evaluate"
      PROVE  r.items = FlattenSeq(z.items) /\ z.items \in Seq(Seq(Words)) /\ r.items \in Seq(Words)
  <2>1. r.items = FlattenSeq(z.items) /\ z.items \in Seq(Seq(Words))
    BY <1>1, <1>3, <1>6 DEF Matrix, ReadItem
  <2> QED
    BY <2>1, FlattenType
<1>7. r.n \in Nat /\ (q.task # "evaluate" => r.n = 0)
  <2>1. CASE q.task = "evaluate" /\ z.items # <<>>
    <3>1. z.items \in Seq(Seq(Words)) /\ Width(z) = Len(z.items[1])
      BY <1>1, <1>6, <2>1 DEF Width
    <3>2. Len(z.items[1]) \in Nat
      BY <2>1, <3>1
    <3> QED
      BY <1>3, <2>1, <3>1, <3>2
  <2>2. CASE ~(q.task = "evaluate" /\ z.items # <<>>)
    BY <1>1, <1>3, <2>2 DEF Width
  <2> QED
    BY <2>1, <2>2
<1>8. /\ q.task = "embed" => r.items \in Seq(Seq(Units))
      /\ q.task = "rerank" => r.items \in Seq(Seq(Units) \X Seq(Units))
      /\ q.task = "evaluate" => r.items \in Seq(Nat)
  <2>1. Legibles \subseteq Seq(Units) /\ Words \subseteq Nat
    BY UnitsAreNumbers DEF Legibles
  <2>2. Legibles \X Legibles \subseteq Seq(Units) \X Seq(Units)
    BY <2>1
  <2>3. q.task = "embed" => r.items \in Seq(Seq(Units))
    BY <1>5, <2>1, WiderSeq
  <2>4. q.task = "rerank" => r.items \in Seq(Seq(Units) \X Seq(Units))
    <3> DEFINE A == Legibles \X Legibles
               B == Seq(Units) \X Seq(Units)
    <3>1. A \subseteq B /\ (q.task = "rerank" => r.items \in Seq(A))
      BY <1>5, <2>2
    <3> HIDE DEF A, B
    <3>2. q.task = "rerank" => r.items \in Seq(B)
      BY <3>1, WiderSeq
    <3> QED
      BY <3>2 DEF B
  <2>5. q.task = "evaluate" => r.items \in Seq(Nat)
    BY <1>6, <2>1, WiderSeq
  <2> QED
    BY <2>3, <2>4, <2>5
<1>9. Soft(r)
  BY <1>1, <1>3, <1>4, <1>7, <1>8 DEF Soft
<1>10. r = [task |-> q.task, model |-> z.model, n |-> r.n, items |-> r.items]
  BY <1>1, <1>2
<1>11. r # Malformed
  <2> DEFINE I == Seq(Seq(Units)) \cup Seq(Seq(Units) \X Seq(Units)) \cup Seq(Nat)
  <2>1. r.items \in I
    BY <1>1, <1>8 DEF TaskNames
  <2>2. r \in [task : TaskNames, model : Seq(Units), n : Nat, items : I]
    <3> HIDE DEF I
    <3>1. [task |-> q.task, model |-> z.model, n |-> r.n, items |-> r.items]
             \in [task : TaskNames, model : Seq(Units), n : Nat, items : I]
      BY <1>1, <1>3, <1>4, <1>7, <2>1
    <3> QED
      BY <1>10, <3>1
  <2>3. Malformed \notin [task : TaskNames, model : Seq(Units), n : Nat, items : I]
    BY SentinelAssumption, Zenon DEF TaskNames
  <2> QED
    BY <2>2, <2>3
<1> QED
  BY <1>1, <1>3, <1>4, <1>5, <1>6, <1>7, <1>9, <1>10, <1>11 DEF z, r

LEMMA FrameableRequest ==
    ASSUME NEW q, Asked(q), Countable(AsRead(q)), ~Ragged(AsRead(q))
    PROVE  Frameable(AsRequest(AsRead(q)))
<1> DEFINE z == AsRead(q)
           r == AsRequest(z)
<1>0. /\ r = [task |-> q.task, model |-> z.model, n |-> r.n, items |-> r.items]
      /\ r.task = q.task /\ r.model = z.model /\ r.n = Width(z) /\ r.n \in Nat
      /\ r.task \in TaskNames
      /\ r.task = "embed" => r.items = z.items /\ r.n = 0 /\ r.items \in Seq(Legibles)
      /\ r.task = "rerank" => r.items = z.items /\ r.n = 0 /\ r.items \in Seq(Legibles \X Legibles)
      /\ r.task = "evaluate" =>
            r.items = FlattenSeq(z.items) /\ z.items \in Seq(Seq(Words)) /\ r.items \in Seq(Words)
  BY RequestOf
<1>1. z.model \in Legibles /\ z.task = q.task /\ DOMAIN z.items = 1..Len(z.items) /\ Len(z.items) \in Nat
  <2>1. /\ z = [channel |-> q.channel, task |-> q.task, model |-> z.model, items |-> z.items,
                option |-> q.option, damage |-> q.damage, cut |-> q.cut]
        /\ z.model \in Legibles /\ DOMAIN z.items = 1..Len(q.items) /\ Len(z.items) = Len(q.items)
        /\ Len(q.items) \in Nat
    BY ReadType
  <2> HIDE DEF z
  <2>2. z.task = q.task
    BY <2>1
  <2> QED
    BY <2>1, <2>2
<1>2. Countable(z) /\ ~Ragged(z)
  OBVIOUS
<1> HIDE DEF z, r
<1>3. /\ Len(z.model) < WordMod /\ Len(z.items) < WordMod
      /\ \A i \in 1..Len(z.items) :
            /\ q.task = "embed" => Len(z.items[i]) < WordMod
            /\ q.task = "rerank" => Len(z.items[i][1]) < WordMod /\ Len(z.items[i][2]) < WordMod
            /\ q.task = "evaluate" => Len(z.items[i]) < WordMod
      /\ q.task = "evaluate" => Len(FlattenSeq(z.items)) < WordMod
  <2>1. \A i \in 1..Len(z.items) :
            CASE q.task = "embed"    -> Len(z.items[i]) < WordMod
              [] q.task = "rerank"   -> Len(z.items[i][1]) < WordMod /\ Len(z.items[i][2]) < WordMod
              [] q.task = "evaluate" -> Len(z.items[i]) < WordMod
    BY <1>1, <1>2 DEF Countable
  <2>2. \A i \in 1..Len(z.items) :
            /\ q.task = "embed" => Len(z.items[i]) < WordMod
            /\ q.task = "rerank" => Len(z.items[i][1]) < WordMod /\ Len(z.items[i][2]) < WordMod
            /\ q.task = "evaluate" => Len(z.items[i]) < WordMod
    BY <2>1
  <2> QED
    BY <1>1, <1>2, <2>2 DEF Countable
<1>4. r.model \in Strs
  BY <1>0, <1>1, <1>3 DEF Strs, Legibles
<1>5. r.task = "embed" => r.n = 0 /\ r.items \in Seq(Strs) /\ Len(r.items) < WordMod
  <2> SUFFICES ASSUME r.task = "embed" PROVE r.items \in Seq(Strs) /\ r.n = 0 /\ Len(r.items) < WordMod
    OBVIOUS
  <2>1. r.items = z.items /\ r.n = 0 /\ r.items \in Seq(Legibles)
    BY <1>0
  <2>2. \A i \in 1..Len(z.items) : z.items[i] \in Strs
    BY <1>0, <1>3, <2>1 DEF Strs, Legibles
  <2> DEFINE f == z.items
             n == Len(z.items)
  <2>3. f = [i \in 1..n |-> f[i]] /\ n \in Nat /\ \A i \in 1..n : f[i] \in Strs
    BY <1>1, <2>1, <2>2
  <2> HIDE DEF f, n
  <2>4. f \in Seq(Strs)
    BY <2>3, TypeOfSeq
  <2> QED
    BY <1>3, <2>1, <2>4 DEF f
<1>6. r.task = "rerank" => r.n = 0 /\ r.items \in Seq(Strs \X Strs) /\ Len(r.items) < WordMod
  <2> SUFFICES ASSUME r.task = "rerank" PROVE r.items \in Seq(Strs \X Strs) /\ r.n = 0 /\ Len(r.items) < WordMod
    OBVIOUS
  <2>1. r.items = z.items /\ r.n = 0 /\ r.items \in Seq(Legibles \X Legibles)
    BY <1>0
  <2>2. ASSUME NEW i \in 1..Len(z.items) PROVE z.items[i] \in Strs \X Strs
    <3> DEFINE x == z.items[i]
    <3>1. x \in Legibles \X Legibles /\ Len(x[1]) < WordMod /\ Len(x[2]) < WordMod
      BY <1>0, <1>3, <2>1
    <3> HIDE DEF x
    <3>2. x = <<x[1], x[2]>> /\ x[1] \in Legibles /\ x[2] \in Legibles
      BY <3>1
    <3>3. x[1] \in Strs /\ x[2] \in Strs
      BY <3>1, <3>2 DEF Legibles, Strs
    <3>4. <<x[1], x[2]>> \in Strs \X Strs
      BY <3>3
    <3> QED
      BY <3>2, <3>4 DEF x
  <2> DEFINE f == z.items
             n == Len(z.items)
             T == Strs \X Strs
  <2>3. f = [i \in 1..n |-> f[i]] /\ n \in Nat /\ \A i \in 1..n : f[i] \in T
    BY <1>1, <2>1, <2>2
  <2> HIDE DEF f, n, T
  <2>4. f \in Seq(T)
    BY <2>3, TypeOfSeq
  <2> QED
    BY <1>3, <2>1, <2>4 DEF f, T
<1>7. r.task = "evaluate" =>
         /\ r.n < WordMod /\ r.items \in Seq(Words) /\ Len(r.items) < WordMod
         /\ \E k \in Nat : Len(r.items) = k * r.n
  <2> SUFFICES ASSUME r.task = "evaluate"
               PROVE  /\ r.n < WordMod /\ r.items \in Seq(Words) /\ Len(r.items) < WordMod
                      /\ \E k \in Nat : Len(r.items) = k * r.n
    OBVIOUS
  <2>1. r.items = FlattenSeq(z.items) /\ z.items \in Seq(Seq(Words)) /\ r.items \in Seq(Words) /\ q.task = "evaluate"
    BY <1>0
  <2>2. r.n < WordMod
    <3>1. CASE z.items = <<>>
      BY <1>0, <1>1, <2>1, <3>1, UnitsAreNumbers DEF Width
    <3>2. CASE z.items # <<>>
      <4>1. 1 \in 1..Len(z.items)
        BY <2>1, <3>2
      <4>2. r.n = Len(z.items[1])
        BY <1>0, <1>1, <2>1, <3>2 DEF Width
      <4> QED
        BY <1>3, <2>1, <4>1, <4>2
    <3> QED
      BY <3>1, <3>2
  <2>3. OfWidth(z.items, r.n)
    BY <1>0, <1>1, <1>2, <2>1 DEF Ragged, OfWidth
  <2>4. Len(FlattenSeq(z.items)) = Len(z.items) * r.n
    BY <1>0, <2>1, <2>3, FlattenEqualLength
  <2> QED
    BY <1>1, <1>3, <2>1, <2>2, <2>4
<1>8. Len(r.items) < WordMod
  BY <1>0, <1>5, <1>6, <1>7 DEF TaskNames
<1>9. /\ r = [task |-> r.task, model |-> r.model, n |-> r.n, items |-> r.items] /\ r.task \in TaskNames
  BY <1>0
<1>10. Frameable(r)
  BY <1>0, <1>4, <1>5, <1>6, <1>7, <1>8, <1>9 DEF Frameable
<1> QED
  BY <1>10 DEF r, z

\* A part of a frame is no request, and neither is more than one.
LEMMA PartIsMalformed ==
    ASSUME NEW r, Frameable(r), r # Malformed, NEW x \in Seq(Units), Begins(x, EncodeRequest(r)),
           Len(x) < Len(EncodeRequest(r))
    PROVE  DecodeRequest(x) = Malformed
<1> DEFINE p == EncodeRequest(r)
<1>1. DecodeRequest(p) = r /\ p \in Seq(Units)
  BY RequestRead
<1>2. Begins(x, p) /\ Len(p) > Len(x)
  <2>1. Len(x) \in Nat /\ Len(p) \in Nat
    BY <1>1
  <2> QED
    BY <2>1
<1> HIDE DEF p
<1>3. DecodeRequest(x) # Malformed => \A w \in Seq(Units) : Begins(x, w) /\ Len(w) > Len(x) => DecodeRequest(w) = Malformed
  BY DecodesWhole
<1> QED
  BY <1>1, <1>2, <1>3

LEMMA MoreIsMalformed ==
    ASSUME NEW r, Frameable(r), r # Malformed, NEW x \in Seq(Units), Begins(EncodeRequest(r), x),
           Len(x) > Len(EncodeRequest(r))
    PROVE  DecodeRequest(x) = Malformed
<1> DEFINE p == EncodeRequest(r)
<1>1. DecodeRequest(p) = r /\ p \in Seq(Units)
  BY RequestRead
<1>2. Begins(p, x) /\ Len(x) > Len(p)
  OBVIOUS
<1> HIDE DEF p
<1>3. DecodeRequest(p) # Malformed => \A w \in Seq(Units) : Begins(p, w) /\ Len(w) > Len(p) => DecodeRequest(w) = Malformed
  BY <1>1, DecodesWhole
<1> QED
  BY <1>1, <1>2, <1>3

LEMMA BeginsTransitive ==
    ASSUME NEW x \in Seq(Units), NEW y \in Seq(Units), NEW z \in Seq(Units), Begins(x, y), Begins(y, z)
    PROVE  Begins(x, z)
<1>1. Len(x) \in Nat /\ Len(y) \in Nat /\ Len(z) \in Nat
  OBVIOUS
<1>2. Len(x) <= Len(y) /\ (\A k \in 1..Len(x) : y[k] = x[k]) /\ Len(y) <= Len(z) /\ (\A k \in 1..Len(y) : z[k] = y[k])
  BY DEF Begins
<1>3. \A k \in 1..Len(x) : k \in 1..Len(y)
  BY <1>1, <1>2
<1> QED
  BY <1>1, <1>2, <1>3 DEF Begins

LEMMA CutPart ==
    ASSUME NEW p \in Seq(Units), NEW k \in Nat
    PROVE  /\ Cut(p, k) \in Seq(Units) /\ Begins(Cut(p, k), p)
           /\ k = 0 => Cut(p, k) = p
           /\ k # 0 /\ p # <<>> => Len(Cut(p, k)) < Len(p)
<1> DEFINE x == Cut(p, k)
           n == Len(p)
           m == n - k
<1>1. n \in Nat /\ x = SubSeq(p, 1, m) /\ m \in Int /\ m <= n
  BY DEF Cut
<1>2. x \in Seq(Units) /\ Len(x) = (IF 1 <= m THEN m ELSE 0) /\ \A i \in 1..Len(x) : x[i] = p[i]
  <2>1. CASE 1 <= m
    <3>1. x \in Seq(Units) /\ Len(x) = m /\ \A i \in 1..m : x[i] = p[i]
      BY <1>1, <2>1
    <3> QED
      BY <2>1, <3>1
  <2>2. CASE ~(1 <= m)
    <3>1. x = <<>>
      BY <1>1, <2>2
    <3> QED
      BY <2>2, <3>1
  <2> QED
    BY <2>1, <2>2
<1> HIDE DEF x
<1>3. Begins(x, p)
  BY <1>1, <1>2 DEF Begins
<1>4. k = 0 => x = p
  <2> SUFFICES ASSUME k = 0 PROVE x = p
    OBVIOUS
  <2>1. m = n
    BY <1>1
  <2>2. Len(x) = n /\ \A i \in 1..n : x[i] = p[i]
    BY <1>1, <1>2, <2>1
  <2> QED
    BY <1>2, <2>2
<1>5. k # 0 /\ p # <<>> => Len(x) < n
  <2> SUFFICES ASSUME k # 0, p # <<>> PROVE Len(x) < n
    OBVIOUS
  <2>1. n > 0 /\ m < n
    BY <1>1
  <2> QED
    BY <1>1, <1>2, <2>1
<1> QED
  BY <1>2, <1>3, <1>4, <1>5 DEF x, n

LEMMA OneMoreWraps ==
    ASSUME NEW n \in Nat
    PROVE  (n + 1) % WordMod = n + 1 \/ (n + 1) % WordMod < n
<1> DEFINE m == WordMod
           k == n + 1
<1>1. m \in Nat /\ m > 1 /\ k \in Nat
  <2>1. WordMod \in Nat /\ WordMod > Base /\ Base >= 4 /\ Base \in Nat
    BY UnitsAreNumbers
  <2> QED
    BY <2>1
<1>2. k \div m \in Nat /\ k = m * (k \div m) + (k % m) /\ k % m \in Nat
  <2>0. m \in Nat \ {0} /\ k \in Nat
    BY <1>1
  <2> HIDE DEF m, k
  <2>1. k \div m \in Nat /\ k % m \in 0..(m - 1) /\ k = m * (k \div m) + (k % m)
    BY <2>0, Division
  <2> QED
    BY <2>0, <2>1
<1> DEFINE d == k \div m
           e == k % m
           w == m * d
<1>3. d = 0 \/ d >= 1
  BY <1>2
<1>4. d = 0 => e = k
  BY <1>1, <1>2
<1>5. d >= 1 => w >= m
  <2> SUFFICES ASSUME d >= 1 PROVE w >= m
    OBVIOUS
  <2>1. d \in Nat
    BY <1>2
  <2> HIDE DEF d, m
  <2> QED
    BY <1>1, <2>1
<1>6. k = w + e /\ e \in Nat /\ w \in Nat
  <2>1. d \in Nat /\ m \in Nat /\ k = w + e /\ e \in Nat
    BY <1>1, <1>2
  <2> HIDE DEF d, m, k, e
  <2>2. w \in Nat
    BY <2>1
  <2> QED
    BY <2>1, <2>2
<1> HIDE DEF d, e, w, m
<1>7. e = n + 1 \/ e < n
  BY <1>1, <1>3, <1>4, <1>5, <1>6 DEF k
<1> QED
  BY <1>7 DEF e, k, m

LEMMA DamagedType ==
    ASSUME NEW q, NEW whole \in Seq(Units), Len(whole) >= 6, whole[1] = ProtocolVersion, q.cut \in Nat
    PROVE  /\ Damaged(q, whole) \in Seq(Units)
           /\ q.damage = "version" => Damaged(q, whole)[1] = 2
           /\ q.damage = "task" => Damaged(q, whole)[2] = 3
           /\ q.damage = "trailing" => Begins(whole, Damaged(q, whole)) /\ Len(Damaged(q, whole)) = Len(whole) + 1
           /\ q.damage = "cut" => Damaged(q, whole) = Cut(whole, q.cut)
           /\ q.damage \notin {"version", "task", "trailing", "cut"} => Damaged(q, whole) = whole
<1> DEFINE y == Damaged(q, whole)
           n == Len(whole)
<1>1. 0 \in Units /\ 2 \in Units /\ 3 \in Units
  BY UnitsAreNumbers
<1>2. n \in Nat /\ 1 \in 1..n /\ 2 \in 1..n
  OBVIOUS
<1>3. ASSUME q.damage = "version" PROVE y \in Seq(Units) /\ y[1] = 2
  <2>1. y = [whole EXCEPT ![1] = whole[1] + 1] /\ whole[1] + 1 = 2
    BY <1>3 DEF Damaged, ProtocolVersion
  <2> HIDE DEF y
  <2> QED
    BY <1>1, <1>2, <2>1
<1>4. ASSUME q.damage = "task" PROVE y \in Seq(Units) /\ y[2] = 3
  <2>1. y = [whole EXCEPT ![2] = 3]
    BY <1>4 DEF Damaged
  <2> HIDE DEF y
  <2> QED
    BY <1>1, <1>2, <2>1
<1>5. ASSUME q.damage = "trailing" PROVE y \in Seq(Units) /\ Begins(whole, y) /\ Len(y) = n + 1
  <2>1. y = Append(whole, 0)
    BY <1>5 DEF Damaged
  <2> HIDE DEF y
  <2>2. y \in Seq(Units) /\ Len(y) = n + 1 /\ \A i \in 1..n : y[i] = whole[i]
    BY <1>1, <2>1
  <2> QED
    BY <1>2, <2>2 DEF Begins
<1>6. ASSUME q.damage = "cut" PROVE y \in Seq(Units) /\ y = Cut(whole, q.cut)
  <2>1. y = Cut(whole, q.cut)
    BY <1>6 DEF Damaged
  <2> QED
    BY <2>1, CutPart
<1>7. ASSUME q.damage \notin {"version", "task", "trailing", "cut"} PROVE y = whole /\ y \in Seq(Units)
  BY <1>7 DEF Damaged
<1> QED
  BY <1>3, <1>4, <1>5, <1>6, <1>7

LEMMA SentShape ==
    ASSUME NEW q, Asked(q), q.channel = "socket"
    PROVE  LET p == EncodeRequest(AsRequest(q))
               y == Damaged(q, p)
           IN  /\ p \in Seq(Units) /\ Len(p) >= 6 /\ p[1] = ProtocolVersion /\ y \in Seq(Units)
               /\ Sent(q) = Word(IF q.damage = "length" THEN Len(y) + 1 ELSE Len(y)) \o y
               /\ Sent(q) \in Seq(Units) /\ Len(Sent(q)) >= 2
<1> DEFINE p == EncodeRequest(AsRequest(q))
           y == Damaged(q, p)
           n == IF q.damage = "length" THEN Len(y) + 1 ELSE Len(y)
<1>1. Soft(AsRequest(q))
  <2>1. AsRead(q) = q
    BY ReadType
  <2>2. Soft(AsRequest(AsRead(q)))
    BY RequestOf
  <2> QED
    BY <2>1, <2>2
<1>2. p \in Seq(Units) /\ Len(p) >= 6 /\ p[1] = ProtocolVersion
  BY <1>1, RequestType
<1>3. q.cut \in Nat
  BY AskedType
<1> HIDE DEF p
<1>4. y \in Seq(Units) /\ Len(y) \in Nat
  BY <1>2, <1>3, DamagedType
<1>5. Sent(q) = Word(n) \o y
  BY DEF Sent, Framed, Frame, p
<1> HIDE DEF y
<1>6. n \in Nat
  BY <1>4
<1> HIDE DEF n
<1>7. Word(n) \o y \in Seq(Units) /\ Len(Word(n) \o y) = Len(y) + 2
  BY <1>4, <1>6, PrefixedRead
<1>8. Len(y) + 2 >= 2
  BY <1>4
<1> QED
  BY <1>2, <1>4, <1>5, <1>7, <1>8 DEF y, p, n

\* What a reader takes for the payload behind a length.
LEMMA PayloadTaken ==
    ASSUME NEW n \in Nat, NEW y \in Seq(Units), NEW w, w = Word(n) \o y, WordAt(w, 1) + 2 <= Len(w)
    PROVE  LET x == SubSeq(w, 3, WordAt(w, 1) + 2)
           IN  /\ x \in Seq(Units) /\ Len(x) = n % WordMod /\ Begins(x, y) /\ n % WordMod <= Len(y)
               /\ n % WordMod = Len(y) => x = y
<1> DEFINE l == n % WordMod
           m == Len(y)
           x == SubSeq(w, 3, l + 2)
<1>1. /\ w \in Seq(Units) /\ Len(w) = m + 2 /\ WordAt(w, 1) = l
      /\ \A k \in 0..m : /\ SubSeq(w, 3, k + 2) \in Seq(Units) /\ Len(SubSeq(w, 3, k + 2)) = k
                         /\ Begins(SubSeq(w, 3, k + 2), y)
      /\ SubSeq(w, 3, m + 2) = y
  BY PrefixedRead
<1>2. l \in Nat /\ m \in Nat /\ l + 2 <= m + 2
  <2>1. WordMod \in Nat /\ WordMod > 0
    BY UnitsAreNumbers
  <2>2. l \in Nat
    BY <2>1, ModSmall
  <2> QED
    BY <1>1, <2>2
<1> HIDE DEF l, m
<1>3. l \in 0..m
  BY <1>2
<1>4. x \in Seq(Units) /\ Len(x) = l /\ Begins(x, y)
  BY <1>1, <1>3
<1>5. l <= m /\ (l = m => x = y)
  BY <1>1, <1>2
<1> QED
  BY <1>1, <1>4, <1>5 DEF l, m

LEMMA WordAtType ==
    ASSUME NEW w \in Seq(Units), Len(w) >= 2
    PROVE  WordAt(w, 1) \in Nat
<1>1. w \in Seq(Nat) /\ Base \in Nat
  BY Numbers, UnitsAreNumbers
<1>2. w[1] \in Nat /\ w[2] \in Nat /\ Base \in Nat
  BY <1>1
<1> DEFINE a == w[1]
           b == w[2]
<1>3. WordAt(w, 1) = a + Base * b
  BY DEF WordAt
<1> HIDE DEF a, b
<1>4. a + Base * b \in Nat
  BY <1>2 DEF a, b
<1> QED
  BY <1>3, <1>4

\* The payload of a frame that is there, and what its length does not count.
LEMMA FrameParts ==
    ASSUME NEW w \in Seq(Units), FrameIn(w)
    PROVE  /\ Payload(w) \in Seq(Units) /\ Rest(w) \in Seq(Units)
           /\ Rest(w) = <<>> <=> Len(w) = WordAt(w, 1) + 2
<1> DEFINE n == WordAt(w, 1)
           l == Len(w)
<1>1. n \in Nat /\ l \in Nat /\ n + 2 <= l
  BY WordAtType DEF FrameIn
<1>2. Payload(w) = SubSeq(w, 3, n + 2) /\ Rest(w) = SubSeq(w, n + 3, l)
  BY DEF Payload, Rest
<1> HIDE DEF n
<1>3. Payload(w) \in Seq(Units)
  BY <1>1, <1>2
<1>4. Rest(w) \in Seq(Units) /\ Len(Rest(w)) = l - (n + 2)
  BY <1>1, <1>2
<1>5. Rest(w) = <<>> <=> Len(Rest(w)) = 0
  BY <1>4
<1> HIDE DEF l
<1>6. Rest(w) = <<>> <=> l = n + 2
  BY <1>1, <1>4, <1>5
<1> QED
  BY <1>3, <1>4, <1>6 DEF n, l

\* A frame whose length is not too long comes back whole.
LEMMA FrameWhole ==
    ASSUME NEW p \in Seq(Units)
    PROVE  LET w == Frame(p)
           IN  /\ w \in Seq(Units) /\ Len(w) >= 2 /\ FrameIn(w) /\ Begins(Payload(w), p)
               /\ Len(p) <= MaxFrame => ~TooLong(w) /\ Payload(w) = p /\ Rest(w) = <<>>
<1> DEFINE n == Len(p)
           w == Word(n) \o p
<1>1. n \in Nat /\ Frame(p) = w
  BY DEF Frame
<1>2. WordMod \in Nat /\ WordMod > 0 /\ MaxFrame \in Nat /\ MaxFrame < WordMod
  BY UnitsAreNumbers, WireAssumption
<1>3. n % WordMod \in Nat /\ n % WordMod <= n /\ (n <= MaxFrame => n % WordMod = n)
  <2> HIDE DEF n
  <2>1. n <= MaxFrame => n < WordMod
    BY <1>1, <1>2
  <2> QED
    BY <1>1, <1>2, <2>1, ModSmall
<1>4. w \in Seq(Units) /\ Len(w) = n + 2 /\ WordAt(w, 1) = n % WordMod
  <2> HIDE DEF n
  <2>1. LET u == Word(n) \o p IN u \in Seq(Units) /\ Len(u) = Len(p) + 2 /\ WordAt(u, 1) = n % WordMod
    BY <1>1, PrefixedRead
  <2> QED
    BY <2>1 DEF n
<1> DEFINE k == n % WordMod
<1>5. k \in Nat /\ k <= n /\ (n <= MaxFrame => k = n)
  BY <1>3
<1> HIDE DEF k, w
<1>6. WordAt(w, 1) = k
  BY <1>4 DEF k
<1> HIDE DEF n
<1>7. Len(w) >= 2 /\ k + 2 <= Len(w)
  BY <1>1, <1>4, <1>5
<1>8. FrameIn(w)
  BY <1>6, <1>7 DEF FrameIn
<1>9. Begins(Payload(w), p) /\ (k = n => Payload(w) = p)
  <2>1. /\ Begins(SubSeq(w, 3, WordAt(w, 1) + 2), p)
        /\ n % WordMod = Len(p) => SubSeq(w, 3, WordAt(w, 1) + 2) = p
    BY <1>1, <1>6, <1>7, PayloadTaken DEF w
  <2> QED
    BY <2>1 DEF Payload, k, n
<1>10. ASSUME n <= MaxFrame PROVE ~TooLong(w) /\ Payload(w) = p /\ Rest(w) = <<>>
  <2>1. k = n /\ Len(w) = k + 2
    BY <1>4, <1>5, <1>10
  <2>2. ~TooLong(w)
    BY <1>1, <1>2, <1>6, <1>10, <2>1 DEF TooLong
  <2>3. Rest(w) = <<>>
    BY <1>4, <1>6, <1>8, <2>1, FrameParts
  <2> QED
    BY <1>9, <2>1, <2>2, <2>3
<1> QED
  BY <1>1, <1>4, <1>7, <1>8, <1>9, <1>10 DEF n

LEMMA SpoiltHeard ==
    ASSUME NEW q, Asked(q), q.channel = "socket", Countable(q), q.damage # "none",
           WordAt(Sent(q), 1) + 2 <= Len(Sent(q))
    PROVE  DecodeRequest(SubSeq(Sent(q), 3, WordAt(Sent(q), 1) + 2)) = Malformed
<1> DEFINE r == AsRequest(q)
           p == EncodeRequest(r)
           y == Damaged(q, p)
           n == IF q.damage = "length" THEN Len(y) + 1 ELSE Len(y)
           w == Sent(q)
           x == SubSeq(w, 3, WordAt(w, 1) + 2)
<1>1. AsRead(q) = q /\ ~Ragged(q)
  BY ReadType, AskedType
<1>2. Frameable(r) /\ r # Malformed
  <2>1. Frameable(AsRequest(AsRead(q)))
    BY <1>1, FrameableRequest
  <2>2. AsRequest(AsRead(q)) # Malformed
    BY RequestOf
  <2> QED
    BY <1>1, <2>1, <2>2
<1>3. p \in Seq(Units) /\ Len(p) >= 6 /\ p[1] = ProtocolVersion /\ y \in Seq(Units) /\ w = Word(n) \o y
  BY SentShape
<1>4. /\ q.damage \in {"version", "task", "trailing", "length", "cut"}
      /\ q.cut \in Nat /\ (q.damage = "cut" <=> q.cut # 0)
  BY AskedType
<1> HIDE DEF r, p
<1>5. /\ q.damage = "version" => y[1] = 2
      /\ q.damage = "task" => y[2] = 3
      /\ q.damage = "trailing" => Begins(p, y) /\ Len(y) = Len(p) + 1
      /\ q.damage = "cut" => y = Cut(p, q.cut)
      /\ q.damage = "length" => y = p
  <2>1. /\ q.damage = "version" => Damaged(q, p)[1] = 2
        /\ q.damage = "task" => Damaged(q, p)[2] = 3
        /\ q.damage = "trailing" => Begins(p, Damaged(q, p)) /\ Len(Damaged(q, p)) = Len(p) + 1
        /\ q.damage = "cut" => Damaged(q, p) = Cut(p, q.cut)
        /\ q.damage \notin {"version", "task", "trailing", "cut"} => Damaged(q, p) = p
    BY <1>3, <1>4, DamagedType
  <2> QED
    BY <2>1
<1>6. n \in Nat /\ Len(y) \in Nat /\ Len(p) \in Nat
  BY <1>3
<1>7. WordAt(w, 1) + 2 <= Len(w)
  OBVIOUS
<1> HIDE DEF y, w, n
<1>8. x \in Seq(Units) /\ Len(x) = n % WordMod /\ Begins(x, y) /\ n % WordMod <= Len(y)
  BY <1>3, <1>6, <1>7, PayloadTaken
<1> SUFFICES DecodeRequest(x) = Malformed
  BY DEF w
<1> HIDE DEF x
<1>9. Len(x) \in Nat
  BY <1>8
<1>10. DecodeRequest(x) # Malformed => Len(x) >= 2 /\ x[1] = ProtocolVersion /\ x[2] \in 0..2
  BY <1>8, DecodesWhole
<1>11. Len(x) >= 2 => x[1] = y[1] /\ x[2] = y[2]
  <2> SUFFICES ASSUME Len(x) >= 2 PROVE x[1] = y[1] /\ x[2] = y[2]
    OBVIOUS
  <2>1. 1 \in 1..Len(x) /\ 2 \in 1..Len(x)
    BY <1>9
  <2> QED
    BY <1>8, <2>1 DEF Begins
<1>12. CASE q.damage = "version"
  BY <1>5, <1>10, <1>11, <1>12 DEF ProtocolVersion
<1>13. CASE q.damage = "task"
  BY <1>5, <1>10, <1>11, <1>13
<1>14. CASE q.damage = "cut"
  <2>1. Begins(y, p) /\ Len(y) < Len(p)
    <3>1. p # <<>>
      BY <1>3
    <3> QED
      BY <1>3, <1>4, <1>5, <1>14, <3>1, CutPart
  <2>2. Begins(x, p)
    BY <1>3, <1>8, <2>1, BeginsTransitive
  <2>3. Len(x) < Len(p)
    BY <1>6, <1>8, <1>9, <2>1
  <2> QED
    BY <1>2, <1>8, <2>2, <2>3, PartIsMalformed DEF p
<1>15. CASE q.damage = "length"
  <2>1. y = p /\ n = Len(p) + 1
    BY <1>5, <1>15 DEF n
  <2>2. Len(x) < Len(p)
    <3> DEFINE a == Len(p)
               b == (a + 1) % WordMod
    <3>1. a \in Nat /\ Len(x) = b /\ b <= a /\ Len(x) \in Nat
      BY <1>6, <1>8, <1>9, <2>1
    <3> HIDE DEF a
    <3>2. b = a + 1 \/ b < a
      BY <3>1, OneMoreWraps
    <3> HIDE DEF b
    <3>3. Len(x) < a
      BY <3>1, <3>2
    <3> QED
      BY <3>3 DEF a
  <2> QED
    BY <1>2, <1>8, <2>1, <2>2, PartIsMalformed DEF p
<1>16. CASE q.damage = "trailing"
  <2>1. Begins(p, y) /\ Len(y) = Len(p) + 1 /\ n = Len(p) + 1
    BY <1>5, <1>16 DEF n
  <2>2. Len(x) = Len(p) + 1 \/ Len(x) < Len(p)
    <3> DEFINE a == Len(p)
    <3>1. a \in Nat /\ Len(x) = (a + 1) % WordMod
      BY <1>6, <1>8, <2>1
    <3> HIDE DEF a
    <3>2. Len(x) = a + 1 \/ Len(x) < a
      BY <3>1, OneMoreWraps
    <3> QED
      BY <3>2 DEF a
  <2>3. CASE Len(x) = Len(p) + 1
    <3>1. \A k \in 1..Len(p) : k \in 1..Len(x) /\ y[k] = p[k]
      BY <1>6, <2>1, <2>3 DEF Begins
    <3>2. \A k \in 1..Len(p) : x[k] = p[k]
      BY <1>8, <3>1 DEF Begins
    <3>3. Begins(p, x) /\ Len(x) > Len(p)
      BY <1>6, <2>3, <3>2 DEF Begins
    <3> QED
      BY <1>2, <1>8, <3>3, MoreIsMalformed DEF p
  <2>4. CASE Len(x) < Len(p)
    <3>1. \A k \in 1..Len(x) : k \in 1..Len(p) /\ y[k] = x[k]
      BY <1>6, <1>8, <1>9, <2>4 DEF Begins
    <3>2. \A k \in 1..Len(x) : p[k] = x[k]
      BY <2>1, <3>1 DEF Begins
    <3>3. Begins(x, p)
      BY <1>6, <1>9, <2>4, <3>2 DEF Begins
    <3> QED
      BY <1>2, <1>8, <2>4, <3>3, PartIsMalformed DEF p
  <2> QED
    BY <2>2, <2>3, <2>4
<1> QED
  BY <1>4, <1>12, <1>13, <1>14, <1>15, <1>16

\* A countable request is on the wire as it is to be sent.
LEMMA SentAsFrame ==
    ASSUME NEW s, Asked(s.ask), s.ask.channel # "http", OnWire(s), Countable(AsRead(s.ask))
    PROVE  s.wire = FrameAsSent(AsRead(s.ask)) /\ AsRead(s.ask).channel = s.ask.channel
<1> DEFINE q == s.ask
           z == AsRead(q)
<1>1. q.channel \in {"pipe", "socket"}
  BY AskedType
<1>2. z.channel = q.channel
  <2>1. z = [channel |-> q.channel, task |-> q.task, model |-> z.model, items |-> z.items,
             option |-> q.option, damage |-> q.damage, cut |-> q.cut]
    BY ReadType
  <2> HIDE DEF z
  <2> QED
    BY <2>1
<1>3. CASE q.channel = "pipe"
  BY <1>2, <1>3 DEF OnWire, FrameAsSent
<1>4. CASE q.channel = "socket"
  <2>1. z = q
    BY <1>4, ReadType
  <2> QED
    BY <1>2, <1>4, <2>1 DEF OnWire, FrameAsSent
<1> QED
  BY <1>1, <1>2, <1>3, <1>4

\* What the daemon reads of a frame is what was asked or nothing at all.
LEMMA FrameHeard ==
    ASSUME NEW s, IsSent(s), FrameIn(s.wire)
    PROVE  LET h == DecodeRequest(Payload(s.wire))
           IN  HeardRight(s.ask, h) /\ (h # Malformed => Requested(h))
<1> DEFINE q == s.ask
           w == s.wire
           z == AsRead(q)
           x == Payload(w)
           h == DecodeRequest(x)
<1>1. Asked(q) /\ q.channel # "http" /\ OnWire(s)
  BY DEF IsSent
<1>2. w \in Seq(Units) /\ Len(w) >= 2 /\ FrameIn(w)
  BY <1>1 DEF OnWire
<1>3. h # Malformed => Requested(h)
  BY <1>2, FrameParts, DecodesWhole
<1>4. ASSUME Countable(z)
      PROVE  /\ ~Ragged(z)
             /\ \/ h = AsRequest(z) /\ q.damage = "none" /\ ~Overruns(z)
                \/ h = Malformed /\ (q.damage # "none" \/ Overruns(z))
  <2>1. q.channel \in {"pipe", "socket"} /\ (q.channel = "socket" => z = q /\ ~Ragged(q))
    BY <1>1, AskedType, ReadType
  <2>2. ~Ragged(z)
    BY <1>1, <1>4, <2>1 DEF OnWire
  <2>3. CASE q.channel = "socket" /\ q.damage # "none"
    <3>1. w = Sent(q) /\ Countable(q)
      BY <1>1, <1>4, <2>1, <2>3 DEF OnWire
    <3>2. WordAt(Sent(q), 1) + 2 <= Len(Sent(q))
      BY <1>2, <3>1 DEF FrameIn
    <3>3. DecodeRequest(SubSeq(Sent(q), 3, WordAt(Sent(q), 1) + 2)) = Malformed
      BY <1>1, <2>3, <3>1, <3>2, SpoiltHeard
    <3>4. h = Malformed
      BY <3>1, <3>3 DEF Payload
    <3> QED
      BY <2>2, <2>3, <3>4
  <2>4. CASE q.damage = "none"
    <3> DEFINE r == AsRequest(z)
               p == EncodeRequest(r)
               n == Len(p)
    <3>1. Frameable(r) /\ r # Malformed /\ p \in Seq(Units) /\ n \in Nat /\ DecodeRequest(p) = r
      <4>1. Frameable(r) /\ r # Malformed
        BY <1>1, <1>4, <2>2, FrameableRequest, RequestOf
      <4>2. p \in Seq(Units) /\ DecodeRequest(p) = r
        BY <4>1, RequestRead
      <4> QED
        BY <4>1, <4>2
    <3>2. w = FrameAsSent(z) /\ z.channel = q.channel
      BY <1>1, <1>4, SentAsFrame
    <3>3. w = Word(n) \o p
      <4>1. CASE q.channel = "pipe"
        BY <3>2, <4>1 DEF FrameAsSent, Frame
      <4>2. CASE q.channel = "socket"
        <5>1. w = Sent(q) /\ z = q
          BY <1>1, <2>1, <4>2 DEF OnWire
        <5>2. Damaged(q, p) = p
          BY <2>4 DEF Damaged
        <5>3. Sent(q) = Word(n) \o p
          BY <2>4, <5>1, <5>2 DEF Sent, Framed, Frame
        <5> QED
          BY <5>1, <5>3
      <4> QED
        BY <2>1, <4>1, <4>2
    <3>4. Overruns(z) <=> Rest(w) # <<>>
      BY <1>1, <1>2, <3>2 DEF Overruns
    <3>5. WordAt(w, 1) + 2 <= Len(w)
      BY <1>2 DEF FrameIn
    <3> HIDE DEF p, w, n
    <3>6. Len(w) = n + 2 /\ WordAt(w, 1) = n % WordMod
      <4>1. LET u == Word(n) \o p IN Len(u) = Len(p) + 2 /\ WordAt(u, 1) = n % WordMod
        BY <3>1, PrefixedRead
      <4> QED
        BY <3>3, <4>1 DEF n
    <3> DEFINE k == n % WordMod
    <3>7. x \in Seq(Units) /\ Len(x) = k /\ Begins(x, p) /\ k <= n /\ (k = n => x = p) /\ k \in Nat
      <4>1. LET y == SubSeq(w, 3, WordAt(w, 1) + 2)
            IN  /\ y \in Seq(Units) /\ Len(y) = n % WordMod /\ Begins(y, p) /\ n % WordMod <= Len(p)
                /\ n % WordMod = Len(p) => y = p
        BY <3>1, <3>3, <3>5, PayloadTaken
      <4>2. x \in Seq(Units) /\ Len(x) = k /\ Begins(x, p) /\ k <= n /\ (k = n => x = p)
        BY <4>1 DEF Payload, n
      <4> QED
        BY <4>2
    <3>8. Rest(w) = <<>> <=> Len(w) = WordAt(w, 1) + 2
      BY <1>2, FrameParts
    <3> HIDE DEF k, x
    <3>9. Rest(w) = <<>> <=> k = n
      BY <3>1, <3>6, <3>7, <3>8 DEF k
    <3>10. CASE k = n
      BY <2>2, <2>4, <3>1, <3>4, <3>7, <3>9, <3>10
    <3>11. CASE k # n
      <4>1. Len(x) < Len(p)
        BY <3>1, <3>7, <3>11 DEF n
      <4> HIDE DEF r
      <4>2. DecodeRequest(x) = Malformed
        BY <3>1, <3>7, <4>1, PartIsMalformed DEF p
      <4> QED
        BY <2>2, <3>4, <3>9, <3>11, <4>2
    <3> QED
      BY <3>10, <3>11
  <2>5. q.channel = "pipe" => q.damage = "none"
    BY <1>1, <1>4 DEF OnWire
  <2> QED
    BY <2>1, <2>3, <2>4, <2>5
<1> QED
  BY <1>3, <1>4 DEF HeardRight

-----------------------------------------------------------------------------
\* The pipe.

LEMMA WrittenType ==
    ASSUME NEW q, Asked(q)
    PROVE  LET b == Block(RowsWritten(q.task, q.model, q.items))
           IN  b \in Seq(Units) /\ Written(q) = Cut(b, q.cut) /\ Written(q) \in Seq(Units)
<1> DEFINE b == Block(RowsWritten(q.task, q.model, q.items))
<1>1. /\ q.task \in TaskNames /\ q.model \in Seq(Units) /\ q.cut \in Nat
      /\ q.task = "embed" => q.items \in Seq(Seq(Units))
      /\ q.task = "rerank" => q.items \in Seq(Seq(Units) \X Seq(Units))
      /\ q.task = "evaluate" => q.items \in Seq(Seq(Words))
  BY AskedType
<1>2. q.items \in Seq(SoftItem(q.task))
  <2>1. q.task = "evaluate" => q.items \in Seq(Seq(Nat))
    <3>1. Seq(Words) \subseteq Seq(Nat)
      BY UnitsAreNumbers, WiderSeq
    <3> QED
      BY <1>1, <3>1, WiderSeq
  <2> QED
    BY <1>1, <2>1 DEF SoftItem, TaskNames
<1>3. b \in Seq(Units)
  BY <1>1, <1>2, SoftBlock
<1>4. Written(q) = Cut(b, q.cut)
  BY DEF Written, RowsWritten
<1> HIDE DEF b
<1>5. Cut(b, q.cut) \in Seq(Units)
  BY <1>1, <1>3, CutPart
<1> QED
  BY <1>3, <1>4, <1>5 DEF b

\* What counts for the reader counts for the writer: lossy text is no shorter.
LEMMA CountableRow ==
    ASSUME NEW q, Asked(q), q.channel = "pipe", Countable(AsRead(q))
    PROVE  q.model \in RowText /\ q.items \in Seq(RowItems(q.task)) /\ Len(q.items) < WordMod
<1> DEFINE z == AsRead(q)
           n == Len(q.items)
<1>1. /\ q.task \in TaskNames /\ q.model \in Seq(Units)
      /\ q.task = "embed" => q.items \in Seq(Seq(Units))
      /\ q.task = "rerank" => q.items \in Seq(Seq(Units) \X Seq(Units))
      /\ q.task = "evaluate" => q.items \in Seq(Seq(Words))
  BY AskedType
<1>2. /\ z = [channel |-> q.channel, task |-> q.task, model |-> z.model, items |-> z.items,
              option |-> q.option, damage |-> q.damage, cut |-> q.cut]
      /\ Len(z.items) = n /\ DOMAIN z.items = 1..n /\ n \in Nat
      /\ z.model = Lossy(q.model)
      /\ z.items = [i \in 1..n |-> Legible(q.task, q.items[i])]
  BY ReadType
<1>3. Countable(z)
  OBVIOUS
<1> HIDE DEF z
<1>4. z.task = q.task
  BY <1>2
<1>5. /\ Len(Lossy(q.model)) < WordMod /\ n < WordMod
      /\ \A i \in 1..n :
            CASE q.task = "embed"    -> Len(z.items[i]) < WordMod
              [] q.task = "rerank"   -> Len(z.items[i][1]) < WordMod /\ Len(z.items[i][2]) < WordMod
              [] q.task = "evaluate" -> Len(z.items[i]) < WordMod
  BY <1>2, <1>3, <1>4 DEF Countable
<1>6. \A s \in Seq(Units) : Len(Lossy(s)) < WordMod => s \in RowText
  <2> TAKE s \in Seq(Units)
  <2>1. Len(s) <= Len(Lossy(s)) /\ Lossy(s) \in Seq(Units) /\ WordMod \in Nat
    BY LossyLonger, LossyType, UnitsAreNumbers
  <2>2. Len(s) \in Nat /\ Len(Lossy(s)) \in Nat
    BY <2>1
  <2> QED
    BY <2>1, <2>2 DEF RowText
<1>7. q.model \in RowText
  BY <1>1, <1>5, <1>6
<1>8. ASSUME NEW i \in 1..n PROVE q.items[i] \in RowItems(q.task)
  <2>1. z.items[i] = Legible(q.task, q.items[i])
    BY <1>2
  <2>2. CASE q.task = "embed"
    <3>1. q.items[i] \in Seq(Units) /\ Len(Lossy(q.items[i])) < WordMod
      BY <1>1, <1>5, <2>1, <2>2 DEF Legible
    <3> QED
      BY <1>6, <2>2, <3>1 DEF RowItems
  <2>3. CASE q.task = "rerank"
    <3> DEFINE x == q.items[i]
    <3>1. x \in Seq(Units) \X Seq(Units) /\ Len(z.items[i][1]) < WordMod /\ Len(z.items[i][2]) < WordMod
      BY <1>1, <1>5, <2>3
    <3> HIDE DEF x
    <3>2. z.items[i] = <<Lossy(x[1]), Lossy(x[2])>>
      BY <2>1, <2>3 DEF Legible, x
    <3>3. x = <<x[1], x[2]>> /\ x[1] \in Seq(Units) /\ x[2] \in Seq(Units)
      BY <3>1
    <3>4. x[1] \in RowText /\ x[2] \in RowText
      BY <1>6, <3>1, <3>2, <3>3
    <3>5. <<x[1], x[2]>> \in RowText \X RowText
      BY <3>4
    <3> QED
      BY <2>3, <3>3, <3>5 DEF RowItems, x
  <2>4. CASE q.task = "evaluate"
    <3>1. q.items[i] \in Seq(Words) /\ Len(q.items[i]) < WordMod
      BY <1>1, <1>5, <2>1, <2>4 DEF Legible
    <3> QED
      BY <2>4, <3>1 DEF RowItems
  <2> QED
    BY <1>1, <2>2, <2>3, <2>4 DEF TaskNames
<1> DEFINE f == q.items
           T == RowItems(q.task)
<1>9. f = [i \in 1..n |-> f[i]]
  <2>1. q.task = "embed" \/ q.task = "rerank" \/ q.task = "evaluate"
    BY <1>1 DEF TaskNames
  <2>2. f \in Seq(Seq(Units)) \/ f \in Seq(Seq(Units) \X Seq(Units)) \/ f \in Seq(Seq(Words))
    BY <1>1, <2>1
  <2> QED
    BY <2>2
<1>10. n \in Nat /\ \A i \in 1..n : f[i] \in T
  BY <1>2, <1>8
<1> HIDE DEF f, T, n
<1>11. f \in Seq(T)
  BY <1>9, <1>10, TypeOfSeq
<1> QED
  BY <1>5, <1>7, <1>11 DEF f, T, n

\* What the bridge reads of the block: what was written, or nothing of one cut short.
LEMMA WrittenRead ==
    ASSUME NEW q, Asked(q), q.channel = "pipe", Countable(AsRead(q))
    PROVE  LET rows == ReadBlock(q.task, Written(q))
           IN  /\ q.damage = "none" =>
                     rows = [i \in 1..Len(q.items) |-> <<AsRead(q).model, AsRead(q).items[i]>>] /\ rows # Malformed
               /\ q.damage # "none" => rows = Malformed
<1> DEFINE z == AsRead(q)
           n == Len(q.items)
           b == Block(RowsWritten(q.task, q.model, q.items))
           rows == ReadBlock(q.task, Written(q))
<1>1. q.model \in RowText /\ q.items \in Seq(RowItems(q.task)) /\ n < WordMod
  BY CountableRow
<1>2. q.task \in TaskNames /\ q.cut \in Nat /\ (q.damage = "cut" <=> q.cut # 0) /\ q.damage \in {"none", "cut"}
  BY AskedType
<1>3. BlockReads(q.task, q.model, q.items, b)
  BY <1>1, <1>2, BlockRead
<1>4. b \in Seq(Units) /\ Written(q) = Cut(b, q.cut)
  BY WrittenType
<1>5. /\ z.model = Lossy(q.model) /\ z.model \in Legibles /\ z.items \in Seq(ReadItem(q.task))
      /\ z.items = [i \in 1..n |-> Legible(q.task, q.items[i])] /\ n \in Nat
  BY ReadType
<1>6. b # <<>>
  <2>1. /\ b = VarUint[n] \o FlattenSeq(RowsWritten(q.task, q.model, q.items))
        /\ Len(b) = Len(VarUint[n]) + Len(FlattenSeq(RowsWritten(q.task, q.model, q.items)))
        /\ Len(VarUint[n]) \in Nat /\ Len(FlattenSeq(RowsWritten(q.task, q.model, q.items))) \in Nat
    BY <1>1, <1>2, BlockType
  <2>2. Len(VarUint[n]) # 0
    BY <1>1, <1>5, CountHeld
  <2>3. Len(b) # 0
    <3> DEFINE u == Len(VarUint[n])
               v == Len(FlattenSeq(RowsWritten(q.task, q.model, q.items)))
    <3>1. Len(b) = u + v /\ u \in Nat /\ v \in Nat /\ u # 0
      BY <2>1, <2>2
    <3> HIDE DEF b, u, v
    <3> QED
      BY <3>1
  <2> QED
    BY <2>3
<1>7. ASSUME q.damage = "none"
      PROVE  rows = [i \in 1..n |-> <<z.model, z.items[i]>>] /\ rows # Malformed
  <2>1. Written(q) = b
    BY <1>2, <1>4, <1>7, CutPart
  <2>2. rows = RowsAsRead(q.task, q.model, q.items)
    BY <1>3, <2>1 DEF BlockReads
  <2>3. rows = [i \in 1..n |-> <<Lossy(q.model), Legible(q.task, q.items[i])>>]
    BY <2>2 DEF RowsAsRead
  <2> HIDE DEF rows, z
  <2> DEFINE f == [i \in 1..n |-> <<z.model, z.items[i]>>]
             T == Seq(Units) \X (Seq(Units) \cup (Seq(Units) \X Seq(Units)) \cup Seq(Nat))
  <2>4. rows = f
    BY <1>5, <2>3
  <2>5. \A i \in 1..n : f[i] \in T
    <3> TAKE i \in 1..n
    <3>1. f[i] = <<z.model, z.items[i]>> /\ z.items[i] \in ReadItem(q.task) /\ z.model \in Seq(Units)
      <4>1. Len(z.items) = n
        BY <1>5
      <4> QED
        BY <1>5, <4>1 DEF Legibles
    <3>2. ReadItem(q.task) \subseteq Seq(Units) \cup (Seq(Units) \X Seq(Units)) \cup Seq(Nat)
      <4>1. Legibles \subseteq Seq(Units)
        BY DEF Legibles
      <4>2. Seq(Words) \subseteq Seq(Nat)
        BY UnitsAreNumbers, WiderSeq
      <4>3. Legibles \X Legibles \subseteq Seq(Units) \X Seq(Units)
        BY <4>1
      <4> QED
        BY <1>2, <4>1, <4>2, <4>3 DEF ReadItem, TaskNames
    <3> QED
      BY <3>1, <3>2
  <2>6. f = [i \in 1..n |-> f[i]]
    BY Zenon
  <2> HIDE DEF f, T
  <2>7. f \in Seq(T)
    BY <1>5, <2>5, <2>6, TypeOfSeq
  <2>8. Malformed \notin Seq(T)
    BY SentinelAssumption, Zenon DEF T
  <2>9. rows # Malformed
    BY <2>4, <2>7, <2>8
  <2> QED
    BY <2>4, <2>9 DEF f
<1>8. ASSUME q.damage # "none" PROVE rows = Malformed
  <2> DEFINE p == Cut(b, q.cut)
  <2>1. q.cut # 0
    BY <1>2, <1>8
  <2>2. p \in Seq(Units) /\ Begins(p, b) /\ Len(p) < Len(b)
    BY <1>2, <1>4, <1>6, <2>1, CutPart
  <2> HIDE DEF p, b
  <2>3. p \in Seq(Nat)
    BY <2>2, Numbers
  <2>4. ReadBlock(q.task, p) = Malformed
    BY <1>3, <2>2, <2>3 DEF BlockReads
  <2> QED
    BY <1>4, <2>4 DEF p
<1> QED
  BY <1>7, <1>8

\* The request the bridge makes of the rows it read.
LEMMA RegroupedType ==
    ASSUME NEW q, Asked(q), q.channel = "pipe", ReadBlock(q.task, Written(q)) \notin {Malformed, <<>>}
    PROVE  Soft(AsRequest(Regrouped(q, ReadBlock(q.task, Written(q)))))
<1> DEFINE rows == ReadBlock(q.task, Written(q))
           z == Regrouped(q, rows)
           items == [i \in DOMAIN rows |-> rows[i][2]]
           T == SoftItem(q.task)
           r == AsRequest(z)
<1>1. /\ q = [channel |-> q.channel, task |-> q.task, model |-> q.model, items |-> q.items,
               option |-> q.option, damage |-> q.damage, cut |-> q.cut]
      /\ q.task \in TaskNames
  BY AskedType
<1>2. rows \in Seq(Seq(Units) \X T) /\ rows # <<>>
  <2>1. Written(q) \in Seq(Units)
    BY WrittenType
  <2> QED
    BY <1>1, <2>1, ReadBlockType
<1>3. z = [q EXCEPT !.model = rows[1][1], !.items = items]
  BY DEF Regrouped
<1> HIDE DEF rows, z
<1>4. z.task = q.task /\ z.model = rows[1][1] /\ z.items = items
  <2> HIDE DEF items
  <2> QED
    BY <1>1, <1>3
<1>5. rows[1][1] \in Seq(Units) /\ \A i \in 1..Len(rows) : rows[i][2] \in T
  <2> HIDE DEF T
  <2>1. \A i \in 1..Len(rows) : rows[i] \in Seq(Units) \X T
    BY <1>2
  <2>2. \A i \in 1..Len(rows) : rows[i][1] \in Seq(Units) /\ rows[i][2] \in T
    BY <2>1
  <2>3. 1 \in 1..Len(rows)
    BY <1>2
  <2> QED
    BY <2>2, <2>3
<1>6. items \in Seq(T)
  <2> DEFINE n == Len(rows)
  <2>1. n \in Nat /\ DOMAIN rows = 1..n
    BY <1>2
  <2>2. items = [i \in 1..n |-> items[i]] /\ \A i \in 1..n : items[i] \in T
    BY <1>5, <2>1
  <2> HIDE DEF items, T, n
  <2> QED
    BY <2>1, <2>2, TypeOfSeq
<1> HIDE DEF items
<1>7. r = [task |-> z.task, model |-> z.model, n |-> Width(z), items |-> Matrix(z.task, z.items)]
  BY DEF AsRequest
<1> HIDE DEF r
<1>8. r.task = q.task /\ r.model \in Seq(Units) /\ r.n = Width(z) /\ r.items = Matrix(q.task, items)
  BY <1>4, <1>5, <1>7
<1>9. /\ q.task = "embed" => r.items \in Seq(Seq(Units))
      /\ q.task = "rerank" => r.items \in Seq(Seq(Units) \X Seq(Units))
  BY <1>6, <1>8 DEF Matrix, SoftItem
<1>10. ASSUME q.task = "evaluate" PROVE items \in Seq(Seq(Nat)) /\ r.items \in Seq(Nat)
  <2>1. items \in Seq(Seq(Nat)) /\ r.items = FlattenSeq(items)
    BY <1>6, <1>8, <1>10 DEF Matrix, SoftItem
  <2> QED
    BY <2>1, FlattenType
<1>11. Width(z) \in Nat
  <2>1. CASE q.task = "evaluate" /\ items # <<>>
    <3>1. Width(z) = Len(items[1]) /\ items \in Seq(Seq(Nat))
      BY <1>4, <1>10, <2>1 DEF Width
    <3>2. items[1] \in Seq(Nat)
      BY <2>1, <3>1
    <3> QED
      BY <3>1, <3>2
  <2>2. CASE ~(q.task = "evaluate" /\ items # <<>>)
    BY <1>4, <2>2 DEF Width
  <2> QED
    BY <2>1, <2>2
<1> QED
  BY <1>1, <1>8, <1>9, <1>10, <1>11 DEF Soft, r, z, rows

LEMMA EmptyIsSomething ==
    Malformed # <<>>
<1> DEFINE T == Seq(Units) \X (Seq(Units) \cup (Seq(Units) \X Seq(Units)) \cup Seq(Nat))
<1>1. Malformed \notin Seq(T)
  BY SentinelAssumption, Zenon
<1>2. <<>> \in Seq(T)
  OBVIOUS
<1> QED
  BY <1>1, <1>2

LEMMA RegroupedIsRead ==
    ASSUME NEW q, Asked(q), q.channel = "pipe", Countable(AsRead(q))
    PROVE  LET rows == ReadBlock(q.task, Written(q))
           IN  /\ rows # Malformed => q.damage = "none"
               /\ rows = <<>> => AsRead(q).items = <<>>
               /\ rows \notin {Malformed, <<>>} => Regrouped(q, rows) = AsRead(q)
<1> DEFINE z == AsRead(q)
           n == Len(q.items)
           rows == ReadBlock(q.task, Written(q))
<1>1. /\ q.damage = "none" =>
            rows = [i \in 1..n |-> <<z.model, z.items[i]>>] /\ rows # Malformed
      /\ q.damage # "none" => rows = Malformed
  BY WrittenRead
<1>2. /\ z = [channel |-> q.channel, task |-> q.task, model |-> z.model, items |-> z.items,
              option |-> q.option, damage |-> q.damage, cut |-> q.cut]
      /\ z.items \in Seq(ReadItem(q.task)) /\ Len(z.items) = n /\ n \in Nat
  BY ReadType
<1>3. q = [channel |-> q.channel, task |-> q.task, model |-> q.model, items |-> q.items,
           option |-> q.option, damage |-> q.damage, cut |-> q.cut]
  BY AskedType
<1> HIDE DEF z, rows, n
<1>4. rows # Malformed => q.damage = "none"
  BY <1>1
<1>5. ASSUME rows = <<>> PROVE z.items = <<>>
  <2>1. rows = [i \in 1..n |-> <<z.model, z.items[i]>>]
    BY <1>1, <1>5, EmptyIsSomething
  <2>2. n = 0
    <3> SUFFICES ASSUME n # 0 PROVE FALSE
      OBVIOUS
    <3>1. 1 \in 1..n
      BY <1>2
    <3>2. DOMAIN rows = 1..n /\ DOMAIN <<>> = {}
      <4>1. DOMAIN rows = 1..n
        BY <2>1, Zenon
      <4> QED
        BY <4>1
    <3> QED
      BY <1>5, <3>1, <3>2
  <2> QED
    BY <1>2, <2>2
<1>6. ASSUME rows # Malformed, rows # <<>> PROVE Regrouped(q, rows) = z
  <2>1. rows = [i \in 1..n |-> <<z.model, z.items[i]>>]
    BY <1>1, <1>6
  <2>2. n # 0
    <3> SUFFICES ASSUME n = 0 PROVE FALSE
      OBVIOUS
    <3>1. rows = [i \in 1..0 |-> <<z.model, z.items[i]>>]
      BY <2>1
    <3>2. rows = <<>>
      <4>1. 1..0 = {}
        OBVIOUS
      <4> QED
        BY <3>1, <4>1
    <3> QED
      BY <1>6, <3>2
  <2>3. DOMAIN rows = 1..n /\ rows[1][1] = z.model /\ \A i \in 1..n : rows[i][2] = z.items[i]
    BY <1>2, <2>1, <2>2
  <2>4. [i \in DOMAIN rows |-> rows[i][2]] = z.items
    <3>1. z.items = [i \in 1..n |-> z.items[i]]
      BY <1>2
    <3> DEFINE f == z.items
    <3>2. f = [i \in 1..n |-> f[i]] /\ \A i \in 1..n : rows[i][2] = f[i]
      BY <2>3, <3>1
    <3> HIDE DEF f
    <3>3. [i \in 1..n |-> rows[i][2]] = f
      BY <3>2
    <3> QED
      BY <2>3, <3>3 DEF f
  <2> DEFINE f == [i \in DOMAIN rows |-> rows[i][2]]
             m == rows[1][1]
  <2>5. Regrouped(q, rows) = [q EXCEPT !.model = m, !.items = f]
    BY DEF Regrouped
  <2>6. f = z.items /\ m = z.model
    BY <2>3, <2>4
  <2> HIDE DEF f, m
  <2>7. Regrouped(q, rows) = [channel |-> q.channel, task |-> q.task, model |-> m, items |-> f,
                              option |-> q.option, damage |-> q.damage, cut |-> q.cut]
    BY <1>3, <2>5
  <2> QED
    BY <1>2, <2>6, <2>7
<1> QED
  BY <1>4, <1>5, <1>6 DEF z, rows

-----------------------------------------------------------------------------
\* The steps of one caller: s before, t after.

Moves(s, t, phase) == t.pc = phase /\ t.ask = s.ask

\* The caller has its answer.
Finishes(s, t, a) == Moves(s, t, "done") /\ t.answer = a /\ t.heard = s.heard /\ t.reply = s.reply

\* An end before the daemon answers.
LEMMA EndsUnheard ==
    ASSUME NEW E, NEW s, NEW t, NEW a, Finishes(s, t, a), Asked(s.ask), s.ask.channel # "http",
           Untold(s), Told(a), AnsweredOwn(AsRead(s.ask), a),
           Plain(AsRead(s.ask)) => ~a.ok /\ Ragged(AsRead(s.ask))
    PROVE  IsDone(E, t)
BY DEF Finishes, Moves, Untold, IsDone, Room

LEMMA NothingIsOwn ==
    ASSUME NEW q
    PROVE  AnsweredOwn(q, Nothing) /\ Told(Nothing) /\ ~Nothing.ok
BY DEF AnsweredOwn, Nothing, Told

\* A frame of the bridge's own, also one that is sent again.
LEMMA FramedSent ==
    ASSUME NEW t, NEW q, Asked(q), q.channel = "pipe", Framable(q),
           t.pc = "sent", t.ask = q, Untold(t), t.wire = FrameOf(q)
    PROVE  IsSent(t)
<1> DEFINE rows == BlockRows(q)
           z == Regrouped(q, rows)
           y == AsRead(q)
           p == EncodeRequest(AsRequest(z))
<1>1. rows = ReadBlock(q.task, Written(q)) /\ rows \notin {Malformed, <<>>} /\ ~Ragged(z)
  BY DEF BlockRows, Framable
<1>2. p \in Seq(Units)
  <2>1. Soft(AsRequest(z))
    BY <1>1, RegroupedType
  <2> QED
    BY <2>1, RequestType
<1>3. Countable(y) => q.damage = "none" /\ z = y
  BY <1>1, RegroupedIsRead
<1>4. t.wire = Frame(p)
  BY DEF FrameOf
<1>5. Countable(y) => q.damage = "none" /\ ~Ragged(y) /\ t.wire = Frame(EncodeRequest(AsRequest(y)))
  BY <1>1, <1>3, <1>4
<1> HIDE DEF p, y, z, rows
<1>6. t.wire \in Seq(Units) /\ Len(t.wire) >= 2
  BY <1>2, <1>4, FrameWhole
<1>7. OnWire(t)
  BY <1>5, <1>6 DEF OnWire, y
<1> QED
  BY <1>7 DEF IsSent

LEMMA ReadStep ==
    ASSUME NEW E, NEW s, NEW t, IsWritten(s)
    PROVE  LET q    == s.ask
               rows == BlockRows(q)
           IN  /\ rows = Malformed /\ Finishes(s, t, Nothing) => IsDone(E, t)
               /\ rows = <<>> /\ Finishes(s, t, [ok |-> TRUE, rows |-> <<>>]) => IsDone(E, t)
               /\ rows \notin {Malformed, <<>>} /\ Ragged(Regrouped(q, rows)) /\ Finishes(s, t, Nothing)
                  => IsDone(E, t)
<1> DEFINE q    == s.ask
           rows == BlockRows(q)
           z    == Regrouped(q, rows)
           y    == AsRead(q)
<1>1. Asked(q) /\ q.channel = "pipe" /\ q.channel # "http" /\ Untold(s)
  BY DEF IsWritten
<1>2. rows = ReadBlock(q.task, Written(q))
  BY DEF BlockRows
<1>3. y.damage = q.damage /\ y.channel = "pipe"
  <2>1. y = [channel |-> q.channel, task |-> q.task, model |-> y.model, items |-> y.items,
              option |-> q.option, damage |-> q.damage, cut |-> q.cut]
    BY <1>1, ReadType
  <2> HIDE DEF y
  <2> QED
    BY <1>1, <2>1
<1>4. ASSUME Countable(y)
      PROVE  /\ q.damage = "none" => rows # Malformed
             /\ rows = <<>> => y.items = <<>>
             /\ rows \notin {Malformed, <<>>} => z = y
  BY <1>1, <1>2, <1>4, RegroupedIsRead, WrittenRead
<1>5. ASSUME rows = Malformed, Finishes(s, t, Nothing) PROVE IsDone(E, t)
  <2>1. ~Plain(y)
    BY <1>3, <1>4, <1>5 DEF Plain
  <2> QED
    BY <1>1, <1>5, <2>1, NothingIsOwn, EndsUnheard
<1>6. ASSUME rows = <<>>, Finishes(s, t, [ok |-> TRUE, rows |-> <<>>]) PROVE IsDone(E, t)
  <2> DEFINE a == [ok |-> TRUE, rows |-> <<>>]
  <2>1. ~Plain(y)
    BY <1>4, <1>6 DEF Plain
  <2>2. AnsweredOwn(y, a)
    <3>1. Countable(y) => Own(y) = <<>>
      <4> SUFFICES ASSUME Countable(y) PROVE Own(y) = <<>>
        OBVIOUS
      <4>1. y.items = <<>>
        BY <1>4, <1>6
      <4> HIDE DEF y
      <4>2. DOMAIN y.items = {}
        BY <4>1
      <4> QED
        BY <4>2 DEF Own
    <3> HIDE DEF y
    <3> QED
      BY <1>3, <3>1 DEF AnsweredOwn
  <2>3. Finishes(s, t, a) /\ Told(a)
    BY <1>6 DEF Told
  <2> HIDE DEF a
  <2> QED
    BY <1>1, <2>1, <2>2, <2>3, EndsUnheard
<1>7. ASSUME rows \notin {Malformed, <<>>}, Ragged(z), Finishes(s, t, Nothing) PROVE IsDone(E, t)
  <2>1. Plain(y) => Ragged(y)
    BY <1>4, <1>7 DEF Plain
  <2> QED
    BY <1>1, <1>7, <2>1, NothingIsOwn, EndsUnheard
<1> QED
  BY <1>5, <1>6, <1>7

\* What the registry holds.
LEMMA RegistryModel ==
    ASSUME NEW E, Registry(E), NEW m \in DOMAIN E
    PROVE  /\ m \in DOMAIN Model /\ Probed(m)
           /\ E[m].kind = IF Model[m].kind = "stub" THEN "embedding" ELSE Model[m].kind
           /\ E[m].dim = IF Model[m].kind \in {"stub", "embedding"} THEN Dim(m) ELSE 0
           /\ E[m].n = IF Model[m].kind = "tabular" THEN Model[m].features ELSE 0
           /\ Model[m].kind \in {"stub", "embedding", "rerank", "tabular"}
           /\ Model[m].features \in Nat /\ E[m].n \in Nat /\ E[m].dim \in Nat
           /\ Model[m].kind = "tabular" => E[m].n # 0
<1>1. PICK S \in Configs : (\A x \in S : Loads(x)) /\ E = [x \in S |-> Card(x)]
  BY DEF Registry
<1>2. m \in S /\ Loads(m)
  BY <1>1
<1>3. m \in DOMAIN Model
  BY <1>2, ConfigAssumption
<1>4. E[m] = Card(m)
  BY <1>1, <1>2
<1>5. Probed(m)
  BY <1>2, <1>3, LoadsProbed
<1>6. /\ Card(m).kind = IF Model[m].kind = "stub" THEN "embedding" ELSE Model[m].kind
      /\ Card(m).dim = IF Model[m].kind \in {"stub", "embedding"} THEN Dim(m) ELSE 0
      /\ Card(m).n = IF Model[m].kind = "tabular" THEN Model[m].features ELSE 0
  BY <1>2, <1>3, CardOf
<1>7. Model[m].kind \in {"stub", "embedding", "rerank", "tabular"} /\ Model[m].features \in Nat
  BY <1>3, ModelAssumption
<1>8. Dim(m) \in Nat
  <2>1. StubDim \in Nat
    BY EngineAssumption
  <2> QED
    BY <2>1 DEF Dim, Hidden
<1>9. Model[m].kind = "tabular" => Model[m].features > 0
  BY <1>5 DEF Probed
<1> HIDE DEF Registry
<1> DEFINE e == E[m]
<1>10. /\ e.kind = IF Model[m].kind = "stub" THEN "embedding" ELSE Model[m].kind
       /\ e.dim = IF Model[m].kind \in {"stub", "embedding"} THEN Dim(m) ELSE 0
       /\ e.n = IF Model[m].kind = "tabular" THEN Model[m].features ELSE 0
  BY <1>4, <1>6
<1> HIDE DEF e
<1>11. e.n \in Nat /\ e.dim \in Nat /\ (Model[m].kind = "tabular" => e.n # 0)
  BY <1>7, <1>8, <1>9, <1>10
<1> QED
  BY <1>3, <1>5, <1>7, <1>10, <1>11 DEF e

\* A request that is admitted is for a model of its task.
LEMMA AdmittedModel ==
    ASSUME NEW E, Registry(E), NEW r, KnownIn(E, r), r.task \in TaskNames
    PROVE  /\ r.model \in DOMAIN E
           /\ r.task = "embed" <=> Model[r.model].kind \in {"stub", "embedding"}
           /\ r.task = "rerank" <=> Model[r.model].kind = "rerank"
           /\ r.task = "evaluate" <=> Model[r.model].kind = "tabular"
<1>1. r.model \in DOMAIN E /\ E[r.model].kind = KindOf(r.task)
  BY DEF KnownIn
<1> DEFINE m == r.model
<1>2. /\ E[m].kind = IF Model[m].kind = "stub" THEN "embedding" ELSE Model[m].kind
      /\ Model[m].kind \in {"stub", "embedding", "rerank", "tabular"}
  BY <1>1, RegistryModel
<1> HIDE DEF m
<1>3. CASE r.task = "embed"
  BY <1>1, <1>2, <1>3 DEF KindOf, m
<1>4. CASE r.task = "rerank"
  BY <1>1, <1>2, <1>4 DEF KindOf, m
<1>5. CASE r.task = "evaluate"
  BY <1>1, <1>2, <1>5 DEF KindOf, m
<1> QED
  BY <1>3, <1>4, <1>5 DEF TaskNames

LEMMA NothingReturned ==
    ASSUME NEW E, Registry(E), NEW r, Taken(E, r), r.items = <<>>
    PROVE  Returned(r.model, ItemsIn(E, r), <<>>)
<1>1. r.task \in TaskNames /\ KnownIn(E, r)
  BY DEF Taken, Requested, AdmittedIn
<1>2. r.model \in DOMAIN E /\ (r.task = "evaluate" => Model[r.model].kind = "tabular")
  BY <1>1, AdmittedModel
<1>3. E[r.model].n \in Nat /\ (r.task = "evaluate" => E[r.model].n # 0)
  BY <1>2, RegistryModel
<1>4. ItemsIn(E, r) = <<>>
  <2>1. CASE r.task # "evaluate"
    BY <2>1 DEF ItemsIn
  <2>2. CASE r.task = "evaluate"
    <3> DEFINE n == E[r.model].n
    <3>1. ItemsIn(E, r) = [i \in 1..(Len(r.items) \div n) |-> SubSeq(r.items, (i - 1) * n + 1, i * n)]
      BY <2>2 DEF ItemsIn
    <3>2. n \in Nat \ {0}
      BY <1>3, <2>2
    <3> HIDE DEF n
    <3>3. Len(r.items) \div n = 0
      <4>1. Len(r.items) = 0
        OBVIOUS
      <4>2. 0 \div n = 0
        <5> DEFINE z == 0
        <5>1. z \in Nat /\ z < n
          BY <3>2
        <5> HIDE DEF z
        <5>2. z \div n = 0
          BY <3>2, <5>1, DivisionSmall
        <5> QED
          BY <5>2 DEF z
      <4> QED
        BY <4>1, <4>2
    <3>4. 1..0 = {}
      OBVIOUS
    <3> QED
      BY <3>1, <3>3, <3>4
  <2> QED
    BY <2>1, <2>2
<1> DEFINE items == ItemsIn(E, r)
           m == r.model
<1> SUFFICES Returned(m, items, <<>>)
  OBVIOUS
<1>5. items = <<>>
  BY <1>4
<1> HIDE DEF items, m
<1>6. AllAlone(m, items) = <<>>
  <2>1. DOMAIN items = {}
    BY <1>5
  <2> QED
    BY <2>1 DEF AllAlone
<1>7. OfWidth(<<>>, Dim(m))
  BY DEF OfWidth
<1> QED
  BY <1>5, <1>6, <1>7 DEF Returned

\* A request that both have room for fills its frame, and no more.
LEMMA PlainSent ==
    ASSUME NEW q, Asked(q), q.channel # "http", Plain(AsRead(q))
    PROVE  LET w == FrameAsSent(AsRead(q))
           IN  FrameIn(w) /\ ~TooLong(w) /\ Rest(w) = <<>> /\ ~Overruns(AsRead(q))
<1> DEFINE y == AsRead(q)
           p == EncodeRequest(AsRequest(y))
<1>1. y.damage = "none" /\ Len(p) <= MaxFrame
  BY DEF Plain, BodySize
<1>2. p \in Seq(Units)
  <2>1. Soft(AsRequest(y))
    BY RequestOf
  <2> QED
    BY <2>1, RequestType
<1>3. FrameAsSent(y) = Frame(p)
  <2>1. Sent(y) = Frame(p)
    BY <1>1 DEF Sent, Framed, Damaged
  <2> QED
    BY <2>1 DEF FrameAsSent
<1> HIDE DEF p, y
<1>4. FrameIn(Frame(p)) /\ ~TooLong(Frame(p)) /\ Rest(Frame(p)) = <<>>
  BY <1>1, <1>2, FrameWhole
<1> QED
  BY <1>3, <1>4 DEF Overruns, y

LEMMA PlainFramed ==
    ASSUME NEW s, IsSent(s), Plain(AsRead(s.ask))
    PROVE  FrameIn(s.wire) /\ ~TooLong(s.wire)
<1>1. Asked(s.ask) /\ s.ask.channel # "http" /\ OnWire(s)
  BY DEF IsSent
<1>2. Countable(AsRead(s.ask))
  BY DEF Plain
<1> QED
  BY <1>1, <1>2, SentAsFrame, PlainSent

\* What is left alone when the daemon takes a request or answers it.
Steps(s, t, phase) == Moves(s, t, phase) /\ t.answer = s.answer

LEMMA AnswersAreReplies ==
    /\ Refused \in Replies /\ EngineError \in Replies /\ Lost \in Replies
    /\ Refused.status = "refused" /\ EngineError.status = "failed" /\ Lost.status = "lost"
    /\ \A rows : Ok(rows).status = "ok" /\ Ok(rows).rows = rows
    /\ \A rows \in Seq(Nat) \cup Seq(Seq(Nat)) : Ok(rows) \in Replies
    /\ None \notin Replies
<1>1. None \notin [status : {"ok", "refused", "failed", "lost"}, rows : Seq(Nat) \cup Seq(Seq(Nat))]
  BY SentinelAssumption, Zenon
<1> QED
  BY <1>1 DEF Refused, EngineError, Lost, Ok, Replies

LEMMA HandleStep ==
    ASSUME NEW E, Registry(E), NEW s, NEW t, IsSent(s)
    PROVE  LET h == DecodeRequest(Payload(s.wire))
           IN  /\ TooLong(s.wire) /\ Moves(s, t, "shut") /\ Untold(t) => IsShut(t)
               /\ ~FrameIn(s.wire) /\ Finishes(s, t, Nothing) => IsDone(E, t)
               /\ FrameIn(s.wire) /\ t.heard = h =>
                     /\ ~AdmittedIn(E, h) /\ Steps(s, t, "replied") /\ t.reply = Refused => IsReplied(E, t)
                     /\ AdmittedIn(E, h) /\ h.items = <<>> /\ Steps(s, t, "replied") /\ t.reply = Ok(<<>>)
                        => IsReplied(E, t)
                     /\ AdmittedIn(E, h) /\ h.items # <<>> /\ Steps(s, t, "queued") /\ t.reply = None
                        => IsQueued(E, t)
<1> DEFINE q == s.ask
           h == DecodeRequest(Payload(s.wire))
<1>1. Asked(q) /\ q.channel # "http" /\ Untold(s)
  BY DEF IsSent
<1>2. ASSUME TooLong(s.wire), Moves(s, t, "shut"), Untold(t) PROVE IsShut(t)
  <2>1. ~Plain(AsRead(q))
    BY <1>2, PlainFramed
  <2> QED
    BY <1>1, <1>2, <2>1 DEF IsShut, Moves
<1>3. ASSUME ~FrameIn(s.wire), Finishes(s, t, Nothing) PROVE IsDone(E, t)
  <2>1. ~Plain(AsRead(q))
    BY <1>3, PlainFramed
  <2> QED
    BY <1>1, <1>3, <2>1, NothingIsOwn, EndsUnheard
<1>4. FrameIn(s.wire) => HeardRight(q, h) /\ (h # Malformed => Requested(h))
  BY FrameHeard
<1> HIDE DEF h
<1>5. ASSUME FrameIn(s.wire), t.heard = h, ~AdmittedIn(E, h), Steps(s, t, "replied"), t.reply = Refused
      PROVE  IsReplied(E, t)
  <2>1. t.ask = q /\ t.pc = "replied" /\ t.answer = None
    BY <1>1, <1>5 DEF Steps, Moves, Untold
  <2>2. IsRefused(E, t)
    BY <1>1, <1>4, <1>5, <2>1 DEF IsRefused
  <2> QED
    BY <1>1, <1>5, <2>1, <2>2, AnswersAreReplies DEF IsReplied, HasReply
<1>6. ASSUME FrameIn(s.wire), t.heard = h, AdmittedIn(E, h) PROVE Taken(E, h)
  BY <1>4, <1>6 DEF Taken, AdmittedIn
<1>7. ASSUME FrameIn(s.wire), t.heard = h, AdmittedIn(E, h), h.items = <<>>, Steps(s, t, "replied"), t.reply = Ok(<<>>)
      PROVE  IsReplied(E, t)
  <2>1. t.ask = q /\ t.pc = "replied" /\ t.answer = None
    BY <1>1, <1>7 DEF Steps, Moves, Untold
  <2>2. Returned(h.model, ItemsIn(E, h), <<>>)
    BY <1>6, <1>7, NothingReturned
  <2>3. t.reply.status = "ok" /\ t.reply.rows = <<>> /\ t.reply \in Replies
    <3>1. <<>> \in Seq(Nat) \cup Seq(Seq(Nat))
      OBVIOUS
    <3> QED
      BY <1>7, <3>1, AnswersAreReplies
  <2>4. IsHeard(E, t)
    BY <1>1, <1>4, <1>7, <2>1 DEF IsHeard
  <2>5. IsAnswered(E, t)
    BY <1>6, <1>7, <2>2, <2>3, <2>4 DEF IsAnswered
  <2> QED
    BY <1>1, <2>1, <2>3, <2>5 DEF IsReplied, HasReply
<1>8. ASSUME FrameIn(s.wire), t.heard = h, AdmittedIn(E, h), h.items # <<>>, Steps(s, t, "queued"), t.reply = None
      PROVE  IsQueued(E, t)
  <2>1. t.ask = q /\ t.pc = "queued" /\ t.answer = None /\ t.reply = None
    BY <1>1, <1>8 DEF Steps, Moves, Untold
  <2>2. IsHeard(E, t)
    BY <1>1, <1>4, <1>8, <2>1 DEF IsHeard
  <2> QED
    BY <1>1, <1>6, <1>8, <2>1, <2>2 DEF IsQueued
<1> QED
  BY <1>2, <1>3, <1>5, <1>7, <1>8 DEF h

\* A closed connection is the end of a request that had no room.
LEMMA ShutStep ==
    ASSUME NEW E, NEW s, NEW t, IsShut(s), Finishes(s, t, Nothing)
    PROVE  IsDone(E, t)
<1>1. Asked(s.ask) /\ s.ask.channel # "http" /\ Untold(s) /\ ~Plain(AsRead(s.ask))
  BY DEF IsShut
<1> QED
  BY <1>1, NothingIsOwn, EndsUnheard

\* What the handlers let through is a request with rows of one width.
LEMMA WellFormedTaken ==
    ASSUME NEW E, Registry(E), NEW q, Asked(q), q.channel = "http", WellFormedIn(E, q)
    PROVE  ~Ragged(q) /\ Taken(E, AsRequest(q)) /\ AsRequest(q).items # <<>>
<1> DEFINE r == AsRequest(q)
<1>1. AsRead(q) = q /\ q.task \in TaskNames
  BY AskedType DEF AsRead
<1>2. /\ r = [task |-> r.task, model |-> r.model, n |-> r.n, items |-> r.items]
      /\ r.task = q.task /\ r.model = q.model /\ r.n = Width(q) /\ r.n \in Nat
      /\ r.model \in Seq(Units) /\ r.task \in TaskNames
      /\ r.task = "embed" => r.items = q.items
      /\ r.task = "rerank" => r.items = q.items
      /\ r.task = "evaluate" =>
            r.items = FlattenSeq(q.items) /\ q.items \in Seq(Seq(Words)) /\ r.items \in Seq(Words)
      /\ Soft(r) /\ r # Malformed
  <2> DEFINE z == AsRead(q)
             v == AsRequest(z)
  <2>1. /\ v = [task |-> v.task, model |-> v.model, n |-> v.n, items |-> v.items]
        /\ v.task = q.task /\ v.model = z.model /\ v.n = Width(z) /\ v.n \in Nat
        /\ v.model \in Seq(Units) /\ v.task \in TaskNames
        /\ v.task = "embed" => v.items = z.items
        /\ v.task = "rerank" => v.items = z.items
        /\ v.task = "evaluate" =>
              v.items = FlattenSeq(z.items) /\ z.items \in Seq(Seq(Words)) /\ v.items \in Seq(Words)
        /\ Soft(v) /\ v # Malformed
    <3>1. /\ v = [task |-> q.task, model |-> z.model, n |-> v.n, items |-> v.items]
          /\ v.task = q.task /\ v.model = z.model
      BY RequestOf
    <3> HIDE DEF v, z
    <3>2. v = [task |-> v.task, model |-> v.model, n |-> v.n, items |-> v.items]
      BY <3>1
    <3> QED
      BY <3>2, RequestOf DEF v, z
  <2>2. z = q
    BY <1>1
  <2> HIDE DEF z
  <2> QED
    BY <2>1, <2>2
<1>3. q.items # <<>> /\ KnownIn(E, r)
  BY DEF WellFormedIn
<1> HIDE DEF r
<1>4. /\ r.model \in DOMAIN E
      /\ r.task = "evaluate" <=> Model[r.model].kind = "tabular"
  BY <1>2, <1>3, AdmittedModel
<1>5. E[r.model].n \in Nat /\ (r.task = "evaluate" => E[r.model].n # 0)
  BY <1>4, RegistryModel
<1>6. CASE q.task = "evaluate"
  <2> DEFINE n == E[q.model].n
  <2>1. n \in Nat \ {0} /\ \A i \in DOMAIN q.items : Len(q.items[i]) = n
    BY <1>2, <1>5, <1>6 DEF WellFormedIn
  <2>2. q.items \in Seq(Seq(Words)) /\ r.items = FlattenSeq(q.items)
    BY <1>2, <1>6
  <2> HIDE DEF n
  <2>3. Len(q.items) \in Nat \ {0} /\ DOMAIN q.items = 1..Len(q.items) /\ 1 \in 1..Len(q.items)
    BY <1>3, <2>2
  <2>4. Width(q) = n
    BY <1>3, <1>6, <2>1, <2>3 DEF Width
  <2>5. ~Ragged(q)
    BY <2>1, <2>4 DEF Ragged
  <2>6. OfWidth(q.items, n)
    BY <2>1, <2>3 DEF OfWidth
  <2>7. Len(FlattenSeq(q.items)) = Len(q.items) * n
    <3> DEFINE T == Words
    <3>1. q.items \in Seq(Seq(T)) /\ n \in Nat
      BY <2>1, <2>2
    <3> HIDE DEF T
    <3>2. \A ss \in Seq(Seq(T)) : OfWidth(ss, n) => Len(FlattenSeq(ss)) = Len(ss) * n
      BY <3>1, FlattenEqualLength
    <3> QED
      BY <2>6, <3>1, <3>2
  <2> DEFINE k == Len(q.items)
  <2>8. k \in Nat \ {0} /\ Len(r.items) = k * r.n /\ r.n = n
    BY <1>2, <2>2, <2>3, <2>4, <2>7
  <2> HIDE DEF k
  <2>9. k * n # 0
    BY <2>1, <2>8
  <2>10. r.items # <<>>
    <3> SUFFICES ASSUME r.items = <<>> PROVE FALSE
      OBVIOUS
    <3>1. Len(r.items) = 0
      OBVIOUS
    <3> QED
      BY <2>8, <2>9, <3>1
  <2>11. r.items \in Seq(Nat)
    BY <1>2, <1>6 DEF Soft
  <2>12. \E x \in Nat : Len(r.items) = x * r.n
    BY <2>8
  <2>13. r.task = "evaluate"
    BY <1>2, <1>6
  <2>14. Requested(r)
    BY <1>2, <2>11, <2>12, <2>13 DEF Requested
  <2>15. r.n = E[r.model].n
    BY <1>2, <2>8 DEF n
  <2>16. AdmittedIn(E, r)
    BY <1>2, <1>3, <2>15 DEF AdmittedIn
  <2> QED
    BY <2>5, <2>10, <2>14, <2>16 DEF Taken, r
<1>7. CASE q.task # "evaluate"
  <2>1. ~Ragged(q)
    BY <1>7 DEF Ragged
  <2>2. r.items # <<>>
    BY <1>1, <1>2, <1>3, <1>7 DEF TaskNames
  <2>3. Requested(r)
    BY <1>2, <1>7 DEF Requested, Soft
  <2>4. AdmittedIn(E, r)
    BY <1>2, <1>3, <1>7 DEF AdmittedIn
  <2> QED
    BY <2>1, <2>2, <2>3, <2>4 DEF Taken, r
<1> QED
  BY <1>6, <1>7

LEMMA PostStep ==
    ASSUME NEW E, Registry(E), NEW s, NEW t, IsPosted(s)
    PROVE  /\ /\ BodySize(s.ask) <= BodyLimit /\ WellFormedIn(E, s.ask)
              /\ t.heard = AsRequest(s.ask) /\ Steps(s, t, "queued") /\ t.reply = s.reply
              => IsQueued(E, t)
           /\ /\ ~(BodySize(s.ask) <= BodyLimit /\ WellFormedIn(E, s.ask))
              /\ t.heard = s.heard /\ Steps(s, t, "replied") /\ t.reply = Refused
              => IsReplied(E, t)
<1> DEFINE q == s.ask
<1>1. Asked(q) /\ q.channel = "http" /\ Untold(s)
  BY DEF IsPosted
<1>2. ASSUME WellFormedIn(E, q), t.heard = AsRequest(q), Steps(s, t, "queued"), t.reply = s.reply
      PROVE  IsQueued(E, t)
  <2>1. t.ask = q /\ t.pc = "queued" /\ t.answer = None /\ t.reply = None
    BY <1>1, <1>2 DEF Steps, Moves, Untold
  <2>2. ~Ragged(q) /\ Taken(E, AsRequest(q)) /\ AsRequest(q).items # <<>>
    BY <1>1, <1>2, WellFormedTaken
  <2>3. AsRead(q) = q /\ q.damage = "none"
    <3>1. AsRead(q) = q
      BY <1>1 DEF AsRead
    <3> QED
      BY <1>1, <3>1, AskedType
  <2>4. HeardRight(q, AsRequest(q))
    BY <1>1, <2>2, <2>3 DEF HeardRight, Overruns
  <2>5. IsHeard(E, t)
    BY <1>1, <1>2, <2>1, <2>4 DEF IsHeard
  <2> QED
    BY <1>1, <1>2, <2>1, <2>2, <2>5 DEF IsQueued
<1>3. ASSUME ~(BodySize(q) <= BodyLimit /\ WellFormedIn(E, q)),
             t.heard = s.heard, Steps(s, t, "replied"), t.reply = Refused
      PROVE  IsReplied(E, t)
  <2>1. t.ask = q /\ t.pc = "replied" /\ t.answer = None /\ t.heard = None
    BY <1>1, <1>3 DEF Steps, Moves, Untold
  <2>2. IsRefused(E, t)
    BY <1>1, <1>3, <2>1 DEF IsRefused
  <2> QED
    BY <1>1, <1>3, <2>1, <2>2, AnswersAreReplies DEF IsReplied, HasReply
<1> QED
  BY <1>2, <1>3

\* What the daemon may say of any request it heard.
LEMMA SincereReplies ==
    ASSUME NEW E, NEW h
    PROVE  /\ Sincere(E, h, Refused) /\ Sincere(E, h, Lost)
           /\ Model[h.model].output = "static" \/ ShortPadding(h.model, 1) => Sincere(E, h, EngineError)
           /\ \A rows : Taken(E, h) /\ Returned(h.model, ItemsIn(E, h), rows) => Sincere(E, h, Ok(rows))
<1>1. Sincere(E, h, Refused) /\ Sincere(E, h, Lost)
  BY AnswersAreReplies DEF Sincere
<1>2. Model[h.model].output = "static" \/ ShortPadding(h.model, 1) => Sincere(E, h, EngineError)
  BY AnswersAreReplies DEF Sincere
<1>3. ASSUME NEW rows, Taken(E, h), Returned(h.model, ItemsIn(E, h), rows) PROVE Sincere(E, h, Ok(rows))
  <2>1. rows \in Seq(Nat) \/ rows \in Seq(Seq(Nat))
    BY <1>3 DEF Returned
  <2>2. Ok(rows) \in Replies /\ Ok(rows).status = "ok" /\ Ok(rows).rows = rows
    BY <2>1, AnswersAreReplies
  <2> QED
    BY <1>3, <2>2 DEF Sincere
<1> QED
  BY <1>1, <1>2, <1>3

LEMMA AnswerStep ==
    ASSUME NEW E, NEW s, NEW t, IsQueued(E, s), Steps(s, t, "replied"), t.heard = s.heard,
           Sincere(E, s.heard, t.reply), t.reply.status # "refused"
    PROVE  IsReplied(E, t)
<1>1. /\ t.ask = s.ask /\ t.pc = "replied" /\ t.answer = None
      /\ Asked(s.ask) /\ IsHeard(E, s) /\ Taken(E, s.heard)
  BY DEF IsQueued, Steps, Moves
<1>2. IsHeard(E, t)
  BY <1>1 DEF IsHeard
<1>3. IsAnswered(E, t)
  BY <1>1, <1>2 DEF IsAnswered, Sincere
<1> QED
  BY <1>1, <1>3 DEF IsReplied, HasReply, Sincere

\* What one item of model m is.
ItemOf(m) ==
    CASE Model[m].kind \in {"stub", "embedding"} -> Seq(Nat)
      [] Model[m].kind = "rerank"  -> PairItem
      [] Model[m].kind = "tabular" -> {x \in Seq(Nat) : Len(x) = Model[m].features}

LEMMA BatchedItems ==
    ASSUME NEW m \in DOMAIN Model, NEW items
    PROVE  Batched(m, items) <=> items # <<>> /\ items \in Seq(ItemOf(m))
<1>1. Model[m].kind \in {"stub", "embedding", "rerank", "tabular"}
  BY KindOfModel
<1>2. CASE Model[m].kind \in {"stub", "embedding"}
  BY <1>2 DEF Batched, ItemOf
<1>3. CASE Model[m].kind = "rerank"
  BY <1>3 DEF Batched, ItemOf
<1>4. CASE Model[m].kind = "tabular"
  <2> DEFINE T == {x \in Seq(Nat) : Len(x) = Model[m].features}
  <2>1. Batched(m, items) <=> items # <<>> /\ items \in Seq(Seq(Nat)) /\ OfWidth(items, Model[m].features)
    BY <1>4 DEF Batched
  <2>2. ItemOf(m) = T
    BY <1>4 DEF ItemOf
  <2>3. ASSUME items \in Seq(Seq(Nat)), OfWidth(items, Model[m].features) PROVE items \in Seq(T)
    <3>1. \A i \in 1..Len(items) : items[i] \in T
      BY <2>3 DEF OfWidth
    <3> DEFINE n == Len(items)
    <3>2. n \in Nat /\ items = [i \in 1..n |-> items[i]]
      BY <2>3
    <3> HIDE DEF T, n
    <3>3. \A i \in 1..n : items[i] \in T
      BY <3>1 DEF n
    <3> QED
      BY <3>2, <3>3, TypeOfSeq
  <2>4. ASSUME items \in Seq(T) PROVE items \in Seq(Seq(Nat)) /\ OfWidth(items, Model[m].features)
    <3>1. T \subseteq Seq(Nat)
      OBVIOUS
    <3>2. \A i \in 1..Len(items) : items[i] \in T
      BY <2>4
    <3>3. OfWidth(items, Model[m].features)
      BY <3>2 DEF OfWidth
    <3> HIDE DEF T
    <3>4. items \in Seq(Seq(Nat))
      BY <2>4, <3>1, WiderSeq
    <3> QED
      BY <3>3, <3>4
  <2> QED
    BY <2>1, <2>2, <2>3, <2>4
<1> QED
  BY <1>1, <1>2, <1>3, <1>4

Sliced(flat, n) == [i \in 1..(Len(flat) \div n) |-> SubSeq(flat, (i - 1) * n + 1, i * n)]

WideAs(n) == {x \in Seq(Nat) : Len(x) = n}

LEMMA CutRowsType ==
    ASSUME NEW flat \in Seq(Nat), NEW n \in Nat \ {0}, NEW k \in Nat, Len(flat) = k * n
    PROVE  Sliced(flat, n) \in Seq(WideAs(n)) /\ Len(Sliced(flat, n)) = k
<1> DEFINE rows == [i \in 1..(Len(flat) \div n) |-> SubSeq(flat, (i - 1) * n + 1, i * n)]
           T == {x \in Seq(Nat) : Len(x) = n}
           l == Len(flat)
<1>1. l \in Nat /\ l = k * n
  OBVIOUS
<1>2. l \div n = k
  <2> DEFINE z == 0
  <2>0. z \in Nat /\ z < n /\ n \in Nat \ {0}
    OBVIOUS
  <2> HIDE DEF l, z
  <2>1. (n * k + z) \div n = k
    BY <2>0, DivisionTells
  <2>2. n * k = k * n /\ n * k \in Nat
    BY <2>0
  <2> DEFINE x == n * k
  <2>3. x \in Nat /\ (x + z) \div n = k /\ l = x
    BY <1>1, <2>1, <2>2
  <2> HIDE DEF x
  <2>4. x + z = x
    BY <2>3 DEF z
  <2> QED
    BY <2>3, <2>4
<1>3. ASSUME NEW i \in 1..k PROVE SubSeq(flat, (i - 1) * n + 1, i * n) \in T
  <2> DEFINE a == (i - 1) * n
             b == i * n
  <2>1. i - 1 \in Nat /\ i \in Nat /\ i <= k
    OBVIOUS
  <2>2. a \in Nat /\ b \in Nat /\ b = a + n
    BY <2>1
  <2>3. b <= l
    <3>1. n * i <= n * k
      BY <2>1, TimesMonotonic
    <3>2. n * i = b /\ n * k = l
      BY <1>1, <2>1
    <3> QED
      BY <3>1, <3>2
  <2> HIDE DEF a, b
  <2>4. SubSeq(flat, a + 1, b) \in Seq(Nat) /\ Len(SubSeq(flat, a + 1, b)) = n
    BY <1>1, <2>2, <2>3
  <2> HIDE DEF T
  <2>5. SubSeq(flat, a + 1, b) \in T
    BY <2>4 DEF T
  <2> QED
    BY <2>5 DEF a, b
<1>4. rows = [i \in 1..k |-> SubSeq(flat, (i - 1) * n + 1, i * n)]
  BY <1>2
<1>5. rows = [i \in 1..k |-> rows[i]] /\ \A i \in 1..k : rows[i] \in T
  BY <1>3, <1>4
<1> HIDE DEF rows, T
<1>6. rows \in Seq(T) /\ Len(rows) = k
  BY <1>5, TypeOfSeq
<1> QED
  BY <1>6 DEF rows, T, Sliced, WideAs

\* The items of a request are a batch of their own.
LEMMA BatchItems ==
    ASSUME NEW E, Registry(E), NEW r, Taken(E, r)
    PROVE  /\ r.model \in DOMAIN E /\ r.model \in DOMAIN Model
           /\ ItemsIn(E, r) \in Seq(ItemOf(r.model))
           /\ r.items # <<>> => ItemsIn(E, r) # <<>>
           /\ r.items = <<>> => ItemsIn(E, r) = <<>>
<1> DEFINE m == r.model
<1>1. Requested(r) /\ KnownIn(E, r) /\ r.task \in TaskNames /\ (r.task = "evaluate" => r.n = E[m].n)
  BY DEF Taken, Requested, AdmittedIn
<1>2. /\ m \in DOMAIN E
      /\ r.task = "embed" <=> Model[m].kind \in {"stub", "embedding"}
      /\ r.task = "rerank" <=> Model[m].kind = "rerank"
      /\ r.task = "evaluate" <=> Model[m].kind = "tabular"
  BY <1>1, AdmittedModel
<1>3. /\ m \in DOMAIN Model /\ E[m].n \in Nat /\ Model[m].features \in Nat
      /\ Model[m].kind = "tabular" => E[m].n # 0 /\ E[m].n = Model[m].features
  BY <1>2, RegistryModel
<1>4. /\ r.task = "embed" => r.items \in Seq(Seq(Units))
      /\ r.task = "rerank" => r.items \in Seq(Seq(Units) \X Seq(Units))
      /\ r.task = "evaluate" => /\ r.items \in Seq(Nat)
                                /\ \E k \in Nat : Len(r.items) = k * r.n
  BY <1>1 DEF Requested
<1>5. Seq(Units) \subseteq Seq(Nat)
  BY Numbers
<1>6. CASE r.task = "embed"
  <2>1. ItemsIn(E, r) = r.items /\ ItemOf(m) = Seq(Nat)
    BY <1>2, <1>6 DEF ItemsIn, ItemOf
  <2>2. r.items \in Seq(Seq(Nat))
    BY <1>4, <1>5, <1>6, WiderSeq
  <2> QED
    BY <1>2, <1>3, <2>1, <2>2
<1>7. CASE r.task = "rerank"
  <2>1. ItemsIn(E, r) = r.items /\ ItemOf(m) = PairItem
    BY <1>2, <1>7 DEF ItemsIn, ItemOf
  <2>2. r.items \in Seq(PairItem)
    <3> DEFINE A == Seq(Units) \X Seq(Units)
    <3>1. A \subseteq PairItem /\ r.items \in Seq(A)
      BY <1>4, <1>5, <1>7 DEF PairItem
    <3> HIDE DEF A
    <3> QED
      BY <3>1, WiderSeq
  <2> QED
    BY <1>2, <1>3, <2>1, <2>2
<1>8. CASE r.task = "evaluate"
  <2> DEFINE n == E[m].n
             rows == Sliced(r.items, n)
  <2>1. PICK k \in Nat : Len(r.items) = k * n
    BY <1>1, <1>4, <1>8
  <2>2. n \in Nat \ {0} /\ r.items \in Seq(Nat) /\ n = Model[m].features
    BY <1>2, <1>3, <1>4, <1>8
  <2>3. ItemsIn(E, r) = rows
    BY <1>8 DEF ItemsIn, Sliced
  <2>4. ItemOf(m) = WideAs(n)
    BY <1>2, <1>8, <2>2 DEF ItemOf, WideAs
  <2>5. rows \in Seq(WideAs(n)) /\ Len(rows) = k
    <3> HIDE DEF n
    <3> QED
      BY <2>1, <2>2, CutRowsType
  <2> HIDE DEF rows, n
  <2>6. ItemsIn(E, r) \in Seq(ItemOf(m)) /\ Len(ItemsIn(E, r)) = k
    BY <2>3, <2>4, <2>5
  <2>7. r.items # <<>> => k # 0
    <3> SUFFICES ASSUME k = 0 PROVE r.items = <<>>
      OBVIOUS
    <3>1. Len(r.items) = 0 * n
      BY <2>1
    <3>2. 0 * n = 0
      BY <2>2
    <3>3. Len(r.items) = 0
      BY <3>1, <3>2
    <3> QED
      BY <2>2, <3>3
  <2>8. r.items = <<>> => k = 0
    <3> SUFFICES ASSUME r.items = <<>>, k # 0 PROVE FALSE
      OBVIOUS
    <3>1. k * n # 0
      BY <2>2
    <3> QED
      BY <2>1, <3>1
  <2>9. k = 0 => ItemsIn(E, r) = <<>>
    <3> DEFINE f == ItemsIn(E, r)
               T == ItemOf(m)
    <3>1. f \in Seq(T) /\ Len(f) = k
      BY <2>6
    <3> HIDE DEF f, T
    <3>2. k = 0 => f = <<>>
      BY <3>1
    <3> QED
      BY <3>2 DEF f
  <2>10. ItemsIn(E, r) = <<>> => k = 0
    BY <2>6
  <2> QED
    BY <1>2, <1>3, <2>6, <2>7, <2>8, <2>9, <2>10
<1> QED
  BY <1>1, <1>6, <1>7, <1>8 DEF TaskNames

\* Requests for one model make one batch.
LEMMA BatchTaken ==
    ASSUME NEW m \in DOMAIN Model, NEW iss \in Seq(Seq(ItemOf(m))), iss # <<>>,
           \A i \in 1..Len(iss) : iss[i] # <<>>
    PROVE  Batched(m, FlattenSeq(iss))
<1> DEFINE T == ItemOf(m)
<1>1. FlattenSeq(iss) \in Seq(T)
  BY FlattenType
<1>2. FlattenSeq(iss) # <<>>
  <2>1. \A i \in 1..Len(iss) : iss[i] \in Seq(T) /\ Len(iss[i]) >= 1
    <3> TAKE i \in 1..Len(iss)
    <3> DEFINE x == iss[i]
    <3>1. x \in Seq(T) /\ x # <<>>
      OBVIOUS
    <3> HIDE DEF x, T
    <3>2. Len(x) >= 1
      BY <3>1
    <3> QED
      BY <3>1, <3>2 DEF x
  <2> HIDE DEF T
  <2>2. \A ss \in Seq(Seq(T)) : (\A i \in 1..Len(ss) : Len(ss[i]) >= 1) => Len(ss) <= Len(FlattenSeq(ss))
    BY FlattenLonger
  <2>3. iss \in Seq(Seq(T)) /\ Len(iss) \in Nat /\ Len(iss) # 0
    BY DEF T
  <2>4. Len(iss) <= Len(FlattenSeq(iss))
    BY <2>1, <2>2, <2>3
  <2>5. FlattenSeq(iss) = <<>> => Len(FlattenSeq(iss)) = 0
    OBVIOUS
  <2> QED
    BY <2>3, <2>4, <2>5
<1> QED
  BY <1>1, <1>2, BatchedItems

\* Every request's part of what is returned for the batch is what would be
\* returned for its own items.
LEMMA PartReturned ==
    ASSUME NEW m \in DOMAIN Model, NEW iss \in Seq(Seq(ItemOf(m))), NEW i \in 1..Len(iss), NEW out,
           Returned(m, FlattenSeq(iss), out)
    PROVE  LET before == Len(FlattenSeq(SubSeq(iss, 1, i - 1)))
           IN  Returned(m, iss[i], SubSeq(out, before + 1, before + Len(iss[i])))
<1> DEFINE T == ItemOf(m)
           all == FlattenSeq(iss)
           before == Len(FlattenSeq(SubSeq(iss, 1, i - 1)))
           part == SubSeq(out, before + 1, before + Len(iss[i]))
           x == iss[i]
           V == IF Model[m].kind \in {"stub", "embedding"} THEN Seq(Nat) ELSE Nat
<1>1. /\ before \in Nat /\ Len(x) \in Nat /\ x \in Seq(T)
      /\ before + Len(x) <= Len(all) /\ all \in Seq(T)
      /\ \A k \in 1..Len(x) : all[before + k] = x[k]
  <2>1. iss[i] \in Seq(T)
    OBVIOUS
  <2>2. all \in Seq(T)
    BY FlattenType
  <2>3. /\ before \in Nat /\ Len(iss[i]) \in Nat
        /\ before + Len(iss[i]) <= Len(FlattenSeq(iss))
        /\ \A k \in 1..Len(iss[i]) : FlattenSeq(iss)[before + k] = iss[i][k]
    BY FlattenPart
  <2> QED
    BY <2>1, <2>2, <2>3
<1>2. out \in Seq(V) /\ Len(out) = Len(all)
  BY DEF Returned
<1>3. Model[m].kind \in {"stub", "embedding"} => OfWidth(out, Dim(m))
  BY DEF Returned
<1>4. ~ShortPadding(m, 2) => out = AllAlone(m, all)
  BY DEF Returned
<1> SUFFICES Returned(m, x, part)
  OBVIOUS
<1>x. part = SubSeq(out, before + 1, before + Len(x))
  OBVIOUS
<1> HIDE DEF V, all, before, part, T, x
<1>5. /\ part \in Seq(V) /\ Len(part) = Len(x)
      /\ \A k \in 1..Len(x) : part[k] = out[before + k] /\ before + k \in 1..Len(out)
  BY <1>1, <1>2, <1>x
<1>6. Model[m].kind \in {"stub", "embedding"} => OfWidth(part, Dim(m))
  <2> SUFFICES ASSUME Model[m].kind \in {"stub", "embedding"} PROVE OfWidth(part, Dim(m))
    OBVIOUS
  <2>1. \A k \in 1..Len(out) : Len(out[k]) = Dim(m)
    BY <1>3 DEF OfWidth
  <2>2. \A k \in 1..Len(part) : Len(part[k]) = Dim(m)
    BY <1>5, <2>1
  <2> QED
    BY <2>2 DEF OfWidth
<1>7. ~ShortPadding(m, 2) => part = AllAlone(m, x)
  <2> SUFFICES ASSUME ~ShortPadding(m, 2) PROVE part = AllAlone(m, x)
    OBVIOUS
  <2> DEFINE n == Len(x)
  <2>1. DOMAIN all = 1..Len(all) /\ DOMAIN x = 1..n /\ n \in Nat /\ Len(part) = n
    BY <1>1, <1>5
  <2>2. \A k \in 1..Len(all) : out[k] = Alone(m, all[k])
    <3>1. out = [b \in DOMAIN all |-> Alone(m, all[b])]
      BY <1>4 DEF AllAlone
    <3> QED
      BY <2>1, <3>1
  <2>3. \A k \in 1..n : part[k] = Alone(m, x[k])
    BY <1>1, <1>2, <1>5, <2>2
  <2>4. part = [k \in 1..n |-> part[k]]
    BY <1>5, <2>1
  <2>5. AllAlone(m, x) = [k \in 1..n |-> Alone(m, x[k])]
    BY <2>1 DEF AllAlone
  <2>6. [k \in 1..n |-> part[k]] = [k \in 1..n |-> Alone(m, x[k])]
    BY <2>3
  <2> QED
    BY <2>4, <2>5, <2>6
<1> QED
  BY <1>5, <1>6, <1>7 DEF Returned, V

LEMMA OrderOnto ==
    ASSUME NEW S, IsFiniteSet(S), NEW order \in SetToSeqs(S)
    PROVE  /\ order \in Seq(S) /\ Len(order) = Cardinality(S) /\ Cardinality(S) \in Nat
           /\ \A c \in S : \E j \in 1..Len(order) : order[j] = c
<1> DEFINE n == Cardinality(S)
           D == 1..n
<1>1. n \in Nat
  BY FS_CardinalityType
<1>2. order \in [D -> S] /\ \A i, j \in D : i # j => order[i] # order[j]
  BY DEF SetToSeqs
<1>3. IsFiniteSet(D) /\ Cardinality(D) = n
  <2>1. 1 \in Int /\ n \in Int
    BY <1>1
  <2>2. /\ IsFiniteSet(1..n)
        /\ Cardinality(1..n) = IF 1 > n THEN 0 ELSE n - 1 + 1
    BY <2>1, FS_Interval
  <2> HIDE DEF n
  <2> QED
    BY <1>1, <2>2
<1> HIDE DEF n
<1>4. order \in Injection(D, S)
  BY <1>2 DEF Injection, IsInjective
<1>5. order \in Surjection(D, S)
  <2>1. Cardinality(D) = Cardinality(S)
    BY <1>3 DEF n
  <2> HIDE DEF D
  <2> QED
    BY <1>4, <2>1, FS_Injection
<1>6. \A c \in S : \E j \in D : order[j] = c
  BY <1>5 DEF Surjection
<1>7. order \in Seq(S) /\ Len(order) = n
  BY <1>1, <1>2
<1> QED
  BY <1>1, <1>6, <1>7 DEF n

\* The items of requests h[order[1]], h[order[2]], ... one request after the other.
Lists(E, h, order) == [k \in DOMAIN order |-> ItemsIn(E, h[order[k]])]

ListsSplit(E, h, order, i) ==
    Lists(E, h, SubSeq(order, 1, i - 1)) = SubSeq(Lists(E, h, order), 1, i - 1)

LEMMA ListsOfPart ==
    ASSUME NEW E, NEW h, NEW S, NEW order \in Seq(S), NEW i \in 1..Len(order)
    PROVE  ListsSplit(E, h, order, i)
<1> DEFINE ls == Lists(E, h, order)
           few == SubSeq(order, 1, i - 1)
           n == Len(order)
           V == {ItemsIn(E, h[order[k]]) : k \in 1..n}
<1>1. n \in Nat /\ DOMAIN order = 1..n /\ i - 1 \in Nat /\ i - 1 <= n
  OBVIOUS
<1>2. ls = [k \in 1..n |-> ls[k]] /\ \A k \in 1..n : ls[k] = ItemsIn(E, h[order[k]]) /\ ls[k] \in V
  BY <1>1 DEF Lists
<1>3. DOMAIN few = 1..(i - 1) /\ \A k \in 1..(i - 1) : few[k] = order[k]
  BY <1>1
<1> HIDE DEF ls, few, V, n
<1>4. ls \in Seq(V) /\ Len(ls) = n
  BY <1>1, <1>2, TypeOfSeq
<1>5. SubSeq(ls, 1, i - 1) = [k \in 1..(i - 1) |-> ls[k]]
  BY <1>1, <1>4
<1>6. Lists(E, h, few) = [k \in 1..(i - 1) |-> ItemsIn(E, h[few[k]])]
  BY <1>3 DEF Lists
<1>7. \A k \in 1..(i - 1) : ItemsIn(E, h[few[k]]) = ls[k]
  BY <1>1, <1>2, <1>3
<1> QED
  BY <1>5, <1>6, <1>7 DEF ls, few, ListsSplit

\* What the worker makes of a batch of requests for model m.
Queued(E, m, h, S) ==
    \A c \in S : Taken(E, h[c]) /\ h[c].items # <<>> /\ h[c].model = m

PartAt(E, h, order, out, i) ==
    LET before == Len(FlattenSeq(Lists(E, h, SubSeq(order, 1, i - 1))))
    IN  SubSeq(out, before + 1, before + Len(ItemsIn(E, h[order[i]])))

LEMMA BatchReturned ==
    ASSUME NEW E, Registry(E), NEW m \in DOMAIN E, NEW h, NEW S, Queued(E, m, h, S),
           NEW order \in Seq(S), NEW i \in 1..Len(order)
    PROVE  LET out == Infer(m, FlattenSeq(Lists(E, h, order)))
           IN  /\ out = Failed => Model[m].output = "static" \/ ShortPadding(m, 1)
               /\ out # Failed => Returned(m, ItemsIn(E, h[order[i]]), PartAt(E, h, order, out, i))
<1> DEFINE iss == Lists(E, h, order)
           n == Len(order)
           T == ItemOf(m)
           all == FlattenSeq(iss)
           out == Infer(m, all)
<1>1. n \in Nat \ {0} /\ DOMAIN order = 1..n /\ \A k \in 1..n : order[k] \in S
  OBVIOUS
<1>2. m \in DOMAIN Model /\ Probed(m)
  BY RegistryModel
<1>3. \A k \in 1..n : ItemsIn(E, h[order[k]]) \in Seq(T) /\ ItemsIn(E, h[order[k]]) # <<>>
  <2> TAKE k \in 1..n
  <2> DEFINE r == h[order[k]]
  <2>1. Taken(E, r) /\ r.items # <<>> /\ r.model = m
    BY <1>1 DEF Queued
  <2> HIDE DEF r
  <2>2. ItemsIn(E, r) \in Seq(ItemOf(m)) /\ ItemsIn(E, r) # <<>>
    BY <2>1, BatchItems
  <2> QED
    BY <2>2 DEF r
<1>4. iss = [k \in 1..n |-> iss[k]] /\ \A k \in 1..n : iss[k] = ItemsIn(E, h[order[k]])
  BY <1>1 DEF Lists
<1> HIDE DEF iss, n
<1>5. iss \in Seq(Seq(T)) /\ Len(iss) = n
  <2>1. \A k \in 1..n : iss[k] \in Seq(T)
    BY <1>3, <1>4
  <2> DEFINE U == Seq(T)
  <2>2. \A k \in 1..n : iss[k] \in U
    BY <2>1
  <2> HIDE DEF U
  <2>3. iss \in Seq(U) /\ Len(iss) = n
    BY <1>1, <1>4, <2>2, TypeOfSeq
  <2> QED
    BY <2>3 DEF U
<1>6. iss # <<>> /\ \A k \in 1..Len(iss) : iss[k] # <<>>
  <2>1. iss # <<>>
    BY <1>1, <1>5
  <2> QED
    BY <1>3, <1>4, <1>5, <2>1
<1>7. Batched(m, all)
  BY <1>2, <1>5, <1>6, BatchTaken
<1>8. \/ out = Failed /\ (ShortPadding(m, 1) \/ Model[m].output = "static")
      \/ Returned(m, all, out)
  <2> HIDE DEF all
  <2> QED
    BY <1>2, <1>7, InferReturns
<1>9. out = Failed => ~Returned(m, all, out)
  <2> SUFFICES ASSUME out = Failed, Returned(m, all, out) PROVE FALSE
    OBVIOUS
  <2>1. out \in Seq(Seq(Nat)) \/ out \in Seq(Nat)
    BY DEF Returned
  <2> HIDE DEF out
  <2> QED
    BY <2>1, NotFailed
<1>10. i \in 1..Len(iss)
  BY <1>5 DEF n
<1>11. ASSUME Returned(m, all, out)
       PROVE  Returned(m, ItemsIn(E, h[order[i]]), PartAt(E, h, order, out, i))
  <2> HIDE DEF out
  <2> DEFINE before == Len(FlattenSeq(SubSeq(iss, 1, i - 1)))
  <2>1. Returned(m, iss[i], SubSeq(out, before + 1, before + Len(iss[i])))
    <3>1. Returned(m, FlattenSeq(iss), out)
      BY <1>11
    <3> QED
      BY <1>2, <1>5, <1>10, <3>1, PartReturned
  <2>2. iss[i] = ItemsIn(E, h[order[i]])
    BY <1>4, <1>5, <1>10
  <2>3. SubSeq(iss, 1, i - 1) = Lists(E, h, SubSeq(order, 1, i - 1))
    <3>1. ListsSplit(E, h, order, i)
      <4>1. order \in Seq(S) /\ i \in 1..Len(order)
        BY DEF n
      <4> QED
        BY <4>1, ListsOfPart
    <3> QED
      BY <3>1 DEF ListsSplit, iss
  <2>4. PartAt(E, h, order, out, i) = SubSeq(out, before + 1, before + Len(iss[i]))
    BY <2>2, <2>3 DEF PartAt
  <2> QED
    BY <2>1, <2>2, <2>4
<1> QED
  BY <1>8, <1>9, <1>11 DEF out, all, iss

Ahead(scores) ==
    {z \in (DOMAIN scores) \X (DOMAIN scores) :
        \/ scores[z[1]] > scores[z[2]]
        \/ scores[z[1]] = scores[z[2]] /\ z[1] < z[2]}

LEMMA AheadOrder ==
    ASSUME NEW scores \in Seq(Nat)
    PROVE  IsOrder(DOMAIN scores, Ahead(scores))
<1> DEFINE D == DOMAIN scores
           R == Ahead(scores)
<1>1. \A i \in D : scores[i] \in Nat /\ i \in Nat
  OBVIOUS
<1>2. \A i, j \in D : <<i, j>> \in R <=> \/ scores[i] > scores[j]
                                         \/ scores[i] = scores[j] /\ i < j
  BY DEF Ahead
<1> HIDE DEF D, R
<1>3. \A i \in D : <<i, i>> \notin R
  BY <1>1, <1>2
<1>4. ASSUME NEW i \in D, NEW j \in D, NEW k \in D, <<i, j>> \in R, <<j, k>> \in R PROVE <<i, k>> \in R
  <2> DEFINE a == scores[i]
             b == scores[j]
             d == scores[k]
  <2>1. a \in Nat /\ b \in Nat /\ d \in Nat /\ i \in Nat /\ j \in Nat /\ k \in Nat
    BY <1>1
  <2>2. (a > b \/ (a = b /\ i < j)) /\ (b > d \/ (b = d /\ j < k))
    BY <1>2, <1>4
  <2>3. (a > d \/ (a = d /\ i < k)) => <<i, k>> \in R
    BY <1>2
  <2> HIDE DEF a, b, d
  <2> QED
    BY <2>1, <2>2, <2>3
<1>5. ASSUME NEW i \in D, NEW j \in D PROVE i = j \/ <<i, j>> \in R \/ <<j, i>> \in R
  <2> DEFINE a == scores[i]
             b == scores[j]
  <2>1. a \in Nat /\ b \in Nat /\ i \in Nat /\ j \in Nat
    BY <1>1
  <2>2. /\ (a > b \/ (a = b /\ i < j)) => <<i, j>> \in R
        /\ (b > a \/ (b = a /\ j < i)) => <<j, i>> \in R
    BY <1>2
  <2> HIDE DEF a, b
  <2> QED
    BY <2>1, <2>2
<1> QED
  BY <1>3, <1>4, <1>5 DEF IsOrder, D, R

\* The stable sort puts the highest scores first and loses none.
LEMMA RankedAreTop ==
    ASSUME NEW scores \in Seq(Nat), NEW top \in Nat \cup {None}
    PROVE  AreTop(Ranked(scores, top), scores, top)
<1> DEFINE D == DOMAIN scores
           R == Ahead(scores)
           l == Len(scores)
           order == Ordered(D, R)
           n == IF top = None \/ top > l THEN l ELSE top
           rows == Ranked(scores, top)
<1>1. l \in Nat /\ D = 1..l /\ \A i \in D : scores[i] \in Nat
  OBVIOUS
<1>2. n \in Nat /\ n <= l
  <2>1. CASE top = None
    BY <1>1, <2>1
  <2>2. CASE top # None
    <3>1. top \in Nat
      BY <2>2
    <3> HIDE DEF l
    <3> QED
      BY <1>1, <2>2, <3>1
  <2> QED
    BY <2>1, <2>2
<1>3. IsFiniteSet(D) /\ Cardinality(D) = l
  <2> DEFINE k == l
  <2>1. 1 \in Int /\ k \in Int
    BY <1>1
  <2> HIDE DEF k
  <2>2. /\ IsFiniteSet(1..k)
        /\ Cardinality(1..k) = IF 1 > k THEN 0 ELSE k - 1 + 1
    BY <2>1, FS_Interval
  <2>3. k \in Nat
    BY <1>1 DEF k
  <2>4. Cardinality(1..k) = k
    BY <2>2, <2>3
  <2> QED
    BY <1>1, <2>2, <2>4 DEF k
<1>4. IsOrder(D, R)
  BY AheadOrder
<1>5. rows = [k \in 1..n |-> [index |-> order[k], score |-> scores[order[k]]]]
  BY DEF Ranked, Ahead
<1>6. \A i, j \in D : <<i, j>> \in R => i # j /\ scores[i] >= scores[j]
  BY <1>1 DEF Ahead
<1> HIDE DEF D, R
<1>7. /\ order \in [1..l -> D]
      /\ \A r \in D : \E k \in 1..l : order[k] = r
      /\ \A i, j \in 1..l : i < j => <<order[i], order[j]>> \in R
  BY <1>3, <1>4, OrderedProperties
<1> HIDE DEF order, l, n, rows
<1>8. DOMAIN rows = 1..n /\ \A k \in 1..n : rows[k].index = order[k] /\ rows[k].score = scores[order[k]]
  BY <1>5
<1>9. Len(rows) = n
  <2> DEFINE V == {[index |-> order[k], score |-> scores[order[k]]] : k \in 1..n}
  <2>1. rows = [k \in 1..n |-> rows[k]] /\ \A k \in 1..n : rows[k] \in V
    BY <1>5
  <2> HIDE DEF V
  <2> QED
    BY <1>2, <2>1, TypeOfSeq
<1>10. \A i \in DOMAIN rows : rows[i].score = scores[rows[i].index]
  BY <1>8
<1>11. \A i \in 1..n : i \in 1..l /\ order[i] \in D
  BY <1>1, <1>2, <1>7
<1>12. \A i, j \in DOMAIN rows :
          i < j => rows[i].index # rows[j].index /\ rows[i].score >= rows[j].score
  <2> SUFFICES ASSUME NEW i \in 1..n, NEW j \in 1..n, i < j
               PROVE  rows[i].index # rows[j].index /\ rows[i].score >= rows[j].score
    BY <1>8
  <2>1. <<order[i], order[j]>> \in R /\ order[i] \in D /\ order[j] \in D
    BY <1>7, <1>11
  <2>2. order[i] # order[j] /\ scores[order[i]] >= scores[order[j]]
    BY <1>6, <2>1
  <2> QED
    BY <1>8, <2>2
<1>13. \A k \in D :
          \/ \E i \in DOMAIN rows : rows[i].index = k
          \/ \A i \in DOMAIN rows : rows[i].score >= scores[k]
  <2> TAKE k \in D
  <2>1. PICK p \in 1..l : order[p] = k
    BY <1>7
  <2>2. CASE p <= n
    <3>1. p \in 1..n
      BY <1>1, <1>2, <2>2
    <3> QED
      BY <1>8, <2>1, <3>1
  <2>3. CASE ~(p <= n)
    <3>1. \A i \in 1..n : i < p
      BY <1>1, <1>2, <2>3
    <3>2. \A i \in 1..n : scores[order[i]] >= scores[k]
      BY <1>6, <1>7, <1>11, <2>1, <3>1
    <3> QED
      BY <1>8, <3>2
  <2> QED
    BY <2>2, <2>3
<1> QED
  BY <1>9, <1>10, <1>12, <1>13 DEF AreTop, n, l, D, rows

\* The items a worker takes from a request are those that were asked.
LEMMA ItemsAsked ==
    ASSUME NEW E, Registry(E), NEW q, Asked(q), ~Ragged(AsRead(q)), Taken(E, AsRequest(AsRead(q)))
    PROVE  ItemsIn(E, AsRequest(AsRead(q))) = AsRead(q).items
<1> DEFINE z == AsRead(q)
           r == AsRequest(z)
           m == r.model
           n == E[m].n
<1>1. /\ r.task = q.task /\ r.model = z.model /\ r.n = Width(z) /\ r.task \in TaskNames
      /\ r.task = "embed" => r.items = z.items
      /\ r.task = "rerank" => r.items = z.items
      /\ r.task = "evaluate" => r.items = FlattenSeq(z.items) /\ z.items \in Seq(Seq(Words))
  BY RequestOf
<1>2. z.task = q.task
  <2>1. z = [channel |-> q.channel, task |-> q.task, model |-> z.model, items |-> z.items,
             option |-> q.option, damage |-> q.damage, cut |-> q.cut]
    BY ReadType
  <2> HIDE DEF z
  <2> QED
    BY <2>1
<1>3. KnownIn(E, r) /\ (r.task = "evaluate" => r.n = n)
  BY DEF Taken, AdmittedIn
<1>4. ~Ragged(z)
  OBVIOUS
<1> HIDE DEF z, r
<1>5. r.model \in DOMAIN E /\ (r.task = "evaluate" => Model[r.model].kind = "tabular")
  BY <1>1, <1>3, AdmittedModel
<1>6. n \in Nat /\ (r.task = "evaluate" => n # 0)
  BY <1>5, RegistryModel
<1>7. CASE q.task # "evaluate"
  BY <1>1, <1>7 DEF ItemsIn, TaskNames, r, z
<1>8. CASE q.task = "evaluate"
  <2> DEFINE ss == z.items
             k == Len(ss)
             flat == FlattenSeq(ss)
             T == Words
  <2>1. n \in Nat \ {0} /\ ss \in Seq(Seq(T)) /\ r.items = flat /\ Width(z) = n
    BY <1>1, <1>3, <1>6, <1>8
  <2>2. k \in Nat /\ DOMAIN ss = 1..k
    BY <2>1
  <2>3. OfWidth(ss, n)
    <3>1. \A i \in DOMAIN ss : Len(ss[i]) = n
      BY <1>2, <1>4, <1>8, <2>1 DEF Ragged
    <3> QED
      BY <2>2, <3>1 DEF OfWidth
  <2>4. ItemsIn(E, r) = [i \in 1..(Len(r.items) \div n) |-> SubSeq(r.items, (i - 1) * n + 1, i * n)]
    BY <1>1, <1>8 DEF ItemsIn
  <2> HIDE DEF n, ss, T, flat
  <2>5. Len(flat) = k * n
    <3>1. \A xs \in Seq(Seq(T)) : OfWidth(xs, n) => Len(FlattenSeq(xs)) = Len(xs) * n
      BY <2>1, FlattenEqualLength
    <3> QED
      BY <2>1, <2>3, <3>1 DEF flat
  <2>6. Len(flat) \div n = k
    <3> DEFINE o == 0
    <3>1. o \in Nat /\ o < n /\ k \in Nat
      BY <2>1, <2>2
    <3> HIDE DEF o, k
    <3>2. (n * k + o) \div n = k
      BY <2>1, <3>1, DivisionTells
    <3> DEFINE x == n * k
    <3>3. x \in Nat /\ (x + o) \div n = k /\ Len(flat) = x
      BY <2>1, <2>5, <3>1, <3>2
    <3> HIDE DEF x
    <3>4. x + o = x
      BY <3>3 DEF o
    <3> QED
      BY <3>3, <3>4
  <2>7. \A i \in 1..k : SubSeq(flat, (i - 1) * n + 1, i * n) = ss[i]
    <3> TAKE i \in 1..k
    <3>1. i \in 1..Len(ss)
      OBVIOUS
    <3> HIDE DEF k
    <3>2. RowStands(ss, n, i)
      BY <2>1, <2>3, <3>1, FlattenRow
    <3> QED
      BY <3>2 DEF RowStands, flat
  <2>8. ss = [i \in 1..k |-> ss[i]]
    BY <2>1, <2>2
  <2>9. ItemsIn(E, r) = [i \in 1..k |-> SubSeq(flat, (i - 1) * n + 1, i * n)]
    BY <2>1, <2>4, <2>6
  <2>10. [i \in 1..k |-> SubSeq(flat, (i - 1) * n + 1, i * n)] = [i \in 1..k |-> ss[i]]
    BY <2>7
  <2> QED
    BY <2>8, <2>9, <2>10 DEF ss, r, z
<1> QED
  BY <1>7, <1>8

LEMMA ReplyKept ==
    ASSUME NEW E, NEW s, NEW t, HasReply(E, s), t.ask = s.ask, t.heard = s.heard, t.reply = s.reply
    PROVE  HasReply(E, t)
<1>1. IsRefused(E, s) => IsRefused(E, t)
  BY DEF IsRefused
<1>2. IsAnswered(E, s) => IsAnswered(E, t)
  BY DEF IsAnswered, IsHeard
<1> QED
  BY <1>1, <1>2 DEF HasReply

LEMMA OkIsAnswered ==
    ASSUME NEW E, NEW s, HasReply(E, s), s.reply.status = "ok"
    PROVE  /\ IsAnswered(E, s) /\ Taken(E, s.heard) /\ IsHeard(E, s) /\ Asked(s.ask)
           /\ Returned(s.heard.model, ItemsIn(E, s.heard), s.reply.rows)
<1>1. ~IsRefused(E, s)
  BY AnswersAreReplies DEF IsRefused
<1> QED
  BY <1>1 DEF HasReply, IsAnswered

\* What a request of countable size is answered.
LEMMA OwnReturned ==
    ASSUME NEW E, Registry(E), NEW s, HasReply(E, s), s.reply.status = "ok", Countable(AsRead(s.ask))
    PROVE  LET z == AsRead(s.ask)
           IN  /\ s.heard = AsRequest(z) /\ s.ask.damage = "none" /\ ~Ragged(z)
               /\ Returned(z.model, z.items, s.reply.rows)
               /\ ~Skewed(z.model) => s.reply.rows = Own(z)
<1> DEFINE q == s.ask
           z == AsRead(q)
           h == s.heard
           rows == s.reply.rows
<1>1. /\ Taken(E, h) /\ Asked(q) /\ HeardRight(q, h)
      /\ Returned(h.model, ItemsIn(E, h), rows)
  BY OkIsAnswered DEF IsHeard
<1>2. h # Malformed
  BY <1>1 DEF Taken, AdmittedIn
<1>3. h = AsRequest(z) /\ q.damage = "none" /\ ~Ragged(z)
  BY <1>1, <1>2 DEF HeardRight
<1>4. h.model = z.model
  <2>1. AsRequest(z).model = z.model
    BY <1>1, RequestOf
  <2> QED
    BY <1>3, <2>1
<1>5. ItemsIn(E, h) = z.items
  <2>1. ItemsIn(E, AsRequest(AsRead(q))) = AsRead(q).items
    BY <1>1, <1>3, ItemsAsked
  <2> QED
    BY <1>3, <2>1
<1>6. Returned(z.model, z.items, rows)
  BY <1>1, <1>4, <1>5
<1>7. ~Skewed(z.model) => rows = Own(z)
  <2> SUFFICES ASSUME ~Skewed(z.model) PROVE rows = Own(z)
    OBVIOUS
  <2>1. h.model \in DOMAIN Model
    BY <1>1, BatchItems
  <2>2. ~ShortPadding(z.model, 2)
    BY <1>4, <2>1 DEF Skewed, ShortPadding
  <2>3. rows = AllAlone(z.model, z.items)
    BY <1>6, <2>2 DEF Returned
  <2>4. AllAlone(z.model, z.items) = Own(z)
    BY DEF AllAlone, Own
  <2> QED
    BY <2>3, <2>4
<1> QED
  BY <1>3, <1>6, <1>7

\* The rows of a reply are vectors for texts and scores for all else.
LEMMA ReturnedRows ==
    ASSUME NEW E, Registry(E), NEW r, Taken(E, r), NEW items, NEW rows, Returned(r.model, items, rows)
    PROVE  /\ r.model \in DOMAIN E /\ r.task \in TaskNames /\ Len(rows) = Len(items)
           /\ r.task = "embed" => /\ rows \in Seq(Seq(Nat)) /\ OfWidth(rows, Dim(r.model))
                                  /\ E[r.model].dim = Dim(r.model) /\ Dim(r.model) \in Nat
           /\ r.task # "embed" => rows \in Seq(Nat)
<1>1. KnownIn(E, r) /\ r.task \in TaskNames
  BY DEF Taken, Requested, AdmittedIn
<1> DEFINE m == r.model
<1>2. m \in DOMAIN E /\ (r.task = "embed" <=> Model[m].kind \in {"stub", "embedding"})
  BY <1>1, AdmittedModel
<1>3. Model[m].kind \in {"stub", "embedding"} => E[m].dim = Dim(m) /\ E[m].dim \in Nat
  BY <1>2, RegistryModel
<1> QED
  BY <1>1, <1>2, <1>3 DEF Returned

LEMMA RespondStep ==
    ASSUME NEW E, Registry(E), NEW s, NEW t, IsReplied(E, s), s.ask.channel = "http"
    PROVE  /\ s.reply.status # "ok" /\ Finishes(s, t, Nothing) => IsDone(E, t)
           /\ /\ s.reply.status = "ok"
              /\ Finishes(s, t, [ok |-> TRUE, rows |-> IF s.ask.task = "rerank" THEN Ranked(s.reply.rows, s.ask.option)
                                                       ELSE s.reply.rows])
              => IsDone(E, t)
<1> DEFINE q == s.ask
<1>1. HasReply(E, s) /\ Asked(q) /\ s.reply # None
  <2>1. HasReply(E, s) /\ s.reply \in Replies /\ Asked(q)
    BY DEF IsReplied, HasReply
  <2> QED
    BY <2>1, AnswersAreReplies
<1>3. AsRead(q) = q
  BY DEF AsRead
<1>4. ASSUME NEW a, Finishes(s, t, a), Told(a), AnsweredOwn(q, a),
             s.reply.status # "ok" => ~a.ok, s.reply.status = "ok" => a.ok
      PROVE  IsDone(E, t)
  <2>1. /\ t.pc = "done" /\ t.ask = q /\ t.answer = a
        /\ t.heard = s.heard /\ t.reply = s.reply
    BY <1>4 DEF Finishes, Moves
  <2>2. HasReply(E, t)
    BY <1>1, <2>1, ReplyKept
  <2> QED
    BY <1>1, <1>3, <1>4, <2>1, <2>2 DEF IsDone
<1>5. ASSUME s.reply.status # "ok", Finishes(s, t, Nothing) PROVE IsDone(E, t)
  BY <1>4, <1>5, NothingIsOwn
<1>6. ASSUME s.reply.status = "ok",
             Finishes(s, t, [ok |-> TRUE, rows |-> IF q.task = "rerank" THEN Ranked(s.reply.rows, q.option)
                                                   ELSE s.reply.rows])
      PROVE  IsDone(E, t)
  <2> DEFINE rows == s.reply.rows
             best == IF q.task = "rerank" THEN Ranked(rows, q.option) ELSE rows
             a == [ok |-> TRUE, rows |-> best]
  <2>1. a.ok = TRUE /\ a.rows = best
    OBVIOUS
  <2>2. Finishes(s, t, a)
    BY <1>6
  <2>3. ASSUME Countable(q), ~Skewed(q.model)
        PROVE  IF q.task = "rerank" THEN AreTop(best, Own(q), q.option) ELSE best = Own(q)
    <3>1. rows = Own(q) /\ s.heard = AsRequest(q) /\ Returned(q.model, q.items, rows)
      BY <1>1, <1>3, <1>6, <2>3, OwnReturned
    <3>2. CASE q.task = "rerank"
      <4>1. Taken(E, s.heard)
        BY <1>1, <1>6, OkIsAnswered
      <4>2. s.heard.task = q.task /\ s.heard.model = q.model
        <5>1. AsRequest(AsRead(q)).task = q.task /\ AsRequest(AsRead(q)).model = AsRead(q).model
          BY <1>1, RequestOf
        <5> QED
          BY <1>3, <3>1, <5>1
      <4>3. rows \in Seq(Nat)
        <5>1. Returned(s.heard.model, q.items, rows) /\ s.heard.task # "embed"
          BY <3>1, <3>2, <4>2
        <5> HIDE DEF rows
        <5> QED
          BY <4>1, <5>1, ReturnedRows
      <4>4. q.option \in Nat \cup {None}
        BY <1>1, AskedType
      <4> HIDE DEF rows
      <4>5. AreTop(Ranked(rows, q.option), rows, q.option)
        BY <4>3, <4>4, RankedAreTop
      <4> QED
        BY <3>1, <3>2, <4>5
    <3>3. CASE q.task # "rerank"
      BY <3>1, <3>3
    <3> QED
      BY <3>2, <3>3
  <2>4. AnsweredOwn(q, a)
    <3> HIDE DEF best, a
    <3> QED
      BY <2>1, <2>3 DEF AnsweredOwn
  <2> HIDE DEF a
  <2> QED
    BY <1>4, <1>6, <2>1, <2>2, <2>4 DEF Told
<1> QED
  BY <1>5, <1>6

LEMMA ResponseAnswerable ==
    ASSUME NEW E, Registry(E), NEW s, s.reply.status = "ok", Taken(E, s.heard),
           Returned(s.heard.model, ItemsIn(E, s.heard), s.reply.rows)
    PROVE  /\ Answerable(ResponseIn(E, s)) /\ ResponseIn(E, s).task = s.heard.task
           /\ s.heard.task = "embed" => /\ ResponseIn(E, s).dim = Dim(s.heard.model)
                                        /\ ResponseIn(E, s).floats = FlattenSeq(s.reply.rows)
           /\ s.heard.task # "embed" => ResponseIn(E, s).dim = 0 /\ ResponseIn(E, s).floats = s.reply.rows
<1> DEFINE h == s.heard
           rows == s.reply.rows
           r == ResponseIn(E, s)
<1>1. Taken(E, h) /\ Returned(h.model, ItemsIn(E, h), rows)
  OBVIOUS
<1>2. /\ h.task \in TaskNames
      /\ h.task = "embed" => rows \in Seq(Seq(Nat)) /\ E[h.model].dim = Dim(h.model) /\ Dim(h.model) \in Nat
      /\ h.task # "embed" => rows \in Seq(Nat)
  BY <1>1, ReturnedRows
<1>3. CASE h.task = "embed"
  <2> DEFINE f == FlattenSeq(rows)
             d == E[h.model].dim
  <2>1. f \in Seq(Nat)
    BY <1>2, <1>3, FlattenType
  <2>2. r = [task |-> "embed", dim |-> d, floats |-> f]
    BY <1>3 DEF ResponseIn
  <2>3. d = Dim(h.model) /\ d \in Nat
    BY <1>2, <1>3
  <2>4. f = FlattenSeq(rows)
    OBVIOUS
  <2> HIDE DEF f, d, r
  <2>5. r.task = "embed" /\ r.dim = d /\ r.floats = f
    BY <2>2
  <2>6. r = [task |-> r.task, dim |-> r.dim, floats |-> r.floats]
    BY <2>2, <2>5
  <2>7. Answerable(r)
    BY <2>1, <2>3, <2>5, <2>6 DEF Answerable, TaskNames
  <2> QED
    BY <1>3, <2>3, <2>4, <2>5, <2>7 DEF r
<1>4. CASE h.task # "embed"
  <2>1. r = [task |-> h.task, dim |-> 0, floats |-> rows]
    BY <1>4 DEF ResponseIn
  <2> HIDE DEF r
  <2>2. r.task = h.task /\ r.dim = 0 /\ r.floats = rows
    BY <2>1
  <2>3. r = [task |-> r.task, dim |-> r.dim, floats |-> r.floats]
    BY <2>1, <2>2
  <2>4. Answerable(r)
    BY <1>2, <1>4, <2>2, <2>3 DEF Answerable
  <2> QED
    BY <1>4, <2>2, <2>4 DEF r
<1> QED
  BY <1>3, <1>4

\* A reply is bytes, whichever request the daemon heard.
LEMMA ResponseBytes ==
    ASSUME NEW E, Registry(E), NEW s, Sincere(E, s.heard, s.reply)
    PROVE  EncodeResponse(ResponseIn(E, s)) \in Seq(Units)
<1> DEFINE r == ResponseIn(E, s)
<1>1. CASE s.reply.status = "ok"
  <2>1. Answerable(r)
    BY <1>1, ResponseAnswerable DEF Sincere
  <2> HIDE DEF r
  <2> QED
    BY <2>1, ResponsePlaces DEF r
<1>2. CASE s.reply.status # "ok"
  <2>1. r = Error
    BY <1>2 DEF ResponseIn
  <2> QED
    BY <2>1, ErrorRead
<1> QED
  BY <1>1, <1>2

LEMMA EncodeStep ==
    ASSUME NEW E, NEW s, NEW t, IsReplied(E, s), s.ask.channel # "http",
           Moves(s, t, "answering"), t.wire = Frame(EncodeResponse(ResponseIn(E, s))),
           t.heard = s.heard, t.reply = s.reply, t.answer = s.answer
    PROVE  IsAnswering(E, t)
<1>1. HasReply(E, s) /\ s.answer = None
  BY DEF IsReplied
<1>2. t.pc = "answering" /\ t.ask = s.ask
  BY DEF Moves
<1>3. HasReply(E, t)
  BY <1>1, <1>2, ReplyKept
<1>4. ResponseIn(E, t) = ResponseIn(E, s)
  BY DEF ResponseIn
<1> QED
  BY <1>1, <1>2, <1>3, <1>4 DEF IsAnswering

Keeps(f) == [i \in 1..(Len(f) % WordMod) |-> f[i] % WordMod] = f

\* Words as many as a word counts cross unchanged.
LEMMA WordsKept ==
    ASSUME NEW f \in Seq(Words), Len(f) < WordMod
    PROVE  Keeps(f)
<1> DEFINE n == Len(f)
<1>1. n \in Nat /\ n < WordMod /\ WordMod \in Nat /\ WordMod > 0
  BY UnitsAreNumbers
<1>2. n % WordMod = n
  <2> HIDE DEF n
  <2> QED
    BY <1>1, ModSmall
<1>3. ASSUME NEW i \in 1..n PROVE f[i] % WordMod = f[i]
  <2> DEFINE x == f[i]
  <2>1. x \in Words
    OBVIOUS
  <2>2. x \in Nat /\ x < WordMod
    BY <2>1, UnitsAreNumbers
  <2> HIDE DEF x
  <2>3. x % WordMod = x
    BY <1>1, <2>2, ModSmall
  <2> QED
    BY <2>3 DEF x
<1>4. f = [i \in 1..n |-> f[i]]
  OBVIOUS
<1>5. [i \in 1..n |-> f[i] % WordMod] = [i \in 1..n |-> f[i]]
  BY <1>3
<1> QED
  BY <1>2, <1>4, <1>5 DEF Keeps

CutInto(rows, d) ==
    [i \in 1..Len(rows) |-> SubSeq(FlattenSeq(rows), (i - 1) * d + 1, i * d)] = rows

LEMMA VectorsCut ==
    ASSUME NEW rows \in Seq(Seq(Nat)), NEW d \in Nat, OfWidth(rows, d)
    PROVE  CutInto(rows, d)
<1> DEFINE n == Len(rows)
<1>1. n \in Nat /\ rows = [i \in 1..n |-> rows[i]]
  OBVIOUS
<1>2. \A i \in 1..n : SubSeq(FlattenSeq(rows), (i - 1) * d + 1, i * d) = rows[i]
  <2> TAKE i \in 1..n
  <2>1. i \in 1..Len(rows)
    OBVIOUS
  <2> HIDE DEF n
  <2>2. RowStands(rows, d, i)
    BY <2>1, FlattenRow
  <2> QED
    BY <2>2 DEF RowStands
<1>3. [i \in 1..n |-> SubSeq(FlattenSeq(rows), (i - 1) * d + 1, i * d)] = [i \in 1..n |-> rows[i]]
  BY <1>2
<1> QED
  BY <1>1, <1>3 DEF CutInto

LEMMA DimWord ==
    ASSUME NEW m
    PROVE  Dim(m) \in Nat /\ Dim(m) < WordMod /\ Dim(m) % WordMod = Dim(m)
<1>1. StubDim \in Words
  BY ConfigAssumption
<1>2. StubDim \in Nat /\ StubDim < WordMod /\ WordMod \in Nat /\ WordMod > 4
  BY <1>1, UnitsAreNumbers
<1> DEFINE d == Dim(m)
<1>3. d \in Nat /\ d < WordMod
  BY <1>2 DEF Dim, Hidden
<1> HIDE DEF d
<1>4. d % WordMod = d
  BY <1>2, <1>3, ModSmall
<1> QED
  BY <1>3, <1>4 DEF d

\* What a model says of what is asked is words.
LEMMA OwnWords ==
    ASSUME NEW E, Registry(E), NEW q, Asked(q), Taken(E, AsRequest(AsRead(q)))
    PROVE  LET z == AsRead(q)
           IN  IF q.task = "embed" THEN Own(z) \in Seq(ArrayRows) /\ OfWidth(Own(z), Dim(z.model))
               ELSE Own(z) \in Seq(Words)
<1> DEFINE z == AsRead(q)
           r == AsRequest(z)
           m == z.model
           n == Len(z.items)
           own == Own(z)
           B == WordMod - 1
<1>1. r.task = q.task /\ r.model = m
  BY RequestOf
<1>2. z.items \in Seq(ReadItem(q.task)) /\ q.task \in TaskNames
  BY ReadType, AskedType
<1>3. KnownIn(E, r)
  BY DEF Taken, AdmittedIn
<1> HIDE DEF z, r
<1>4. /\ m \in DOMAIN E
      /\ q.task = "embed" <=> Model[m].kind \in {"stub", "embedding"}
      /\ q.task = "rerank" <=> Model[m].kind = "rerank"
      /\ q.task = "evaluate" <=> Model[m].kind = "tabular"
  BY <1>1, <1>2, <1>3, AdmittedModel
<1>5. m \in DOMAIN Model
  BY <1>4, RegistryModel
<1>6. /\ B \in Nat /\ FloatMod - 1 <= B /\ 0..B = Words
      /\ \A u \in Units : u \in Nat /\ u < B
  <2>1. FloatMod <= WordMod /\ FloatMod \in Nat \ {0}
    BY ConfigAssumption, EngineAssumption
  <2>2. Base \in Nat /\ WordMod \in Nat /\ WordMod > Base /\ Base >= 4
    BY UnitsAreNumbers
  <2>3. \A u \in Units : u \in Nat /\ u <= Base - 1
    BY <2>2 DEF Units
  <2>4. 0..B = Words
    BY DEF Words
  <2> HIDE DEF B
  <2>5. B = WordMod - 1
    BY DEF B
  <2> QED
    BY <2>1, <2>2, <2>3, <2>4, <2>5
<1>7. ASSUME NEW i \in 1..n
      PROVE  IF q.task = "embed" THEN Alone(m, z.items[i]) \in Seq(Words) /\ Len(Alone(m, z.items[i])) = Dim(m)
             ELSE Alone(m, z.items[i]) \in Words
  <2> DEFINE x == z.items[i]
  <2>1. x \in ReadItem(q.task)
    BY <1>2
  <2>2. Legibles \subseteq Seq(Units) /\ Words \subseteq Nat
    BY UnitsAreNumbers DEF Legibles
  <2> HIDE DEF x, B
  <2>3. ASSUME q.task = "embed" PROVE x \in Seq(Nat) /\ \A k \in 1..Len(x) : x[k] < B
    <3>1. x \in Seq(Units)
      BY <2>1, <2>2, <2>3 DEF ReadItem
    <3>2. x \in Seq(Nat)
      BY <3>1, Numbers
    <3>3. \A k \in 1..Len(x) : x[k] \in Units
      BY <3>1
    <3> QED
      BY <1>6, <3>2, <3>3
  <2>4. ASSUME q.task = "rerank" PROVE x \in PairItem
    <3>1. x \in Seq(Units) \X Seq(Units)
      BY <2>1, <2>2, <2>4 DEF ReadItem
    <3>2. Seq(Units) \subseteq Seq(Nat)
      BY Numbers
    <3> QED
      BY <3>1, <3>2 DEF PairItem
  <2>5. ASSUME q.task = "evaluate" PROVE x \in Seq(Nat)
    <3>1. x \in Seq(Words)
      BY <2>1, <2>5 DEF ReadItem
    <3> QED
      BY <2>2, <3>1, WiderSeq
  <2>6. /\ Model[m].kind = "embedding" => x \in Seq(Nat) /\ \A k \in 1..Len(x) : x[k] < B
        /\ Model[m].kind \in {"stub", "tabular"} => x \in Seq(Nat)
        /\ Model[m].kind = "rerank" => x \in PairItem
    BY <1>4, <2>3, <2>4, <2>5
  <2>7. IF Model[m].kind \in {"stub", "embedding"}
        THEN Alone(m, x) \in Seq(0..B) /\ Len(Alone(m, x)) = Dim(m)
        ELSE Alone(m, x) \in 0..B
    BY <1>5, <1>6, <2>6, AloneBound
  <2> QED
    BY <1>4, <1>6, <2>7 DEF x
<1>8. n \in Nat /\ DOMAIN z.items = 1..n
  BY <1>2
<1>9. own = [i \in 1..n |-> own[i]] /\ \A i \in 1..n : own[i] = Alone(m, z.items[i])
  BY <1>8 DEF Own
<1> HIDE DEF own, n
<1>10. CASE q.task = "embed"
  <2>1. \A i \in 1..n : own[i] \in ArrayRows /\ Len(own[i]) = Dim(m)
    BY <1>7, <1>9, <1>10, DimWord DEF ArrayRows
  <2>2. own \in Seq(ArrayRows) /\ Len(own) = n
    BY <1>8, <1>9, <2>1, TypeOfSeq
  <2>3. OfWidth(own, Dim(m))
    BY <2>1, <2>2 DEF OfWidth
  <2> QED
    BY <1>10, <2>2, <2>3 DEF own, z
<1>11. CASE q.task # "embed"
  <2>1. \A i \in 1..n : own[i] \in Words
    BY <1>7, <1>9, <1>11
  <2>2. own \in Seq(Words)
    BY <1>8, <1>9, <2>1, TypeOfSeq
  <2> QED
    BY <1>11, <2>2 DEF own, z
<1> QED
  BY <1>10, <1>11

LEMMA ReceivedIsAnswer ==
    ASSUME NEW r, Answerable(r)
    PROVE  Received(r) # Malformed /\ Received(r) # Error /\ Received(r).task = r.task
<1> DEFINE f == [i \in 1..(Len(r.floats) % WordMod) |-> r.floats[i] % WordMod]
           d == r.dim % WordMod
           n == Len(r.floats) % WordMod
<1>1. r.task \in TaskNames /\ r.dim \in Nat /\ r.floats \in Seq(Nat)
  BY DEF Answerable
<1>2. WordMod \in Nat /\ WordMod > 0
  BY UnitsAreNumbers
<1>3. d \in Nat
  <2> DEFINE x == r.dim
  <2>1. x \in Nat
    BY <1>1
  <2> HIDE DEF x
  <2>2. x % WordMod \in Nat
    BY <1>2, <2>1, ModSmall
  <2> QED
    BY <2>2 DEF x
<1>4. n \in Nat /\ n <= Len(r.floats)
  <2> DEFINE x == Len(r.floats)
  <2>1. x \in Nat
    BY <1>1
  <2> HIDE DEF x
  <2>2. x % WordMod \in Nat /\ x % WordMod <= x
    BY <1>2, <2>1, ModSmall
  <2> QED
    BY <2>2 DEF x
<1>5. f \in Seq(Nat)
  <2>1. \A i \in 1..n : f[i] \in Nat
    <3> TAKE i \in 1..n
    <3> DEFINE x == r.floats[i]
    <3>0. i \in 1..Len(r.floats)
      <4> HIDE DEF n
      <4> QED
        BY <1>1, <1>4
    <3>1. x \in Nat
      BY <1>1, <3>0
    <3>2. f[i] = x % WordMod
      OBVIOUS
    <3> HIDE DEF x
    <3> QED
      BY <1>2, <3>1, <3>2, ModSmall
  <2>2. f = [i \in 1..n |-> f[i]]
    OBVIOUS
  <2> HIDE DEF f, n
  <2> QED
    BY <1>4, <2>1, <2>2, TypeOfSeq
<1>6. Received(r) = [task |-> r.task, dim |-> d, floats |-> f]
  BY DEF Received
<1> HIDE DEF d, f
<1>7. Received(r) \in [task : TaskNames, dim : Nat, floats : Seq(Nat)] /\ Received(r).task = r.task
  <2> DEFINE x == Received(r)
  <2>1. x = [task |-> r.task, dim |-> d, floats |-> f]
    BY <1>6
  <2> HIDE DEF x
  <2>2. x \in [task : TaskNames, dim : Nat, floats : Seq(Nat)] /\ x.task = r.task
    BY <1>1, <1>3, <1>5, <2>1
  <2> QED
    BY <2>2 DEF x
<1>8. Malformed \notin [task : TaskNames, dim : Nat, floats : Seq(Nat)]
  BY SentinelAssumption, Zenon DEF TaskNames
<1>9. Error.task = "error" /\ r.task # "error"
  BY <1>1 DEF Error, TaskNames
<1> QED
  BY <1>7, <1>8, <1>9

LEMMA ReplyHeard ==
    ASSUME NEW E, Registry(E), NEW s, IsAnswering(E, s)
    PROVE  LET w == s.wire
               r == ResponseIn(E, s)
               v == DecodeResponse(SubSeq(w, 3, WordAt(w, 1) + 2))
           IN  /\ s.reply.status # "ok" => v \in {Malformed, Error}
               /\ s.reply.status = "ok" => v \in {Malformed, Received(r)}
               /\ s.reply.status = "ok" /\ Len(EncodeResponse(r)) <= MaxFrame =>
                     v = Received(r) /\ WordAt(w, 1) <= MaxFrame /\ Len(r.floats) < WordMod
<1> DEFINE w == s.wire
           r == ResponseIn(E, s)
           p == EncodeResponse(r)
           n == Len(p)
           x == SubSeq(w, 3, WordAt(w, 1) + 2)
           v == DecodeResponse(x)
<1>1. HasReply(E, s) /\ w = Word(n) \o p
  BY DEF IsAnswering, Frame
<1>2. s.reply.status = "ok" => Answerable(r)
  BY <1>1, OkIsAnswered, ResponseAnswerable
<1>3. s.reply.status # "ok" => r = Error
  BY DEF ResponseIn
<1> HIDE DEF r
<1>4. p \in Seq(Units) /\ n \in Nat
  <2>1. CASE s.reply.status = "ok"
    <3>1. p \in Seq(Units)
      BY <1>2, <2>1, ResponsePlaces
    <3> QED
      BY <3>1
  <2>2. CASE s.reply.status # "ok"
    BY <1>3, <2>2, ErrorRead
  <2> QED
    BY <2>1, <2>2
<1>5. WordMod \in Nat /\ WordMod > 0 /\ MaxFrame \in Nat /\ MaxFrame < WordMod
  BY UnitsAreNumbers, WireAssumption
<1>6. n % WordMod \in 0..n /\ (n < WordMod => n % WordMod = n)
  <2> HIDE DEF n
  <2>1. n % WordMod \in Nat /\ n % WordMod <= n /\ (n < WordMod => n % WordMod = n)
    BY <1>4, <1>5, ModSmall
  <2> DEFINE k == n % WordMod
  <2>2. k \in Nat /\ k <= n /\ (n < WordMod => k = n)
    BY <2>1
  <2> HIDE DEF k
  <2>3. k \in 0..n /\ (n < WordMod => k = n)
    BY <1>4, <2>2
  <2> QED
    BY <2>3 DEF k
<1>7. /\ WordAt(w, 1) = n % WordMod /\ x \in Seq(Nat) /\ Begins(x, p)
      /\ n < WordMod => x = p
  <2> HIDE DEF p
  <2>0. n = Len(p)
    OBVIOUS
  <2> HIDE DEF n, w
  <2>1. LET u == Word(n) \o p
        IN  /\ u \in Seq(Units) /\ Len(u) = Len(p) + 2 /\ WordAt(u, 1) = n % WordMod
            /\ \A l \in 0..Len(p) : LET y == SubSeq(u, 3, l + 2)
                                    IN  y \in Seq(Units) /\ y \in Seq(Nat) /\ Len(y) = l /\ Begins(y, p)
            /\ SubSeq(u, 3, Len(p) + 2) = p
    BY <1>4, PrefixedRead
  <2>2. /\ WordAt(w, 1) = n % WordMod
        /\ \A l \in 0..n : LET y == SubSeq(w, 3, l + 2)
                           IN  y \in Seq(Units) /\ y \in Seq(Nat) /\ Len(y) = l /\ Begins(y, p)
        /\ SubSeq(w, 3, n + 2) = p
    BY <1>1, <2>0, <2>1
  <2>3. x \in Seq(Nat) /\ Begins(x, p)
    BY <1>6, <2>2
  <2>4. n < WordMod => x = p
    BY <1>6, <2>2
  <2> QED
    BY <2>2, <2>3, <2>4
<1>8. ASSUME s.reply.status # "ok" PROVE v \in {Malformed, Error}
  <2>1. Begins(x, EncodeResponse(Error)) /\ x \in Seq(Nat)
    BY <1>3, <1>7, <1>8
  <2> HIDE DEF x
  <2> QED
    BY <2>1, ErrorRead
<1>9. ASSUME s.reply.status = "ok" PROVE v \in {Malformed, Received(r)}
  <2>1. Begins(x, EncodeResponse(r)) /\ x \in Seq(Nat) /\ Answerable(r)
    BY <1>2, <1>7, <1>9
  <2> HIDE DEF x
  <2>2. /\ ~Complete(x) => DecodeResponse(x) = Malformed
        /\ Complete(x) => DecodeResponse(x) = Received(r)
    BY <2>1, ResponseBegun
  <2> QED
    BY <2>2
<1>10. ASSUME s.reply.status = "ok", n <= MaxFrame
       PROVE  v = Received(r) /\ WordAt(w, 1) <= MaxFrame /\ Len(r.floats) < WordMod
  <2>1. n < WordMod
    <3> HIDE DEF n
    <3> QED
      BY <1>4, <1>5, <1>10
  <2>2. x = p /\ WordAt(w, 1) = n
    BY <1>6, <1>7, <2>1
  <2>3. Answerable(r)
    BY <1>2, <1>10
  <2>4. r.floats \in Seq(Nat) /\ Len(r.floats) \in Nat
    BY <2>3 DEF Answerable
  <2>5. n = HeadLen(Code(r.task)) + 2 * Len(r.floats) /\ Code(r.task) \in 0..2
    <3>1. LET k == Code(r.task)
              h == HeadLen(k)
          IN  k \in 0..2 /\ Len(EncodeResponse(r)) = h + 2 * Len(r.floats)
      BY <2>3, ResponsePlaces
    <3> QED
      BY <3>1
  <2>6. Len(r.floats) < WordMod
    <3> DEFINE l == Len(r.floats)
               h == HeadLen(Code(r.task))
    <3>1. l \in Nat /\ h \in Nat /\ n = h + 2 * l
      BY <2>4, <2>5 DEF HeadLen
    <3> HIDE DEF l, h, n
    <3>2. l < WordMod
      BY <1>5, <2>1, <3>1
    <3> QED
      BY <3>2 DEF l
  <2>7. DecodeResponse(p) = Received(r)
    BY <2>3, <2>6, ResponseRead
  <2> QED
    BY <1>10, <2>2, <2>6, <2>7
<1> QED
  BY <1>8, <1>9, <1>10 DEF r

\* The shape of an answer, and the answer itself if a u32 counts it.
LEMMA ReceivedShape ==
    ASSUME NEW E, Registry(E), NEW s, HasReply(E, s), s.reply.status = "ok", Countable(AsRead(s.ask))
    PROVE  LET z == AsRead(s.ask)
               r == ResponseIn(E, s)
               d == Dim(z.model)
               n == Len(z.items)
           IN  /\ s.heard.task = s.ask.task /\ r.task = s.ask.task /\ s.ask.task \in TaskNames
               /\ n \in Nat /\ n = Len(s.ask.items) /\ n < WordMod /\ Len(s.reply.rows) = n
               /\ z.model \in DOMAIN E /\ z.task = s.ask.task /\ z.channel = s.ask.channel
               /\ r.task = "embed" => /\ r.dim = d /\ d % WordMod = d /\ d \in Nat /\ d < WordMod
                                      /\ r.floats = FlattenSeq(s.reply.rows) /\ Len(r.floats) = n * d
                                      /\ E[z.model].dim = d
                                      /\ s.reply.rows \in Seq(Seq(Nat)) /\ OfWidth(s.reply.rows, d)
               /\ r.task # "embed" => r.dim = 0 /\ r.floats = s.reply.rows
               /\ Answerable(r)
               /\ ~Skewed(z.model) =>
                     IF r.task = "embed" THEN s.reply.rows \in Seq(ArrayRows) ELSE s.reply.rows \in Seq(Words)
<1> DEFINE q == s.ask
           z == AsRead(q)
           h == s.heard
           r == ResponseIn(E, s)
           d == Dim(z.model)
           n == Len(z.items)
           rows == s.reply.rows
<1>1. /\ h = AsRequest(z) /\ ~Ragged(z) /\ Returned(z.model, z.items, rows)
      /\ ~Skewed(z.model) => rows = Own(z)
  BY OwnReturned
<1>2. Asked(q) /\ Taken(E, h)
  BY OkIsAnswered
<1>3. h.task = q.task /\ h.model = z.model
  <2>1. AsRequest(z).task = q.task /\ AsRequest(z).model = z.model
    BY <1>2, RequestOf
  <2> QED
    BY <1>1, <2>1
<1>4. z.task = q.task /\ n \in Nat /\ n = Len(q.items) /\ z.channel = q.channel
  <2>1. /\ z = [channel |-> q.channel, task |-> q.task, model |-> z.model, items |-> z.items,
                option |-> q.option, damage |-> q.damage, cut |-> q.cut]
        /\ n = Len(q.items) /\ Len(q.items) \in Nat
    BY <1>2, ReadType
  <2> HIDE DEF z
  <2>2. z.task = q.task /\ z.channel = q.channel
    BY <2>1
  <2> QED
    BY <2>1, <2>2
<1>5. n < WordMod
  BY DEF Countable
<1>6. ~Skewed(z.model) => IF q.task = "embed" THEN rows \in Seq(ArrayRows) ELSE rows \in Seq(Words)
  <2> SUFFICES ASSUME ~Skewed(z.model)
               PROVE  IF q.task = "embed" THEN rows \in Seq(ArrayRows) ELSE rows \in Seq(Words)
    OBVIOUS
  <2>1. Taken(E, AsRequest(AsRead(q)))
    BY <1>1, <1>2
  <2>2. IF q.task = "embed" THEN Own(z) \in Seq(ArrayRows) ELSE Own(z) \in Seq(Words)
    BY <1>2, <2>1, OwnWords
  <2> QED
    BY <1>1, <2>2
<1>7. /\ Answerable(r) /\ r.task = h.task
      /\ h.task = "embed" => r.dim = Dim(h.model) /\ r.floats = FlattenSeq(rows)
      /\ h.task # "embed" => r.dim = 0 /\ r.floats = rows
  BY OkIsAnswered, ResponseAnswerable
<1> HIDE DEF z, r
<1>8. /\ h.model \in DOMAIN E /\ h.task \in TaskNames /\ Len(rows) = Len(z.items)
      /\ h.task = "embed" => /\ rows \in Seq(Seq(Nat)) /\ OfWidth(rows, Dim(h.model))
                             /\ E[h.model].dim = Dim(h.model)
  <2> DEFINE items == z.items
  <2>1. Returned(h.model, items, rows) /\ Taken(E, h)
    BY <1>1, <1>2, <1>3
  <2> HIDE DEF items, rows, h
  <2>2. /\ h.model \in DOMAIN E /\ h.task \in TaskNames /\ Len(rows) = Len(items)
        /\ h.task = "embed" => /\ rows \in Seq(Seq(Nat)) /\ OfWidth(rows, Dim(h.model))
                               /\ E[h.model].dim = Dim(h.model)
    BY <2>1, ReturnedRows
  <2> QED
    BY <2>2 DEF items
<1>9. d \in Nat /\ d < WordMod /\ d % WordMod = d
  BY DimWord
<1>10. r.task = "embed" => Len(r.floats) = n * d
  <2> SUFFICES ASSUME r.task = "embed" PROVE Len(r.floats) = n * d
    OBVIOUS
  <2> DEFINE T == Nat
  <2>1. rows \in Seq(Seq(T)) /\ OfWidth(rows, d) /\ r.floats = FlattenSeq(rows) /\ Len(rows) = n
    BY <1>3, <1>7, <1>8
  <2> HIDE DEF T, d, rows, n
  <2>2. \A ss \in Seq(Seq(T)) : OfWidth(ss, d) => Len(FlattenSeq(ss)) = Len(ss) * d
    BY <1>9, FlattenEqualLength
  <2> QED
    BY <2>1, <2>2
<1> QED
  BY <1>3, <1>4, <1>5, <1>6, <1>7, <1>8, <1>9, <1>10 DEF z, r

\* A row of the answer crosses the channel, and the column, unchanged.
LEMMA RowsReceived ==
    ASSUME NEW E, Registry(E), NEW s, HasReply(E, s), s.reply.status = "ok", Countable(AsRead(s.ask)),
           ~Skewed(AsRead(s.ask).model), Len(ResponseIn(E, s).floats) < WordMod
    PROVE  LET rows == RowsOf(Received(ResponseIn(E, s)), Len(s.ask.items))
           IN  rows = Own(AsRead(s.ask)) /\ Column(s.ask.task, rows) = Own(AsRead(s.ask))
<1> DEFINE q == s.ask
           z == AsRead(q)
           r == ResponseIn(E, s)
           v == Received(r)
           d == Dim(z.model)
           n == Len(q.items)
           rows == s.reply.rows
           got == RowsOf(v, n)
<1>1. rows = Own(z)
  BY OwnReturned
<1>2. /\ r.task = q.task /\ q.task \in TaskNames /\ n \in Nat /\ n < WordMod /\ Len(rows) = n
      /\ r.task = "embed" => /\ r.dim = d /\ d % WordMod = d /\ d \in Nat /\ d < WordMod
                             /\ r.floats = FlattenSeq(rows)
                             /\ rows \in Seq(Seq(Nat)) /\ OfWidth(rows, d)
      /\ r.task # "embed" => r.dim = 0 /\ r.floats = rows
      /\ IF r.task = "embed" THEN rows \in Seq(ArrayRows) ELSE rows \in Seq(Words)
  BY ReceivedShape
<1>3. Len(r.floats) < WordMod
  OBVIOUS
<1> HIDE DEF r, rows, d, z
<1>4. r.floats \in Seq(Words)
  <2>1. CASE r.task = "embed"
    <3>1. ArrayRows \subseteq Seq(Words)
      BY DEF ArrayRows
    <3>2. rows \in Seq(Seq(Words))
      <4> DEFINE U == Seq(Words)
      <4>1. ArrayRows \subseteq U /\ rows \in Seq(ArrayRows)
        BY <1>2, <2>1, <3>1
      <4> HIDE DEF U
      <4>2. rows \in Seq(U)
        BY <4>1, WiderSeq
      <4> QED
        BY <4>2 DEF U
    <3> QED
      BY <1>2, <2>1, <3>2, FlattenType
  <2>2. CASE r.task # "embed"
    BY <1>2, <2>2
  <2> QED
    BY <2>1, <2>2
<1>5. v.floats = r.floats /\ v.task = r.task /\ (r.task = "embed" => v.dim = d)
  <2> DEFINE f == r.floats
             m == r.dim % WordMod
             g == [i \in 1..(Len(f) % WordMod) |-> f[i] % WordMod]
  <2>1. f \in Seq(Words) /\ Len(f) < WordMod
    BY <1>3, <1>4
  <2>2. v = [task |-> r.task, dim |-> m, floats |-> g]
    BY DEF Received
  <2>3. r.task = "embed" => m = d
    BY <1>2
  <2> HIDE DEF f, m, v
  <2>4. Keeps(f)
    BY <2>1, WordsKept
  <2>5. g = f
    BY <2>4 DEF Keeps
  <2> HIDE DEF g
  <2> QED
    BY <2>2, <2>3, <2>5 DEF f
<1> HIDE DEF v
<1>6. got = rows
  <2>1. CASE r.task = "embed"
    <3>1. CutInto(rows, d)
      BY <1>2, <2>1, VectorsCut
    <3>2. [i \in 1..n |-> SubSeq(FlattenSeq(rows), (i - 1) * d + 1, i * d)] = rows
      BY <1>2, <3>1 DEF CutInto
    <3>3. v.dim = d /\ v.floats = FlattenSeq(rows)
      BY <1>2, <1>5, <2>1
    <3> QED
      BY <1>5, <2>1, <3>2, <3>3 DEF RowsOf
  <2>2. CASE r.task # "embed"
    BY <1>2, <1>5, <2>2 DEF RowsOf
  <2> QED
    BY <2>1, <2>2
<1> HIDE DEF got
<1>7. Column(q.task, rows) = rows
  <2>1. CASE q.task = "embed"
    <3>1. rows \in Seq(ArrayRows)
      BY <1>2, <2>1
    <3>2. ReadF32Arrays(FlattenSeq([i \in DOMAIN rows |-> WriteVector(rows[i])]), Len(rows)) = rows
      BY <3>1, ColumnOfArrays
    <3> QED
      BY <2>1, <3>2 DEF Column
  <2>2. CASE q.task # "embed"
    <3>1. rows \in Seq(Words)
      BY <1>2, <2>2
    <3>2. ReadF32Scalars(FlattenSeq([i \in DOMAIN rows |-> WriteScore(rows[i])]), Len(rows)) = rows
      BY <3>1, ColumnOfScores
    <3> QED
      BY <2>2, <3>2 DEF Column
  <2> QED
    BY <2>1, <2>2
<1> QED
  BY <1>1, <1>6, <1>7 DEF got, v, r, z

LEMMA ReceiveStep ==
    ASSUME NEW E, Registry(E), NEW s, NEW t, IsAnswering(E, s)
    PROVE  LET q == s.ask
               n == Len(q.items)
               v == DecodeResponse(SubSeq(s.wire, 3, WordAt(s.wire, 1) + 2))
               fits == WordAt(s.wire, 1) <= MaxFrame /\ Fits(v, q.task, n)
           IN  /\ /\ q.channel = "socket" /\ v \notin {Malformed, Error}
                  /\ Finishes(s, t, [ok |-> TRUE, rows |-> RowsOf(v, n)])
                  => IsDone(E, t)
               /\ /\ ~(q.channel = "socket" /\ v \notin {Malformed, Error}) /\ fits
                  /\ Finishes(s, t, [ok |-> TRUE, rows |-> Column(q.task, RowsOf(v, n))])
                  => IsDone(E, t)
               /\ /\ ~(q.channel = "socket" /\ v \notin {Malformed, Error}) /\ ~fits
                  /\ Finishes(s, t, Nothing)
                  => IsDone(E, t)
<1> DEFINE q == s.ask
           z == AsRead(q)
           n == Len(q.items)
           r == ResponseIn(E, s)
           v == DecodeResponse(SubSeq(s.wire, 3, WordAt(s.wire, 1) + 2))
           fits == WordAt(s.wire, 1) <= MaxFrame /\ Fits(v, q.task, n)
           straight == q.channel = "socket" /\ v \notin {Malformed, Error}
<1>1. /\ HasReply(E, s) /\ Asked(q) /\ s.reply # None /\ q.channel # "http"
  <2>1. HasReply(E, s) /\ s.reply \in Replies /\ Asked(q) /\ q.channel # "http"
    BY DEF IsAnswering, HasReply
  <2> QED
    BY <2>1, AnswersAreReplies
<1>2. /\ s.reply.status # "ok" => v \in {Malformed, Error}
      /\ s.reply.status = "ok" => v \in {Malformed, Received(r)}
      /\ s.reply.status = "ok" /\ Len(EncodeResponse(r)) <= MaxFrame =>
            v = Received(r) /\ WordAt(s.wire, 1) <= MaxFrame /\ Len(r.floats) < WordMod
  BY ReplyHeard
<1>3. q.task \in TaskNames /\ q.channel \in {"pipe", "socket"}
  BY <1>1, AskedType
<1>4. v \in {Malformed, Error} => ~Fits(v, q.task, n)
  <2>1. Error.task = "error" /\ q.task # "error"
    BY <1>3 DEF Error, TaskNames
  <2> QED
    BY <2>1 DEF Fits
<1> HIDE DEF v, r
\* The answer is the caller's own if it is ok, and it is ok if there was room.
<1>5. ASSUME NEW a, Finishes(s, t, a), Told(a), AnsweredOwn(z, a),
             s.reply.status # "ok" => ~a.ok,
             s.reply.status = "ok" /\ Room(E, s) => a.ok
      PROVE  IsDone(E, t)
  <2>1. /\ t.pc = "done" /\ t.ask = q /\ t.answer = a
        /\ t.heard = s.heard /\ t.reply = s.reply
    BY <1>5 DEF Finishes, Moves
  <2>2. HasReply(E, t)
    BY <1>1, <2>1, ReplyKept
  <2>3. Room(E, t) <=> Room(E, s)
    <3>1. ResponseIn(E, t) = ResponseIn(E, s)
      BY <2>1 DEF ResponseIn
    <3> QED
      BY <2>1, <3>1 DEF Room
  <2> QED
    BY <1>1, <1>5, <2>1, <2>2, <2>3 DEF IsDone
<1>6. ASSUME straight \/ fits PROVE s.reply.status = "ok" /\ v = Received(r)
  <2>1. v \notin {Malformed, Error}
    BY <1>4, <1>6
  <2> QED
    BY <1>2, <2>1
\* The two ways rows are taken.
<1>7. ASSUME straight \/ fits, Countable(z), CountableAnswer(z), ~Skewed(z.model)
      PROVE  RowsOf(v, n) = Own(z) /\ Column(q.task, RowsOf(v, n)) = Own(z)
  <2>1. s.reply.status = "ok" /\ v = Received(r)
    BY <1>6, <1>7
  <2>2. /\ r.task = q.task /\ n \in Nat /\ n < WordMod /\ Len(s.reply.rows) = n
        /\ z.task = q.task /\ z.channel = q.channel
        /\ r.task = "embed" => /\ r.dim = Dim(z.model) /\ Dim(z.model) % WordMod = Dim(z.model)
                               /\ Dim(z.model) \in Nat
                               /\ r.floats = FlattenSeq(s.reply.rows) /\ Len(r.floats) = n * Dim(z.model)
        /\ r.task # "embed" => r.floats = s.reply.rows
    BY <1>1, <1>7, <2>1, ReceivedShape DEF r
  <2>3. Len(r.floats) < WordMod
    <3>1. CASE r.task # "embed"
      BY <2>2, <3>1
    <3>2. CASE r.task = "embed" /\ q.channel = "socket"
      <4>1. s.reply.rows = Own(z)
        BY <1>1, <1>7, <2>1, OwnReturned
      <4>2. Len(FlattenSeq(Own(z))) < WordMod
        BY <1>7, <2>2, <3>2 DEF CountableAnswer
      <4> QED
        BY <2>2, <3>2, <4>1, <4>2
    <3>3. CASE r.task = "embed" /\ q.channel # "socket"
      <4>1. Fits(v, q.task, n)
        BY <1>7, <3>3
      <4>2. v.dim = r.dim % WordMod /\ v.task = r.task
            /\ v.floats = [i \in 1..(Len(r.floats) % WordMod) |-> r.floats[i] % WordMod]
        BY <2>1 DEF Received
      <4>3. Len(v.floats) = n * Dim(z.model)
        <5>1. v.dim = Dim(z.model)
          BY <2>2, <3>3, <4>2
        <5>2. Len(v.floats) = n * v.dim
          BY <2>2, <3>3, <4>1 DEF Fits
        <5> QED
          BY <5>1, <5>2
      <4> DEFINE l == Len(r.floats)
                 k == l % WordMod
                 f == [i \in 1..k |-> r.floats[i] % WordMod]
      <4>4. l \in Nat /\ l = n * Dim(z.model) /\ WordMod \in Nat /\ WordMod > 0
        <5>1. n * Dim(z.model) \in Nat
          BY <2>2, <3>3
        <5> QED
          BY <2>2, <3>3, <5>1, UnitsAreNumbers
      <4>5. Len(f) = l
        BY <4>2, <4>3, <4>4
      <4> HIDE DEF l
      <4>6. k \in Nat /\ k < WordMod
        BY <4>4, ModSmall
      <4>7. Len(f) = k
        <5> DEFINE V == {r.floats[i] % WordMod : i \in 1..k}
        <5>1. f = [i \in 1..k |-> f[i]] /\ \A i \in 1..k : f[i] \in V
          OBVIOUS
        <5> HIDE DEF V, f, k
        <5> QED
          BY <4>6, <5>1, TypeOfSeq
      <4> QED
        BY <4>5, <4>6, <4>7 DEF l
    <3> QED
      BY <3>1, <3>2, <3>3
  <2>4. /\ RowsOf(Received(r), n) = Own(z)
        /\ Column(q.task, RowsOf(Received(r), n)) = Own(z)
    BY <1>1, <1>7, <2>1, <2>3, RowsReceived DEF r
  <2> QED
    BY <2>1, <2>4
<1>8. z.channel = q.channel
  <2>1. z = [channel |-> q.channel, task |-> q.task, model |-> z.model, items |-> z.items,
              option |-> q.option, damage |-> q.damage, cut |-> q.cut]
    BY <1>1, ReadType
  <2> HIDE DEF z
  <2> QED
    BY <2>1
<1>9. ASSUME straight, Finishes(s, t, [ok |-> TRUE, rows |-> RowsOf(v, n)]) PROVE IsDone(E, t)
  <2> DEFINE rows == RowsOf(v, n)
             a == [ok |-> TRUE, rows |-> rows]
  <2>1. a.ok = TRUE /\ a.rows = rows /\ Finishes(s, t, a)
    BY <1>9
  <2>2. AnsweredOwn(z, a)
    <3>1. Countable(z) /\ CountableAnswer(z) /\ ~Skewed(z.model) => rows = Own(z)
      BY <1>7, <1>9
    <3> HIDE DEF a, rows
    <3> QED
      BY <1>1, <1>8, <2>1, <3>1 DEF AnsweredOwn
  <2> HIDE DEF a, rows
  <2> QED
    BY <1>5, <1>6, <1>9, <2>1, <2>2 DEF Told
<1>10. ASSUME fits, Finishes(s, t, [ok |-> TRUE, rows |-> Column(q.task, RowsOf(v, n))]) PROVE IsDone(E, t)
  <2> DEFINE rows == Column(q.task, RowsOf(v, n))
             a == [ok |-> TRUE, rows |-> rows]
  <2>1. a.ok = TRUE /\ a.rows = rows /\ Finishes(s, t, a)
    BY <1>10
  <2>2. AnsweredOwn(z, a)
    <3>1. Countable(z) /\ CountableAnswer(z) /\ ~Skewed(z.model) => rows = Own(z)
      BY <1>7, <1>10
    <3> HIDE DEF a, rows
    <3> QED
      BY <1>1, <1>8, <2>1, <3>1 DEF AnsweredOwn
  <2> HIDE DEF a, rows
  <2> QED
    BY <1>5, <1>6, <1>10, <2>1, <2>2 DEF Told
<1>11. ASSUME ~straight, ~fits, Finishes(s, t, Nothing) PROVE IsDone(E, t)
  <2>1. ~(s.reply.status = "ok" /\ Room(E, s))
    <3> SUFFICES ASSUME s.reply.status = "ok", Room(E, s) PROVE FALSE
      OBVIOUS
    <3>1. /\ Plain(z) /\ Len(EncodeResponse(r)) <= MaxFrame
          /\ z.task = "embed" /\ z.model \in DOMAIN E => E[z.model].dim # 0
      BY <1>1 DEF Room, r
    <3>2. Countable(z)
      BY <3>1 DEF Plain
    <3>3. v = Received(r) /\ WordAt(s.wire, 1) <= MaxFrame /\ Len(r.floats) < WordMod
      BY <1>2, <3>1
    <3>4. /\ r.task = q.task /\ n \in Nat /\ n < WordMod /\ Len(s.reply.rows) = n
          /\ z.task = q.task /\ z.model \in DOMAIN E
          /\ r.task = "embed" => /\ r.dim = Dim(z.model) /\ Dim(z.model) % WordMod = Dim(z.model)
                                 /\ Len(r.floats) = n * Dim(z.model) /\ E[z.model].dim = Dim(z.model)
          /\ r.task # "embed" => r.floats = s.reply.rows
          /\ Answerable(r)
      BY <1>1, <3>2, ReceivedShape DEF r
    <3>5. v # Malformed /\ v # Error /\ v.task = q.task
      BY <3>3, <3>4, ReceivedIsAnswer
    <3>6. v.dim = r.dim % WordMod /\ Len(v.floats) = Len(r.floats)
      <4> DEFINE l == Len(r.floats)
                 k == l % WordMod
                 f == [i \in 1..k |-> r.floats[i] % WordMod]
      <4>1. v.dim = r.dim % WordMod /\ v.floats = f
        BY <3>3 DEF Received
      <4>2. l \in Nat /\ l < WordMod /\ WordMod \in Nat /\ WordMod > 0
        <5>1. r.floats \in Seq(Nat)
          BY <3>4 DEF Answerable
        <5>2. l \in Nat
          BY <5>1
        <5> QED
          BY <3>3, <5>2, UnitsAreNumbers
      <4>3. k = l
        <5> HIDE DEF l
        <5> QED
          BY <4>2, ModSmall
      <4>4. Len(f) = k
        <5> DEFINE V == {r.floats[i] % WordMod : i \in 1..k}
        <5>1. f = [i \in 1..k |-> f[i]] /\ \A i \in 1..k : f[i] \in V
          OBVIOUS
        <5>2. k \in Nat
          BY <4>2, <4>3
        <5> HIDE DEF V, f, k
        <5> QED
          BY <5>1, <5>2, TypeOfSeq
      <4> QED
        BY <4>1, <4>3, <4>4
    <3>7. Fits(v, q.task, n)
      <4>1. CASE q.task = "embed"
        <5>1. v.dim = Dim(z.model) /\ Dim(z.model) # 0 /\ Len(v.floats) = n * Dim(z.model)
          BY <3>1, <3>4, <3>6, <4>1
        <5> QED
          BY <3>5, <4>1, <5>1 DEF Fits
      <4>2. CASE q.task # "embed"
        BY <3>4, <3>5, <3>6, <4>2 DEF Fits
      <4> QED
        BY <4>1, <4>2
    <3> QED
      BY <1>11, <3>3, <3>7
  <2> QED
    BY <1>5, <1>11, <2>1, NothingIsOwn
<1> QED
  BY <1>9, <1>10, <1>11 DEF v

-----------------------------------------------------------------------------
\* The steps of one caller: s is what the variables hold of it before, t after.

LEMMA ViewOf ==
    ASSUME NEW x
    PROVE  /\ View(x).pc = Phase(x) /\ View(x).ask = x.ask /\ View(x).wire = Bytes(x)
           /\ View(x).heard = x.heard /\ View(x).reply = x.reply /\ View(x).answer = x.answer
BY DEF View

\* A caller's phase says which part of the invariant holds of it.
LEMMA PhaseOf ==
    ASSUME NEW E, NEW s, Good(E, s)
    PROVE  /\ s.pc = "posted" => IsPosted(s)
           /\ s.pc = "written" => IsWritten(s)
           /\ s.pc = "sent" => IsSent(s)
           /\ s.pc = "shut" => IsShut(s)
           /\ s.pc = "queued" => IsQueued(E, s)
           /\ s.pc = "replied" => IsReplied(E, s)
           /\ s.pc = "answering" => IsAnswering(E, s)
           /\ s.pc = "done" => IsDone(E, s)
<1>1. /\ IsPosted(s) => s.pc = "posted"
      /\ IsWritten(s) => s.pc = "written"
      /\ IsSent(s) => s.pc = "sent"
      /\ IsShut(s) => s.pc = "shut"
  BY DEF IsPosted, IsWritten, IsSent, IsShut
<1>2. /\ IsQueued(E, s) => s.pc = "queued"
      /\ IsReplied(E, s) => s.pc = "replied"
      /\ IsAnswering(E, s) => s.pc = "answering"
      /\ IsDone(E, s) => s.pc = "done"
  BY DEF IsQueued, IsReplied, IsAnswering, IsDone
<1> QED
  BY <1>1, <1>2 DEF Good

LEMMA AskStep ==
    ASSUME NEW t, NEW q, Asked(q), t.ask = q, Untold(t)
    PROVE  /\ q.channel \in {"http", "pipe", "socket"}
           /\ q.channel = "http" /\ t.pc = "posted" /\ t.wire = <<>> => IsPosted(t)
           /\ q.channel = "pipe" /\ t.pc = "written" /\ t.wire = Written(q) => IsWritten(t)
           /\ q.channel = "socket" /\ t.pc = "sent" /\ t.wire = Sent(q) => IsSent(t)
<1>1. q.channel \in {"http", "pipe", "socket"}
  BY AskedType
<1>2. q.channel = "http" /\ t.pc = "posted" /\ t.wire = <<>> => IsPosted(t)
  BY DEF IsPosted
<1>3. q.channel = "pipe" /\ t.pc = "written" /\ t.wire = Written(q) => IsWritten(t)
  BY DEF IsWritten
<1>4. ASSUME q.channel = "socket", t.pc = "sent", t.wire = Sent(q) PROVE IsSent(t)
  <2>1. Sent(q) \in Seq(Units) /\ Len(Sent(q)) >= 2
    BY <1>4, SentShape
  <2>2. OnWire(t)
    BY <1>4, <2>1 DEF OnWire
  <2> QED
    BY <1>4, <2>2 DEF IsSent
<1> QED
  BY <1>1, <1>2, <1>3, <1>4

LEMMA NotOverHttp ==
    ASSUME NEW q, Asked(q), q.channel = "http"
    PROVE  AsRead(q) = q /\ ~Overruns(AsRead(q))
BY DEF AsRead, Overruns

\* Only a request without a connection of its own, or one longer than its
\* prefix says, is out of step.
LEMMA LockedIn ==
    ASSUME NEW E, NEW s, Holds(E, s), Vouched(s), ~Astray(s)
    PROVE  /\ Lock(E, s) /\ Good(E, View(s)) /\ Asked(s.ask) /\ s.pc \in {"written", "asked", "done"}
           /\ s.pc = "done" \/ s.back # <<>> => ~Overruns(AsRead(s.ask))
BY DEF Holds, Lock, Vouched, Astray, Placed, Typed

LEMMA StrayIn ==
    ASSUME NEW E, NEW s, Holds(E, s), Vouched(s), Astray(s)
    PROVE  Stray(s) /\ Overruns(AsRead(s.ask)) /\ s.pc \in {"asked", "done"}
BY DEF Holds, Vouched, Astray, Typed, Stray

LEMMA DoneHolds ==
    ASSUME NEW E, NEW t, t.pc = "done", IsDone(E, View(t)), t.stage \in {"reading", "closed"},
           ~Overruns(AsRead(t.ask)) => t.wire = <<>>
    PROVE  IF Astray(t) THEN Stray(t) ELSE Lock(E, t)
<1>1. Good(E, View(t)) /\ AnsweredOwn(AsRead(t.ask), t.answer)
  BY ViewOf DEF IsDone, Good
<1>2. CASE Overruns(AsRead(t.ask))
  BY <1>1, <1>2 DEF Astray, Stray
<1>3. CASE ~Overruns(AsRead(t.ask))
  BY <1>1, <1>3 DEF Astray, Lock
<1> QED
  BY <1>2, <1>3

\* A request that goes out on a connection with nothing left on it.
LEMMA ConnectHolds ==
    ASSUME NEW E, NEW q, Asked(q), NEW t,
           t.pc = IF q.channel = "pipe" THEN "written" ELSE "asked",
           t.stage = Opened(q), t.ask = q, t.wire = Out(q), t.back = <<>>, t.apart = FALSE,
           t.heard = None, t.reply = None, t.answer = None
    PROVE  Holds(E, t)
<1>1. q.channel \in {"http", "pipe", "socket"}
  BY AskedType
<1>2. /\ q.channel = "http" => t.pc = "asked" /\ t.stage = "posted" /\ t.wire = <<>>
      /\ q.channel = "pipe" => t.pc = "written" /\ t.stage = "reading" /\ t.wire = <<>>
      /\ q.channel = "socket" => t.pc = "asked" /\ t.stage = "reading" /\ t.wire = Sent(q)
  BY <1>1 DEF Opened, Out
<1>3. t.wire \in Seq(Units) /\ t.back \in Seq(Units)
  <2>1. <<>> \in Seq(Units)
    OBVIOUS
  <2>2. q.channel = "socket" => Sent(q) \in Seq(Units)
    BY SentShape
  <2> QED
    BY <1>1, <1>2, <2>1, <2>2
<1>4. Typed(t)
  BY <1>1, <1>2, <1>3 DEF Typed
<1>5. Placed(t) /\ Served(E, t)
  BY <1>1, <1>2 DEF Placed, Served
<1>6. Good(E, View(t))
  <2> DEFINE v == View(t)
  <2>1. v.ask = q /\ Untold(v) /\ v.pc = Phase(t) /\ v.wire = Bytes(t)
    BY ViewOf DEF Untold
  <2>2. /\ q.channel = "http" => Phase(t) = "posted" /\ Bytes(t) = <<>>
        /\ q.channel = "pipe" => Phase(t) = "written" /\ Bytes(t) = Written(q)
        /\ q.channel = "socket" => Phase(t) = "sent" /\ Bytes(t) = Sent(q)
    BY <1>2 DEF Phase, Bytes
  <2> HIDE DEF v
  <2>3. IsPosted(v) \/ IsWritten(v) \/ IsSent(v)
    BY <1>1, <2>1, <2>2, AskStep
  <2> QED
    BY <2>3 DEF Good, v
<1>7. ~Astray(t) /\ Lock(E, t)
  BY <1>1, <1>2, <1>6 DEF Astray, Lock
<1> QED
  BY <1>4, <1>5, <1>7 DEF Holds

\* One that goes out behind something left over.
LEMMA BehindHolds ==
    ASSUME NEW E, NEW s, Holds(E, s), NEW q, Asked(q), NEW t,
           s.pc = "done", s.stage # "closed", q.channel # "http", s.ask.channel = q.channel,
           t.pc = IF q.channel = "pipe" THEN "written" ELSE "asked",
           t.stage = s.stage, t.ask = q, t.wire = s.wire \o Out(q), t.back = s.back, t.apart = TRUE,
           t.heard = s.heard, t.reply = s.reply, t.answer = None
    PROVE  Holds(E, t)
<1>1. Typed(s) /\ Placed(s) /\ Served(E, s)
  BY DEF Holds
<1>2. q.channel \in {"pipe", "socket"}
  BY AskedType
<1>3. Out(q) \in Seq(Units)
  <2>1. <<>> \in Seq(Units)
    OBVIOUS
  <2>2. q.channel = "socket" => Sent(q) \in Seq(Units)
    BY SentShape
  <2> QED
    BY <1>2, <2>1, <2>2 DEF Out
<1>4. t.wire \in Seq(Units)
  BY <1>1, <1>3 DEF Typed
<1>5. Typed(t)
  BY <1>1, <1>2, <1>4 DEF Typed
<1>6. Placed(t)
  BY <1>1, <1>2 DEF Placed
<1>7. Served(E, t)
  BY <1>1 DEF Served
<1> QED
  BY <1>5, <1>6, <1>7 DEF Holds, Vouched

LEMMA FrameOfType ==
    ASSUME NEW q, Asked(q), q.channel = "pipe", Framable(q)
    PROVE  FrameOf(q) \in Seq(Units)
<1> DEFINE z == Regrouped(q, BlockRows(q))
           p == EncodeRequest(AsRequest(z))
<1>1. Soft(AsRequest(z))
  BY RegroupedType DEF Framable, BlockRows
<1>2. p \in Seq(Units)
  BY <1>1, RequestType
<1>3. FrameOf(q) = Frame(p)
  BY DEF FrameOf
<1> HIDE DEF p
<1> QED
  BY <1>2, <1>3, FrameWhole

\* The bridge's frame, behind nothing.
LEMMA FrameHolds ==
    ASSUME NEW E, NEW t, Asked(t.ask), t.ask.channel = "pipe", Framable(t.ask),
           t.pc = "asked", t.stage = "reading", t.wire = FrameOf(t.ask), t.back = <<>>,
           t.heard = None, t.reply = None, t.answer = None
    PROVE  ~Astray(t) /\ Lock(E, t)
<1>1. Phase(t) = "sent" /\ Bytes(t) = t.wire
  BY DEF Phase, Bytes
<1>2. Untold(View(t)) /\ View(t).pc = "sent" /\ View(t).ask = t.ask /\ View(t).wire = FrameOf(t.ask)
  BY <1>1, ViewOf DEF Untold
<1>3. IsSent(View(t))
  BY <1>2, FramedSent
<1> QED
  BY <1>3 DEF Good, Lock, Astray

LEMMA ReadHolds ==
    ASSUME NEW E, NEW s, Holds(E, s), NEW t, s.pc = "written",
           t.stage = s.stage, t.ask = s.ask, t.back = s.back, t.apart = s.apart,
           t.heard = s.heard, t.reply = s.reply,
           LET rows == BlockRows(s.ask)
               ends == t.pc = "done" /\ t.wire = s.wire
           IN  \/ rows = Malformed /\ ends /\ t.answer = Nothing
               \/ rows = <<>> /\ ends /\ t.answer = [ok |-> TRUE, rows |-> <<>>]
               \/ /\ rows \notin {Malformed, <<>>} /\ Ragged(Regrouped(s.ask, rows))
                  /\ ends /\ t.answer = Nothing
               \/ /\ Framable(s.ask) /\ t.pc = "asked" /\ t.wire = s.wire \o FrameOf(s.ask)
                  /\ t.answer = s.answer
    PROVE  Holds(E, t)
<1> DEFINE q == s.ask
           rows == BlockRows(q)
           ends == t.pc = "done" /\ t.wire = s.wire
<1>1. Typed(s) /\ Placed(s) /\ Served(E, s)
  BY DEF Holds
<1>2. Asked(q) /\ q.channel = "pipe"
  BY <1>1 DEF Placed
<1>3. \/ rows = Malformed /\ ends /\ t.answer = Nothing
      \/ rows = <<>> /\ ends /\ t.answer = [ok |-> TRUE, rows |-> <<>>]
      \/ rows \notin {Malformed, <<>>} /\ Ragged(Regrouped(q, rows)) /\ ends /\ t.answer = Nothing
      \/ Framable(q) /\ t.pc = "asked" /\ t.wire = s.wire \o FrameOf(q) /\ t.answer = s.answer
  OBVIOUS
<1> HIDE DEF rows
<1>4. ends \/ (Framable(q) /\ t.pc = "asked" /\ t.wire = s.wire \o FrameOf(q) /\ t.answer = s.answer)
  BY <1>3
<1>5. Typed(t)
  <2>1. ends => Told(t.answer)
    <3>1. Told(Nothing) /\ Told([ok |-> TRUE, rows |-> <<>>])
      BY NothingIsOwn DEF Told
    <3>2. ends => t.pc # "asked"
      OBVIOUS
    <3> HIDE DEF ends
    <3>3. ends => t.answer = Nothing \/ t.answer = [ok |-> TRUE, rows |-> <<>>]
      BY <1>3, <3>2
    <3> QED
      BY <3>1, <3>3
  <2>2. Framable(q) => s.wire \o FrameOf(q) \in Seq(Units)
    <3> SUFFICES ASSUME Framable(q) PROVE s.wire \o FrameOf(q) \in Seq(Units)
      OBVIOUS
    <3>1. FrameOf(q) \in Seq(Units) /\ s.wire \in Seq(Units)
      BY <1>1, <1>2, FrameOfType DEF Typed
    <3> QED
      BY <3>1
  <2> QED
    BY <1>1, <1>4, <2>1, <2>2 DEF Typed
<1>6. Placed(t) /\ Served(E, t)
  BY <1>1, <1>2, <1>4 DEF Placed, Served
<1>7. ASSUME Vouched(t) PROVE IF Astray(t) THEN Stray(t) ELSE Lock(E, t)
  <2>1. Vouched(s) /\ ~Astray(s)
    BY <1>7, StrayIn DEF Vouched
  <2>2. s.stage = "reading" /\ s.wire = <<>> /\ s.back = <<>> /\ Good(E, View(s))
    BY <2>1, LockedIn DEF Lock
  <2>3. Phase(s) = "written"
    BY DEF Phase
  <2>4. IsWritten(View(s))
    BY <2>2, <2>3, PhaseOf, ViewOf
  <2>5. Untold(View(s))
    BY <2>4 DEF IsWritten
  <2>6. CASE ends
    <3>1. Phase(t) = "done"
      BY <2>6 DEF Phase
    <3>2. Finishes(View(s), View(t), t.answer)
      BY <3>1, ViewOf DEF Finishes, Moves
    <3>3. IsDone(E, View(t))
      <4>1. View(s).ask = q
        BY ViewOf
      <4> DEFINE u == View(s)
                 v == View(t)
      <4>2. IsWritten(u) /\ u.ask = q /\ Finishes(u, v, t.answer)
        BY <2>4, <3>2, <4>1
      <4> HIDE DEF u, v
      <4>3. /\ rows = Malformed /\ Finishes(u, v, Nothing) => IsDone(E, v)
            /\ rows = <<>> /\ Finishes(u, v, [ok |-> TRUE, rows |-> <<>>]) => IsDone(E, v)
            /\ rows \notin {Malformed, <<>>} /\ Ragged(Regrouped(q, rows)) /\ Finishes(u, v, Nothing)
               => IsDone(E, v)
        BY <4>2, ReadStep DEF rows
      <4>4. IsDone(E, v)
        BY <1>3, <2>6, <4>2, <4>3
      <4> QED
        BY <4>4 DEF v
    <3> QED
      BY <2>2, <2>6, <3>3, DoneHolds
  <2>7. CASE Framable(q) /\ t.pc = "asked" /\ t.wire = s.wire \o FrameOf(q) /\ t.answer = s.answer
    <3>1. t.wire = FrameOf(q)
      <4>1. FrameOf(q) \in Seq(Units)
        BY <1>2, <2>7, FrameOfType
      <4> QED
        BY <2>2, <2>7, <4>1
    <3>2. t.heard = None /\ t.reply = None /\ t.answer = None
      BY <2>5, <2>7, ViewOf DEF Untold
    <3> QED
      BY <1>2, <2>2, <2>7, <3>1, <3>2, FrameHolds
  <2> QED
    BY <1>4, <2>6, <2>7
<1> QED
  BY <1>5, <1>6, <1>7 DEF Holds

LEMMA ResendHolds ==
    ASSUME NEW E, NEW s, Holds(E, s), NEW t, s.pc = "asked", s.ask.channel = "pipe",
           t.pc = s.pc, t.stage = "reading", t.ask = s.ask, t.wire = FrameOf(s.ask), t.back = <<>>,
           t.apart = FALSE, t.heard = None, t.reply = None, t.answer = s.answer
    PROVE  Holds(E, t)
<1>1. Typed(s) /\ Placed(s)
  BY DEF Holds
<1>2. Asked(s.ask) /\ Framable(s.ask) /\ t.answer = None
  BY <1>1 DEF Placed, Typed
<1>3. t.wire \in Seq(Units) /\ t.back \in Seq(Units)
  BY <1>2, FrameOfType
<1>4. Typed(t)
  BY <1>2, <1>3 DEF Typed
<1>5. Placed(t) /\ Served(E, t)
  BY <1>2 DEF Placed, Served
<1>6. ~Astray(t) /\ Lock(E, t)
  BY <1>2, FrameHolds
<1> QED
  BY <1>4, <1>5, <1>6 DEF Holds

\* A caller that gives up is told nothing, which is true of anything.
LEMMA GiveUpHolds ==
    ASSUME NEW E, Registry(E), NEW s, Holds(E, s), NEW t, s.pc = "asked",
           s.stage = "closed" \/ (s.stage = "reading" /\ ~FrameIn(s.wire)), ~FrameIn(s.back),
           t.pc = "done", t.stage = "closed", t.ask = s.ask, t.wire = <<>>, t.back = s.back,
           t.apart = s.apart, t.heard = s.heard, t.reply = s.reply, t.answer = Nothing
    PROVE  Holds(E, t)
<1>1. Typed(s) /\ Placed(s) /\ Served(E, s)
  BY DEF Holds
<1>2. Told(Nothing) /\ AnsweredOwn(AsRead(s.ask), Nothing)
  BY NothingIsOwn
<1>3. <<>> \in Seq(Units)
  OBVIOUS
<1>4. Typed(t)
  BY <1>1, <1>2, <1>3 DEF Typed
<1>5. Placed(t) /\ Served(E, t)
  BY <1>1 DEF Placed, Served
<1>6. ASSUME Vouched(t) PROVE IF Astray(t) THEN Stray(t) ELSE Lock(E, t)
  <2>1. CASE Overruns(AsRead(s.ask))
    BY <1>2, <2>1 DEF Astray, Stray
  <2>2. CASE ~Overruns(AsRead(s.ask))
    <3>1. Vouched(s) /\ ~Astray(s)
      BY <1>6, <2>2 DEF Vouched, Astray
    <3>2. Good(E, View(s))
      BY <3>1, LockedIn
    <3> DEFINE u == View(s)
               v == View(t)
    <3>3. Finishes(u, v, Nothing) /\ u.pc = Phase(s) /\ u.wire = Bytes(s)
      <4>1. Phase(t) = "done"
        BY DEF Phase
      <4> QED
        BY <4>1, ViewOf DEF Finishes, Moves
    <3>4. CASE s.stage = "closed"
      <4>1. Phase(s) = "shut"
        BY <3>4 DEF Phase
      <4> HIDE DEF u, v
      <4>2. IsDone(E, v)
        BY <3>2, <3>3, <4>1, PhaseOf, ShutStep DEF u
      <4> QED
        BY <4>2, DoneHolds DEF v
    <3>5. CASE s.stage = "reading" /\ s.back = <<>>
      <4>1. Phase(s) = "sent" /\ Bytes(s) = s.wire
        BY <3>5 DEF Phase, Bytes
      <4> HIDE DEF u, v
      <4>2. IsSent(u) /\ ~FrameIn(u.wire)
        BY <3>2, <3>3, <3>5, <4>1, PhaseOf DEF u
      <4>3. IsDone(E, v)
        BY <3>3, <4>2, HandleStep
      <4> QED
        BY <4>3, DoneHolds DEF v
    <3>6. CASE s.stage = "reading" /\ s.back # <<>>
      <4>1. Phase(s) = "answering" /\ Bytes(s) = s.back
        BY <3>6 DEF Phase, Bytes
      <4>2. IsAnswering(E, u)
        BY <3>2, <3>3, <4>1, PhaseOf
      <4> DEFINE p == EncodeResponse(ResponseIn(E, u))
      <4>3. s.back = Frame(p) /\ u.reply \in Replies
        BY <3>3, <4>1, <4>2 DEF IsAnswering, HasReply
      <4>4. p \in Seq(Units)
        <5>1. Sincere(E, u.heard, u.reply)
          BY <1>1, <4>3, ViewOf, AnswersAreReplies DEF Served
        <5> HIDE DEF u
        <5> QED
          BY <5>1, ResponseBytes
      <4> HIDE DEF p
      <4>5. FrameIn(s.back)
        BY <4>3, <4>4, FrameWhole
      <4> QED
        BY <4>5
    <3> QED
      BY <3>4, <3>5, <3>6
  <2> QED
    BY <2>1, <2>2
<1> QED
  BY <1>4, <1>5, <1>6 DEF Holds

\* What the others get does not disturb a caller that is out of step.
LEMMA StrayKept ==
    ASSUME NEW s, NEW t, Astray(s), Stray(s),
           t.pc = s.pc, t.ask = s.ask, t.back = s.back, t.answer = s.answer
    PROVE  Astray(t) /\ Stray(t)
BY DEF Astray, Stray

\* A frame the daemon can read is the request of a caller in step with it.
LEMMA ReadingSent ==
    ASSUME NEW E, NEW s, Holds(E, s), Vouched(s), ~Astray(s), s.stage = "reading", s.wire # <<>>
    PROVE  s.pc = "asked" /\ s.back = <<>> /\ Lock(E, s) /\ IsSent(View(s)) /\ View(s).wire = s.wire
<1>1. /\ Lock(E, s) /\ Good(E, View(s)) /\ s.pc \in {"written", "asked", "done"}
      /\ s.pc = "done" \/ s.back # <<>> => ~Overruns(AsRead(s.ask))
  BY LockedIn
<1>2. s.pc = "asked" /\ s.back = <<>>
  BY <1>1 DEF Lock
<1>3. Phase(s) = "sent" /\ Bytes(s) = s.wire
  BY <1>2 DEF Phase, Bytes
<1> QED
  BY <1>1, <1>2, <1>3, PhaseOf, ViewOf

\* A caller in step, of a request that is being served, waits for it.
LEMMA ServedAsked ==
    ASSUME NEW E, NEW s, Holds(E, s), Vouched(s), ~Astray(s), s.stage \in {"posted", "queued", "replied"}
    PROVE  /\ s.pc = "asked" /\ s.back = <<>> /\ Lock(E, s) /\ Good(E, View(s)) /\ Phase(s) = s.stage
           /\ s.stage # "posted" /\ ~Overruns(AsRead(s.ask)) => s.wire = <<>>
<1>1. Lock(E, s) /\ Good(E, View(s)) /\ s.pc \in {"written", "asked", "done"}
  BY LockedIn
<1>2. s.pc = "asked" /\ s.back = <<>>
  BY <1>1 DEF Lock
<1>3. Phase(s) = s.stage
  BY <1>2 DEF Phase
<1> QED
  BY <1>1, <1>2, <1>3 DEF Lock

LEMMA ShutHolds ==
    ASSUME NEW E, Registry(E), NEW s, Holds(E, s), NEW t, s.stage = "reading", TooLong(s.wire),
           t.pc = s.pc, t.stage = "closed", t.ask = s.ask, t.wire = <<>>, t.back = s.back,
           t.apart = s.apart, t.heard = s.heard, t.reply = s.reply, t.answer = s.answer
    PROVE  Holds(E, t)
<1>1. Typed(s) /\ Placed(s) /\ Served(E, s)
  BY DEF Holds
<1>2. s.pc # "idle" /\ s.ask.channel # "http"
  BY <1>1 DEF Placed
<1>3. <<>> \in Seq(Units)
  OBVIOUS
<1>4. Typed(t)
  BY <1>1, <1>3 DEF Typed
<1>5. Placed(t) /\ Served(E, t)
  BY <1>1, <1>2 DEF Placed, Served
<1>6. ASSUME Vouched(t) PROVE IF Astray(t) THEN Stray(t) ELSE Lock(E, t)
  <2>1. Vouched(s)
    BY <1>6 DEF Vouched
  <2>2. CASE Astray(s)
    BY <1>1, <2>1, <2>2, StrayIn, StrayKept DEF Holds
  <2>3. CASE ~Astray(s)
    <3>1. s.wire # <<>>
      <4>1. Len(s.wire) >= 2
        BY DEF TooLong
      <4> QED
        BY <4>1
    <3>2. s.pc = "asked" /\ s.back = <<>> /\ IsSent(View(s)) /\ View(s).wire = s.wire
      BY <2>1, <2>3, <3>1, ReadingSent
    <3>3. Phase(t) = "shut"
      BY <3>2 DEF Phase
    <3> DEFINE u == View(s)
               v == View(t)
    <3>4. IsSent(u) /\ TooLong(u.wire) /\ Moves(u, v, "shut") /\ Untold(v)
      BY <3>2, <3>3, ViewOf DEF Moves, IsSent, Untold
    <3> HIDE DEF u, v
    <3>5. IsShut(v)
      BY <3>4, HandleStep
    <3>6. Good(E, v)
      BY <3>5 DEF Good
    <3> QED
      BY <3>2, <3>6 DEF Astray, Lock, v
  <2> QED
    BY <2>2, <2>3
<1> QED
  BY <1>4, <1>5, <1>6 DEF Holds

\* One turn of the loop takes one frame and leaves what is behind it.
LEMMA ProcessHolds ==
    ASSUME NEW E, Registry(E), NEW s, Holds(E, s), NEW t, s.stage = "reading", FrameIn(s.wire),
           t.pc = s.pc, t.ask = s.ask, t.wire = Rest(s.wire), t.back = s.back, t.apart = s.apart,
           t.heard = DecodeRequest(Payload(s.wire)), t.answer = s.answer,
           \/ ~AdmittedIn(E, t.heard) /\ t.stage = "replied" /\ t.reply = Refused
           \/ AdmittedIn(E, t.heard) /\ t.heard.items = <<>> /\ t.stage = "replied" /\ t.reply = Ok(<<>>)
           \/ AdmittedIn(E, t.heard) /\ t.heard.items # <<>> /\ t.stage = "queued" /\ t.reply = None
    PROVE  Holds(E, t)
<1> DEFINE h == t.heard
<1>1. Typed(s) /\ Placed(s) /\ Served(E, s)
  BY DEF Holds
<1>2. s.pc # "idle" /\ s.ask.channel # "http"
  BY <1>1 DEF Placed
<1>3. s.wire \in Seq(Units) /\ Payload(s.wire) \in Seq(Units) /\ Rest(s.wire) \in Seq(Units)
  BY <1>1, FrameParts DEF Typed
<1>4. Typed(t)
  BY <1>1, <1>3 DEF Typed
<1>5. AdmittedIn(E, h) => Taken(E, h)
  <2> SUFFICES ASSUME AdmittedIn(E, h) PROVE Taken(E, h)
    OBVIOUS
  <2>1. DecodeRequest(Payload(s.wire)) # Malformed
    BY DEF AdmittedIn
  <2> QED
    BY <1>3, <2>1, DecodesWhole DEF Taken
<1>6. Placed(t)
  BY <1>1, <1>2 DEF Placed
<1>7. Served(E, t)
  <2>1. Sincere(E, h, Refused) /\ Refused # None /\ Ok(<<>>) # None
    <3>1. <<>> \in Seq(Nat) \cup Seq(Seq(Nat))
      OBVIOUS
    <3>2. Refused \in Replies /\ Ok(<<>>) \in Replies /\ None \notin Replies
      BY <3>1, AnswersAreReplies
    <3> QED
      BY <3>2, SincereReplies
  <2>2. AdmittedIn(E, h) /\ h.items = <<>> => Sincere(E, h, Ok(<<>>))
    BY <1>5, NothingReturned, SincereReplies
  <2> QED
    BY <1>5, <2>1, <2>2 DEF Served
<1>8. ASSUME Vouched(t) PROVE IF Astray(t) THEN Stray(t) ELSE Lock(E, t)
  <2>1. Vouched(s)
    BY <1>8 DEF Vouched
  <2>2. CASE Astray(s)
    BY <1>1, <2>1, <2>2, StrayIn, StrayKept DEF Holds
  <2>3. CASE ~Astray(s)
    <3>1. s.wire # <<>>
      <4>1. Len(s.wire) >= 2
        BY DEF FrameIn
      <4> QED
        BY <4>1
    <3>2. s.pc = "asked" /\ s.back = <<>> /\ IsSent(View(s)) /\ View(s).wire = s.wire
      BY <2>1, <2>3, <3>1, ReadingSent
    <3>3. t.pc = "asked" /\ t.stage \in {"queued", "replied"} /\ Phase(t) = t.stage
      BY <3>2 DEF Phase
    <3> DEFINE u == View(s)
               v == View(t)
    <3>4. /\ IsSent(u) /\ u.wire = s.wire /\ FrameIn(u.wire)
          /\ Steps(u, v, t.stage) /\ v.heard = h /\ v.reply = t.reply
      BY <3>2, <3>3, ViewOf DEF Steps, Moves
    <3>5. h = DecodeRequest(Payload(u.wire))
      BY <3>4
    <3>6. IsReplied(E, v) \/ IsQueued(E, v)
      <4> HIDE DEF u, v, h
      <4>1. /\ ~AdmittedIn(E, h) /\ Steps(u, v, "replied") /\ v.reply = Refused => IsReplied(E, v)
            /\ AdmittedIn(E, h) /\ h.items = <<>> /\ Steps(u, v, "replied") /\ v.reply = Ok(<<>>)
               => IsReplied(E, v)
            /\ AdmittedIn(E, h) /\ h.items # <<>> /\ Steps(u, v, "queued") /\ v.reply = None
               => IsQueued(E, v)
        BY <3>4, <3>5, HandleStep
      <4> QED
        BY <3>4, <4>1 DEF h
    <3>7. Good(E, v)
      BY <3>6 DEF Good
    <3>8. ~Overruns(AsRead(t.ask)) => t.wire = <<>>
      <4>1. u.ask = t.ask /\ Asked(u.ask) /\ u.ask.channel # "http" /\ OnWire(u) /\ Countable(AsRead(u.ask))
        BY <1>2, <2>1, <3>4, ViewOf DEF IsSent, Vouched
      <4> HIDE DEF u, v
      <4>2. u.wire = FrameAsSent(AsRead(u.ask)) /\ AsRead(u.ask).channel # "http"
        BY <4>1, SentAsFrame
      <4> QED
        BY <3>4, <4>1, <4>2 DEF Overruns
    <3> HIDE DEF u, v
    <3> QED
      BY <3>2, <3>3, <3>7, <3>8 DEF Astray, Lock, v
  <2> QED
    BY <2>2, <2>3
<1> QED
  BY <1>4, <1>6, <1>7, <1>8 DEF Holds

LEMMA PostHolds ==
    ASSUME NEW E, Registry(E), NEW s, Holds(E, s), NEW t, s.stage = "posted",
           t.pc = s.pc, t.ask = s.ask, t.wire = s.wire, t.back = s.back, t.apart = s.apart,
           t.answer = s.answer,
           LET fine == BodySize(s.ask) <= BodyLimit /\ WellFormedIn(E, s.ask)
           IN  \/ fine /\ t.heard = AsRequest(s.ask) /\ t.stage = "queued" /\ t.reply = s.reply
               \/ ~fine /\ t.heard = s.heard /\ t.stage = "replied" /\ t.reply = Refused
    PROVE  Holds(E, t)
<1> DEFINE q == s.ask
           fine == BodySize(q) <= BodyLimit /\ WellFormedIn(E, q)
<1>1. Typed(s) /\ Placed(s) /\ Served(E, s)
  BY DEF Holds
<1>2. /\ s.pc = "asked" /\ Asked(q) /\ q.channel = "http" /\ ~s.apart /\ s.back = <<>>
      /\ s.reply = None
  BY <1>1 DEF Placed, Served
<1>3. \/ fine /\ t.heard = AsRequest(q) /\ t.stage = "queued" /\ t.reply = None
      \/ ~fine /\ t.heard = s.heard /\ t.stage = "replied" /\ t.reply = Refused
  BY <1>2
<1>4. fine => Taken(E, AsRequest(q)) /\ AsRequest(q).items # <<>>
  BY <1>2, WellFormedTaken
<1> HIDE DEF fine
<1>5. Typed(t)
  BY <1>1, <1>3 DEF Typed
<1>6. Placed(t)
  BY <1>1, <1>2, <1>3 DEF Placed
<1>7. Served(E, t)
  <2>1. Sincere(E, s.heard, Refused) /\ Refused # None
    BY SincereReplies, AnswersAreReplies
  <2> QED
    BY <1>3, <1>4, <2>1 DEF Served
<1>8. ASSUME Vouched(t) PROVE IF Astray(t) THEN Stray(t) ELSE Lock(E, t)
  <2>1. Vouched(s) /\ ~Astray(s) /\ ~Astray(t) /\ ~Overruns(AsRead(q))
    BY <1>2, <1>8, NotOverHttp DEF Vouched, Astray
  <2>2. Good(E, View(s)) /\ Phase(s) = "posted" /\ Bytes(s) = s.wire
    <3>1. Good(E, View(s)) /\ Phase(s) = "posted"
      BY <2>1, ServedAsked
    <3> QED
      BY <3>1 DEF Bytes
  <2> DEFINE u == View(s)
             v == View(t)
  <2>3. IsPosted(u) /\ u.ask = q /\ u.wire = s.wire
    BY <2>2, PhaseOf, ViewOf
  <2>4. Phase(t) = t.stage
    BY <1>2, <1>3 DEF Phase
  <2>5. /\ Steps(u, v, t.stage) /\ v.heard = t.heard /\ v.reply = t.reply /\ u.heard = s.heard
        /\ u.reply = None
    BY <1>2, <2>4, ViewOf DEF Steps, Moves
  <2> HIDE DEF u, v
  <2>6. IsQueued(E, v) \/ IsReplied(E, v)
    <3>1. /\ fine /\ v.heard = AsRequest(q) /\ Steps(u, v, "queued") /\ v.reply = u.reply => IsQueued(E, v)
          /\ ~fine /\ v.heard = u.heard /\ Steps(u, v, "replied") /\ v.reply = Refused => IsReplied(E, v)
      BY <2>3, PostStep DEF fine
    <3> QED
      BY <1>3, <2>5, <3>1
  <2>7. Good(E, v) /\ s.wire = <<>>
    BY <2>3, <2>6 DEF Good, IsPosted
  <2> QED
    BY <1>2, <1>3, <2>1, <2>7 DEF Lock, v
<1> QED
  BY <1>5, <1>6, <1>7, <1>8 DEF Holds

\* A queued request is given an answer that is so.
LEMMA ReplyHolds ==
    ASSUME NEW E, NEW s, Holds(E, s), NEW t, s.stage = "queued",
           t.pc = s.pc, t.stage = "replied", t.ask = s.ask, t.wire = s.wire, t.back = s.back,
           t.apart = s.apart, t.heard = s.heard, t.answer = s.answer,
           Sincere(E, s.heard, t.reply), t.reply.status # "refused"
    PROVE  Holds(E, t)
<1>1. Typed(s) /\ Placed(s) /\ Served(E, s)
  BY DEF Holds
<1>2. t.reply # None
  BY AnswersAreReplies DEF Sincere
<1>3. Typed(t)
  BY <1>1 DEF Typed
<1>4. Placed(t)
  BY <1>1 DEF Placed
<1>5. Served(E, t)
  BY <1>2 DEF Served
<1>6. ASSUME Vouched(t) PROVE IF Astray(t) THEN Stray(t) ELSE Lock(E, t)
  <2>1. Vouched(s)
    BY <1>6 DEF Vouched
  <2>2. CASE Astray(s)
    BY <1>1, <2>1, <2>2, StrayIn, StrayKept DEF Holds
  <2>3. CASE ~Astray(s)
    <3>1. /\ s.pc = "asked" /\ s.back = <<>> /\ Good(E, View(s)) /\ Phase(s) = "queued"
          /\ ~Overruns(AsRead(s.ask)) => s.wire = <<>>
      BY <2>1, <2>3, ServedAsked
    <3> DEFINE u == View(s)
               v == View(t)
    <3>2. IsQueued(E, u) /\ u.heard = s.heard
      BY <3>1, PhaseOf, ViewOf
    <3>3. Phase(t) = "replied"
      BY <3>1 DEF Phase
    <3>4. Steps(u, v, "replied") /\ v.heard = u.heard /\ v.reply = t.reply
      BY <3>3, ViewOf DEF Steps, Moves
    <3> HIDE DEF u, v
    <3>5. IsReplied(E, v)
      BY <3>2, <3>4, AnswerStep
    <3>6. Good(E, v)
      BY <3>5 DEF Good
    <3> QED
      BY <3>1, <3>6 DEF Astray, Lock, v
  <2> QED
    BY <2>2, <2>3
<1> QED
  BY <1>3, <1>4, <1>5, <1>6 DEF Holds

LEMMA RespondHolds ==
    ASSUME NEW E, Registry(E), NEW s, Holds(E, s), NEW t, s.stage = "replied", s.ask.channel = "http",
           s.pc # "idle",
           t.pc = "done", t.stage = "closed", t.ask = s.ask, t.wire = s.wire, t.back = s.back,
           t.apart = s.apart, t.heard = s.heard, t.reply = s.reply,
           t.answer = IF s.reply.status # "ok" THEN Nothing
                      ELSE [ok |-> TRUE, rows |-> IF s.ask.task = "rerank" THEN Ranked(s.reply.rows, s.ask.option)
                                                  ELSE s.reply.rows]
    PROVE  Holds(E, t)
<1> DEFINE best == IF s.ask.task = "rerank" THEN Ranked(s.reply.rows, s.ask.option) ELSE s.reply.rows
           a == [ok |-> TRUE, rows |-> best]
<1>1. Typed(s) /\ Placed(s) /\ Served(E, s)
  BY DEF Holds
<1>2. s.pc = "asked" /\ Asked(s.ask) /\ ~s.apart /\ s.back = <<>>
  BY <1>1 DEF Placed
<1>3. t.answer = IF s.reply.status # "ok" THEN Nothing ELSE a
  OBVIOUS
<1>4. Told(a) /\ Told(Nothing)
  BY NothingIsOwn DEF Told
<1> HIDE DEF a
<1>5. Typed(t)
  BY <1>1, <1>3, <1>4 DEF Typed
<1>6. Placed(t) /\ Served(E, t)
  BY <1>1, <1>2 DEF Placed, Served
<1>7. ASSUME Vouched(t) PROVE IF Astray(t) THEN Stray(t) ELSE Lock(E, t)
  <2>1. Vouched(s) /\ ~Astray(s) /\ ~Overruns(AsRead(s.ask))
    BY <1>2, <1>7, NotOverHttp DEF Vouched, Astray
  <2>2. Good(E, View(s)) /\ Phase(s) = "replied" /\ s.wire = <<>>
    BY <2>1, ServedAsked
  <2> DEFINE u == View(s)
             v == View(t)
  <2>3. IsReplied(E, u) /\ u.ask = s.ask /\ u.reply = s.reply
    BY <2>2, PhaseOf, ViewOf
  <2>4. Phase(t) = "done"
    BY DEF Phase
  <2>5. Finishes(u, v, t.answer)
    BY <2>4, ViewOf DEF Finishes, Moves
  <2>6. IsDone(E, v)
    <3> HIDE DEF u, v
    <3>1. /\ u.reply.status # "ok" /\ Finishes(u, v, Nothing) => IsDone(E, v)
          /\ u.reply.status = "ok" /\ Finishes(u, v, a) => IsDone(E, v)
      BY <2>3, RespondStep DEF a
    <3> QED
      BY <1>3, <2>3, <2>5, <3>1
  <2> HIDE DEF u, v
  <2> QED
    BY <2>2, <2>6, DoneHolds DEF v
<1> QED
  BY <1>5, <1>6, <1>7 DEF Holds

\* What is first on a connection does not change with what comes behind it.
LEMMA FirstFrame ==
    ASSUME NEW p \in Seq(Units), NEW more \in Seq(Units), FrameIn(Frame(p) \o more)
    PROVE  Begins(Payload(Frame(p) \o more), p)
<1> DEFINE f == Frame(p)
           w == f \o more
           k == WordAt(f, 1)
<1>1. f \in Seq(Units) /\ Len(f) >= 2 /\ FrameIn(f) /\ Begins(Payload(f), p)
  BY FrameWhole
<1> HIDE DEF f
<1>2. k \in Nat /\ k + 2 <= Len(f)
  BY <1>1, WordAtType DEF FrameIn
<1>3. Len(w) = Len(f) + Len(more) /\ \A j \in 1..Len(f) : w[j] = f[j]
  BY <1>1
<1>4. WordAt(w, 1) = k
  BY <1>1, <1>3 DEF WordAt
<1> HIDE DEF k, w
<1>5. /\ Payload(f) = SubSeq(f, 3, k + 2) /\ Payload(w) = SubSeq(w, 3, k + 2)
  BY <1>4 DEF Payload, k
<1>6. w \in Seq(Units) /\ k + 2 <= Len(w)
  BY <1>1, <1>2, <1>3 DEF w
<1>7. /\ Len(Payload(f)) = k /\ Len(Payload(w)) = k
      /\ \A j \in 1..k : Payload(f)[j] = f[j + 2] /\ Payload(w)[j] = w[j + 2]
  BY <1>1, <1>2, <1>5, <1>6
<1>8. \A j \in 1..k : Payload(w)[j] = Payload(f)[j]
  <2> TAKE j \in 1..k
  <2> DEFINE i == j + 2
  <2>1. i \in 1..Len(f)
    BY <1>1, <1>2
  <2>2. Payload(f)[j] = f[i] /\ Payload(w)[j] = w[i]
    BY <1>7
  <2> HIDE DEF i
  <2> QED
    BY <1>3, <2>1, <2>2
<1>9. Begins(Payload(w), p)
  BY <1>1, <1>7, <1>8 DEF Begins
<1> QED
  BY <1>9 DEF w, f

\* The first answer to a request that is longer than its prefix is an error.
LEMMA OverrunRefused ==
    ASSUME NEW E, NEW s, HasReply(E, s), s.ask.channel # "http", Countable(AsRead(s.ask)),
           Overruns(AsRead(s.ask))
    PROVE  ResponseIn(E, s) = Error
<1>1. HeardRight(s.ask, s.heard)
  BY DEF HasReply, IsRefused, IsAnswered, IsHeard
<1>2. s.heard = Malformed
  BY <1>1 DEF HeardRight
<1>3. ~IsAnswered(E, s)
  BY <1>2 DEF IsAnswered, Taken, AdmittedIn
<1>4. s.reply = Refused
  BY <1>3 DEF HasReply, IsRefused
<1> QED
  BY <1>4, AnswersAreReplies DEF ResponseIn

LEMMA EncodeHolds ==
    ASSUME NEW E, Registry(E), NEW s, Holds(E, s), NEW t, s.stage = "replied", s.ask.channel # "http",
           t.pc = s.pc, t.stage = "reading", t.ask = s.ask, t.wire = s.wire,
           t.back = s.back \o Frame(EncodeResponse(ResponseIn(E, s))),
           t.apart = s.apart, t.heard = s.heard, t.reply = s.reply, t.answer = s.answer
    PROVE  Holds(E, t)
<1> DEFINE new == Frame(EncodeResponse(ResponseIn(E, s)))
<1>1. Typed(s) /\ Placed(s) /\ Served(E, s)
  BY DEF Holds
<1>2. new \in Seq(Units) /\ new # <<>>
  <2> DEFINE p == EncodeResponse(ResponseIn(E, s))
  <2>1. p \in Seq(Units)
    BY <1>1, ResponseBytes DEF Served
  <2>2. new = Frame(p)
    OBVIOUS
  <2> HIDE DEF p, new
  <2>3. new \in Seq(Units) /\ Len(new) >= 2
    BY <2>1, <2>2, FrameWhole
  <2> QED
    BY <2>3
<1>3. t.back = s.back \o new /\ s.back \in Seq(Units)
  BY <1>1 DEF Typed
<1>4. ResponseIn(E, View(s)) = ResponseIn(E, s)
  BY ViewOf DEF ResponseIn
<1>5. t.back \in Seq(Units) /\ t.back # <<>>
  <2> HIDE DEF new
  <2>1. t.back \in Seq(Units) /\ Len(t.back) = Len(s.back) + Len(new) /\ Len(new) # 0
    BY <1>2, <1>3
  <2> QED
    BY <1>2, <1>3, <2>1
<1>6. Typed(t)
  BY <1>1, <1>5 DEF Typed
<1>7. Placed(t)
  BY <1>1 DEF Placed
<1>8. Served(E, t)
  BY <1>1 DEF Served
<1>9. ASSUME Vouched(t) PROVE IF Astray(t) THEN Stray(t) ELSE Lock(E, t)
  <2>1. Vouched(s) /\ Countable(AsRead(s.ask))
    BY <1>9 DEF Vouched
  <2>2. CASE Astray(s)
    <3>1. Stray(s) /\ Overruns(AsRead(s.ask)) /\ s.pc \in {"asked", "done"}
      BY <2>1, <2>2, StrayIn
    <3>2. Astray(t)
      BY <1>5, <3>1 DEF Astray
    <3>3. ASSUME s.pc = "asked" PROVE \E more \in Seq(Units) : t.back = Frame(EncodeResponse(Error)) \o more
      <4> DEFINE f == Frame(EncodeResponse(Error))
      <4>1. PICK more \in Seq(Units) : s.back = f \o more
        BY <3>1, <3>3 DEF Stray
      <4>2. f \in Seq(Units)
        BY ErrorRead, FrameWhole
      <4> HIDE DEF f, new
      <4>3. (f \o more) \o new = f \o (more \o new) /\ more \o new \in Seq(Units)
        BY <1>2, <4>2, ConcatAssociative
      <4>4. t.back = f \o (more \o new)
        BY <1>3, <4>1, <4>3
      <4> QED
        BY <4>3, <4>4 DEF f
    <3>4. Stray(t)
      BY <3>1, <3>3 DEF Stray
    <3> QED
      BY <3>2, <3>4
  <2>3. CASE ~Astray(s)
    <3>1. /\ s.pc = "asked" /\ s.back = <<>> /\ Good(E, View(s)) /\ Phase(s) = "replied"
          /\ ~Overruns(AsRead(s.ask)) => s.wire = <<>>
      BY <2>1, <2>3, ServedAsked
    <3>2. IsReplied(E, View(s))
      BY <3>1, PhaseOf, ViewOf
    <3>3. t.back = new
      <4> HIDE DEF new
      <4> QED
        BY <1>2, <1>3, <3>1
    <3>4. CASE Overruns(AsRead(s.ask))
      <4>1. ResponseIn(E, View(s)) = Error
        BY <2>1, <3>2, <3>4, ViewOf, OverrunRefused DEF IsReplied
      <4> DEFINE f == Frame(EncodeResponse(Error))
                 nil == <<>>
      <4>2. f \in Seq(Units) /\ nil \in Seq(Units)
        BY ErrorRead, FrameWhole
      <4>3. t.back = f
        BY <1>4, <3>3, <4>1
      <4> HIDE DEF f
      <4>4. t.back = f \o nil
        BY <4>2, <4>3
      <4>5. \E more \in Seq(Units) : t.back = f \o more
        BY <4>2, <4>4
      <4>6. Astray(t) /\ Stray(t)
        BY <1>5, <3>1, <3>4, <4>5 DEF Astray, Stray, f
      <4> QED
        BY <4>6
    <3>5. CASE ~Overruns(AsRead(s.ask))
      <4>1. Phase(t) = "answering" /\ Bytes(t) = t.back
        BY <1>5, <3>1 DEF Phase, Bytes
      <4> DEFINE u == View(s)
                 v == View(t)
      <4>2. /\ IsReplied(E, u) /\ u.ask.channel # "http" /\ Moves(u, v, "answering")
            /\ v.wire = new /\ v.heard = u.heard /\ v.reply = u.reply /\ v.answer = u.answer
        BY <3>2, <3>3, <4>1, ViewOf DEF Moves
      <4>3. v.wire = Frame(EncodeResponse(ResponseIn(E, u)))
        BY <1>4, <4>2
      <4> HIDE DEF u, v, new
      <4>4. IsAnswering(E, v)
        BY <4>2, <4>3, EncodeStep
      <4>5. Good(E, v)
        BY <4>4 DEF Good
      <4>6. ~Astray(t) /\ Lock(E, t)
        BY <3>1, <3>5, <4>5 DEF Astray, Lock, v
      <4> QED
        BY <4>6
    <3> QED
      BY <3>4, <3>5
  <2> QED
    BY <2>2, <2>3
<1> QED
  BY <1>6, <1>7, <1>8, <1>9 DEF Holds

\* The loop ends when nobody is left to read its reply.
LEMMA GoneHolds ==
    ASSUME NEW E, NEW s, Holds(E, s), NEW t, s.stage = "replied", s.ask.channel # "http", s.pc = "done",
           t.pc = s.pc, t.stage = "closed", t.ask = s.ask, t.wire = <<>>, t.back = s.back,
           t.apart = s.apart, t.heard = s.heard, t.reply = s.reply, t.answer = s.answer
    PROVE  Holds(E, t)
<1>1. Typed(s) /\ Placed(s) /\ Served(E, s)
  BY DEF Holds
<1>2. <<>> \in Seq(Units)
  OBVIOUS
<1>3. Typed(t)
  BY <1>1, <1>2 DEF Typed
<1>4. Placed(t) /\ Served(E, t)
  BY <1>1 DEF Placed, Served
<1>5. ASSUME Vouched(t) PROVE IF Astray(t) THEN Stray(t) ELSE Lock(E, t)
  <2>1. Vouched(s)
    BY <1>5 DEF Vouched
  <2>2. Astray(s)
    BY <2>1, ServedAsked
  <2> QED
    BY <2>1, <2>2, StrayIn, StrayKept
<1> QED
  BY <1>3, <1>4, <1>5 DEF Holds

\* The first reply is the caller's own, or an error nobody takes for one.
LEMMA ReceiveHolds ==
    ASSUME NEW E, Registry(E), NEW s, Holds(E, s), NEW t, s.pc = "asked", FrameIn(s.back),
           t.pc = "done", t.stage = s.stage, t.ask = s.ask, t.wire = s.wire, t.back = Rest(s.back),
           t.apart = s.apart, t.heard = s.heard, t.reply = s.reply,
           LET q == s.ask
               n == Len(q.items)
               v == DecodeResponse(Payload(s.back))
               straight == q.channel = "socket" /\ v \notin {Malformed, Error}
               fits == ~TooLong(s.back) /\ Fits(v, q.task, n)
           IN  \/ straight /\ t.answer = [ok |-> TRUE, rows |-> RowsOf(v, n)]
               \/ ~straight /\ fits /\ t.answer = [ok |-> TRUE, rows |-> Column(q.task, RowsOf(v, n))]
               \/ ~straight /\ ~fits /\ t.answer = Nothing
    PROVE  Holds(E, t)
<1> DEFINE q == s.ask
           n == Len(q.items)
           v == DecodeResponse(Payload(s.back))
           straight == q.channel = "socket" /\ v \notin {Malformed, Error}
           fits == ~TooLong(s.back) /\ Fits(v, q.task, n)
           a1 == [ok |-> TRUE, rows |-> RowsOf(v, n)]
           a2 == [ok |-> TRUE, rows |-> Column(q.task, RowsOf(v, n))]
<1>1. Typed(s) /\ Placed(s) /\ Served(E, s)
  BY DEF Holds
<1>2. \/ straight /\ t.answer = a1
      \/ ~straight /\ fits /\ t.answer = a2
      \/ ~straight /\ ~fits /\ t.answer = Nothing
  OBVIOUS
<1>3. Told(a1) /\ Told(a2) /\ Told(Nothing)
  BY NothingIsOwn DEF Told
<1>4. s.back \in Seq(Units) /\ Len(s.back) >= 2 /\ s.back # <<>>
  <2>1. s.back \in Seq(Units) /\ Len(s.back) >= 2
    BY <1>1 DEF Typed, FrameIn
  <2> QED
    BY <2>1
<1>5. Asked(q) /\ q.channel # "http"
  BY <1>1, <1>4 DEF Placed
<1> HIDE DEF a1, a2, fits, straight, v
<1>6. Typed(t)
  <2>1. Rest(s.back) \in Seq(Units)
    BY <1>4, FrameParts
  <2>2. Told(t.answer)
    BY <1>2, <1>3
  <2> QED
    BY <1>1, <2>1, <2>2 DEF Typed
<1>7. Placed(t)
  BY <1>1, <1>5 DEF Placed
<1>8. Served(E, t)
  BY <1>1 DEF Served
<1>9. ASSUME Vouched(t) PROVE IF Astray(t) THEN Stray(t) ELSE Lock(E, t)
  <2>1. Vouched(s)
    BY <1>9 DEF Vouched
  <2>2. CASE Astray(s)
    <3>1. Stray(s) /\ Overruns(AsRead(q))
      BY <2>1, <2>2, StrayIn
    <3> DEFINE p == EncodeResponse(Error)
    <3>2. PICK more \in Seq(Units) : s.back = Frame(p) \o more
      BY <3>1 DEF Stray
    <3>3. p \in Seq(Units) /\ \A x \in Seq(Nat) : Begins(x, p) => DecodeResponse(x) \in {Malformed, Error}
      BY ErrorRead
    <3>4. Payload(s.back) \in Seq(Nat)
      BY <1>4, FrameParts, Numbers
    <3> HIDE DEF p
    <3>5. Begins(Payload(s.back), p)
      BY <3>2, <3>3, FirstFrame
    <3>6. v \in {Malformed, Error}
      BY <3>3, <3>4, <3>5 DEF v
    <3>7. ~straight /\ ~fits
      <4>1. q.task # "error" /\ Error.task = "error"
        BY <1>5, AskedType DEF TaskNames, Error
      <4> QED
        BY <3>6, <4>1 DEF straight, fits, Fits
    <3>8. AnsweredOwn(AsRead(q), t.answer)
      BY <1>2, <3>7, NothingIsOwn
    <3> QED
      BY <3>1, <3>8 DEF Astray, Stray
  <2>3. CASE ~Astray(s)
    <3>1. Lock(E, s) /\ Good(E, View(s)) /\ ~Overruns(AsRead(q))
      BY <1>4, <2>1, <2>3, LockedIn
    <3>2. s.stage = "reading" /\ s.wire = <<>>
      BY <1>4, <3>1 DEF Lock
    <3>3. Phase(s) = "answering" /\ Bytes(s) = s.back
      BY <1>4, <3>2 DEF Phase, Bytes
    <3> DEFINE x == View(s)
               y == View(t)
    <3>4. IsAnswering(E, x) /\ x.ask = q /\ x.wire = s.back
      BY <3>1, <3>3, PhaseOf, ViewOf
    <3>5. Finishes(x, y, t.answer)
      <4>1. Phase(t) = "done"
        BY DEF Phase
      <4> QED
        BY <4>1, ViewOf DEF Finishes, Moves
    <3>6. fits <=> WordAt(s.back, 1) <= MaxFrame /\ Fits(v, q.task, n)
      <4>1. WordAt(s.back, 1) \in Nat /\ MaxFrame \in Nat
        BY <1>4, WordAtType, WireAssumption
      <4>2. TooLong(s.back) <=> ~(WordAt(s.back, 1) <= MaxFrame)
        BY <1>4, <4>1 DEF TooLong
      <4> QED
        BY <4>2 DEF fits
    <3>7. v = DecodeResponse(SubSeq(x.wire, 3, WordAt(x.wire, 1) + 2))
      BY <3>4 DEF v, Payload
    <3> HIDE DEF x, y
    <3>8. /\ straight /\ Finishes(x, y, a1) => IsDone(E, y)
          /\ ~straight /\ fits /\ Finishes(x, y, a2) => IsDone(E, y)
          /\ ~straight /\ ~fits /\ Finishes(x, y, Nothing) => IsDone(E, y)
      <4> DEFINE ok == WordAt(x.wire, 1) <= MaxFrame /\ Fits(v, q.task, n)
      <4>1. fits <=> ok
        BY <3>4, <3>6
      <4>2. /\ straight /\ Finishes(x, y, a1) => IsDone(E, y)
            /\ ~straight /\ ok /\ Finishes(x, y, a2) => IsDone(E, y)
            /\ ~straight /\ ~ok /\ Finishes(x, y, Nothing) => IsDone(E, y)
        BY <3>4, <3>7, ReceiveStep DEF straight, a1, a2
      <4> HIDE DEF ok
      <4> QED
        BY <4>1, <4>2
    <3>9. IsDone(E, y)
      BY <1>2, <3>5, <3>8
    <3> QED
      BY <3>2, <3>9, DoneHolds DEF y
  <2> QED
    BY <2>2, <2>3
<1> QED
  BY <1>6, <1>7, <1>8, <1>9 DEF Holds

-----------------------------------------------------------------------------
\* The steps of the specification.

\* What the variables hold of c after a step.
After(c) ==
    [pc |-> pc'[c], stage |-> stage'[c], ask |-> ask'[c], wire |-> wire'[c], back |-> back'[c],
     apart |-> apart'[c], heard |-> heard'[c], reply |-> reply'[c], answer |-> answer'[c]]

\* g is f with v at c, or differs from it at c only.
Puts(f, c, v, g)  == g = [f EXCEPT ![c] = v]
Touches(f, c, g)  == OfCallers(g) /\ \A d \in Callers : d # c => g[d] = f[d]

Touched(c) ==
    /\ Touches(pc, c, pc') /\ Touches(stage, c, stage') /\ Touches(ask, c, ask') /\ Touches(wire, c, wire')
    /\ Touches(back, c, back') /\ Touches(apart, c, apart') /\ Touches(heard, c, heard')
    /\ Touches(reply, c, reply') /\ Touches(answer, c, answer')

LEMMA ChangedAt ==
    ASSUME NEW f, OfCallers(f), NEW c \in Callers, NEW v, NEW g, Puts(f, c, v, g)
    PROVE  Touches(f, c, g) /\ g[c] = v
<1>1. g = [d \in Callers |-> IF d = c THEN v ELSE f[d]]
  BY DEF OfCallers, Puts
<1>2. g[c] = v /\ \A d \in Callers : d # c => g[d] = f[d]
  BY <1>1
<1>3. \A d \in Callers : g[d] = IF d = c THEN v ELSE f[d]
  BY <1>1
<1>4. [d \in Callers |-> g[d]] = [d \in Callers |-> IF d = c THEN v ELSE f[d]]
  BY <1>3
<1> QED
  BY <1>1, <1>2, <1>4 DEF OfCallers, Touches

LEMMA KeptAt ==
    ASSUME NEW f, OfCallers(f), NEW c, NEW g, g = f
    PROVE  Touches(f, c, g) /\ g[c] = f[c]
BY DEF Touches

LEMMA Fields ==
    ASSUME NEW c
    PROVE  /\ At(c).pc = pc[c] /\ At(c).stage = stage[c] /\ At(c).ask = ask[c] /\ At(c).wire = wire[c]
           /\ At(c).back = back[c] /\ At(c).apart = apart[c] /\ At(c).heard = heard[c]
           /\ At(c).reply = reply[c] /\ At(c).answer = answer[c]
           /\ After(c).pc = pc'[c] /\ After(c).stage = stage'[c] /\ After(c).ask = ask'[c]
           /\ After(c).wire = wire'[c] /\ After(c).back = back'[c] /\ After(c).apart = apart'[c]
           /\ After(c).heard = heard'[c] /\ After(c).reply = reply'[c] /\ After(c).answer = answer'[c]
BY DEF At, After

LEMMA InvKept ==
    ASSUME Registry(entries'), Shapes', \A c \in Callers : Holds(entries', After(c))
    PROVE  IInv'
BY DEF IInv, After, At, Shapes

\* A step of c leaves the others alone.
LEMMA OneCaller ==
    ASSUME IInv, NEW c \in Callers, entries' = entries, Touched(c), Holds(entries, After(c))
    PROVE  IInv'
<1>1. \A d \in Callers : Holds(entries, At(d))
  BY DEF IInv
<1>2. \A d \in Callers : d # c => After(d) = At(d)
  BY DEF Touched, Touches, After, At
<1>3. \A d \in Callers : Holds(entries', After(d))
  BY <1>1, <1>2
<1>4. Registry(entries')
  BY DEF IInv
<1>5. Shapes'
  BY DEF Touched, Touches, Shapes
<1> QED
  BY <1>3, <1>4, <1>5, InvKept

\* What a step of c puts into a variable is what c then has there.
Put(c) ==
    /\ \A v : Puts(pc, c, v, pc') => Touches(pc, c, pc') /\ After(c).pc = v
    /\ \A v : Puts(stage, c, v, stage') => Touches(stage, c, stage') /\ After(c).stage = v
    /\ \A v : Puts(ask, c, v, ask') => Touches(ask, c, ask') /\ After(c).ask = v
    /\ \A v : Puts(wire, c, v, wire') => Touches(wire, c, wire') /\ After(c).wire = v
    /\ \A v : Puts(back, c, v, back') => Touches(back, c, back') /\ After(c).back = v
    /\ \A v : Puts(apart, c, v, apart') => Touches(apart, c, apart') /\ After(c).apart = v
    /\ \A v : Puts(heard, c, v, heard') => Touches(heard, c, heard') /\ After(c).heard = v
    /\ \A v : Puts(reply, c, v, reply') => Touches(reply, c, reply') /\ After(c).reply = v
    /\ \A v : Puts(answer, c, v, answer') => Touches(answer, c, answer') /\ After(c).answer = v

Kept(c) ==
    /\ pc' = pc => Touches(pc, c, pc') /\ After(c).pc = At(c).pc
    /\ stage' = stage => Touches(stage, c, stage') /\ After(c).stage = At(c).stage
    /\ ask' = ask => Touches(ask, c, ask') /\ After(c).ask = At(c).ask
    /\ wire' = wire => Touches(wire, c, wire') /\ After(c).wire = At(c).wire
    /\ back' = back => Touches(back, c, back') /\ After(c).back = At(c).back
    /\ apart' = apart => Touches(apart, c, apart') /\ After(c).apart = At(c).apart
    /\ heard' = heard => Touches(heard, c, heard') /\ After(c).heard = At(c).heard
    /\ reply' = reply => Touches(reply, c, reply') /\ After(c).reply = At(c).reply
    /\ answer' = answer => Touches(answer, c, answer') /\ After(c).answer = At(c).answer

LEMMA StepOf ==
    ASSUME IInv, NEW c \in Callers
    PROVE  /\ Registry(entries) /\ Holds(entries, At(c)) /\ Shapes
           /\ Put(c) /\ Kept(c)
<1>1. Shapes
  BY DEF IInv
<1>2. \A v : Puts(pc, c, v, pc') => Touches(pc, c, pc') /\ After(c).pc = v
  BY <1>1, ChangedAt, Fields DEF Shapes
<1>3. \A v : Puts(stage, c, v, stage') => Touches(stage, c, stage') /\ After(c).stage = v
  BY <1>1, ChangedAt, Fields DEF Shapes
<1>4. \A v : Puts(ask, c, v, ask') => Touches(ask, c, ask') /\ After(c).ask = v
  BY <1>1, ChangedAt, Fields DEF Shapes
<1>5. \A v : Puts(wire, c, v, wire') => Touches(wire, c, wire') /\ After(c).wire = v
  BY <1>1, ChangedAt, Fields DEF Shapes
<1>6. \A v : Puts(back, c, v, back') => Touches(back, c, back') /\ After(c).back = v
  BY <1>1, ChangedAt, Fields DEF Shapes
<1>7. \A v : Puts(apart, c, v, apart') => Touches(apart, c, apart') /\ After(c).apart = v
  BY <1>1, ChangedAt, Fields DEF Shapes
<1>8. \A v : Puts(heard, c, v, heard') => Touches(heard, c, heard') /\ After(c).heard = v
  BY <1>1, ChangedAt, Fields DEF Shapes
<1>9. \A v : Puts(reply, c, v, reply') => Touches(reply, c, reply') /\ After(c).reply = v
  BY <1>1, ChangedAt, Fields DEF Shapes
<1>10. \A v : Puts(answer, c, v, answer') => Touches(answer, c, answer') /\ After(c).answer = v
  BY <1>1, ChangedAt, Fields DEF Shapes
<1>11. Kept(c)
  BY <1>1, KeptAt, Fields DEF Shapes, Kept
<1>12. Registry(entries) /\ Holds(entries, At(c))
  BY DEF IInv
<1> QED
  BY <1>1, <1>2, <1>3, <1>4, <1>5, <1>6, <1>7, <1>8, <1>9, <1>10, <1>11, <1>12 DEF Put

LEMMA AskKeeps ==
    ASSUME IInv, NEW c \in Callers, NEW q, Asked(q), Ask(c, q)
    PROVE  IInv'
<1> DEFINE s == At(c)
           t == After(c)
           phase == IF q.channel = "pipe" THEN "written" ELSE "asked"
           longer == wire[c] \o Out(q)
<1>1. Holds(entries, s) /\ Put(c) /\ Kept(c)
  BY StepOf
<1>2. /\ entries' = entries
      /\ Puts(pc, c, phase, pc') /\ Puts(ask, c, q, ask') /\ Puts(answer, c, None, answer')
      /\ \/ Connect(c, Opened(q), Out(q))
         \/ Reuses(c, q.channel) /\ Behind(c, Out(q))
  BY DEF Ask, Puts
<1> HIDE DEF phase
<1>3. /\ Touches(pc, c, pc') /\ Touches(ask, c, ask') /\ Touches(answer, c, answer')
      /\ t.pc = phase /\ t.ask = q /\ t.answer = None
  BY <1>1, <1>2 DEF Put
<1>4. CASE Connect(c, Opened(q), Out(q))
  <2> DEFINE nil == <<>>
             open == Opened(q)
             out == Out(q)
  <2>1. /\ Puts(stage, c, open, stage') /\ Puts(wire, c, out, wire') /\ Puts(back, c, nil, back')
        /\ Puts(apart, c, FALSE, apart') /\ Puts(heard, c, None, heard') /\ Puts(reply, c, None, reply')
    BY <1>4 DEF Connect, Puts
  <2> HIDE DEF nil, open, out
  <2>2. /\ Touched(c)
        /\ t.stage = open /\ t.wire = out /\ t.back = nil /\ t.apart = FALSE /\ t.heard = None /\ t.reply = None
    BY <1>1, <1>3, <2>1 DEF Put, Touched
  <2> HIDE DEF t
  <2>3. Holds(entries, t)
    BY <1>3, <2>2, ConnectHolds DEF phase, nil, open, out
  <2> QED
    BY <1>2, <2>2, <2>3, OneCaller DEF t
<1>5. CASE Reuses(c, q.channel) /\ Behind(c, Out(q))
  <2>1. /\ Puts(wire, c, longer, wire') /\ Puts(apart, c, TRUE, apart')
        /\ stage' = stage /\ back' = back /\ heard' = heard /\ reply' = reply
    BY <1>5 DEF Behind, Puts
  <2>2. longer = s.wire \o Out(q)
    BY Fields
  <2> HIDE DEF longer
  <2>3. /\ Touched(c)
        /\ t.wire = longer /\ t.apart = TRUE /\ t.stage = s.stage /\ t.back = s.back /\ t.heard = s.heard
        /\ t.reply = s.reply
    BY <1>1, <1>3, <2>1 DEF Put, Kept, Touched
  <2>4. s.pc = "done" /\ s.stage # "closed" /\ q.channel # "http" /\ s.ask.channel = q.channel
    BY <1>5, Fields DEF Reuses
  <2> HIDE DEF s, t
  <2>5. Holds(entries, t)
    BY <1>1, <1>3, <2>2, <2>3, <2>4, BehindHolds DEF phase
  <2> QED
    BY <1>2, <2>3, <2>5, OneCaller DEF t
<1> QED
  BY <1>2, <1>4, <1>5

LEMMA ReadKeeps ==
    ASSUME IInv, NEW c \in Callers, ReadRows(c)
    PROVE  IInv'
<1> DEFINE s == At(c)
           t == After(c)
           rows == BlockRows(s.ask)
           nil == [ok |-> TRUE, rows |-> <<>>]
           longer == s.wire \o FrameOf(s.ask)
<1>1. Holds(entries, s) /\ Put(c) /\ Kept(c)
  BY StepOf
<1>2. s.pc = pc[c] /\ s.ask = ask[c] /\ s.wire = wire[c]
  BY Fields
<1>3. /\ s.pc = "written" /\ entries' = entries /\ stage' = stage /\ ask' = ask /\ back' = back
      /\ apart' = apart /\ heard' = heard /\ reply' = reply
  BY <1>2 DEF ReadRows
<1>4. \/ rows = Malformed /\ Puts(pc, c, "done", pc') /\ Puts(answer, c, Nothing, answer') /\ wire' = wire
      \/ rows = <<>> /\ Puts(pc, c, "done", pc') /\ Puts(answer, c, nil, answer') /\ wire' = wire
      \/ /\ rows \notin {Malformed, <<>>} /\ Ragged(Regrouped(s.ask, rows))
         /\ Puts(pc, c, "done", pc') /\ Puts(answer, c, Nothing, answer') /\ wire' = wire
      \/ Framable(s.ask) /\ Puts(pc, c, "asked", pc') /\ Puts(wire, c, longer, wire') /\ answer' = answer
  BY <1>2 DEF ReadRows, Read, Done, Puts, Framable
<1> HIDE DEF rows, nil, longer
<1>5. /\ Touches(stage, c, stage') /\ Touches(ask, c, ask') /\ Touches(back, c, back')
      /\ Touches(apart, c, apart') /\ Touches(heard, c, heard') /\ Touches(reply, c, reply')
      /\ t.stage = s.stage /\ t.ask = s.ask /\ t.back = s.back /\ t.apart = s.apart
      /\ t.heard = s.heard /\ t.reply = s.reply
  BY <1>1, <1>3 DEF Kept
<1>6. Touches(pc, c, pc') /\ Touches(wire, c, wire') /\ Touches(answer, c, answer')
  BY <1>1, <1>4 DEF Put, Kept
<1>7. \/ rows = Malformed /\ t.pc = "done" /\ t.wire = s.wire /\ t.answer = Nothing
      \/ rows = <<>> /\ t.pc = "done" /\ t.wire = s.wire /\ t.answer = nil
      \/ /\ rows \notin {Malformed, <<>>} /\ Ragged(Regrouped(s.ask, rows))
         /\ t.pc = "done" /\ t.wire = s.wire /\ t.answer = Nothing
      \/ Framable(s.ask) /\ t.pc = "asked" /\ t.wire = longer /\ t.answer = s.answer
  BY <1>1, <1>4 DEF Put, Kept
<1>8. Touched(c)
  BY <1>5, <1>6 DEF Touched
<1>9. Holds(entries, t)
  <2> HIDE DEF s, t
  <2> QED
    BY <1>1, <1>3, <1>5, <1>7, ReadHolds DEF rows, nil, longer
<1> QED
  BY <1>3, <1>8, <1>9, OneCaller

LEMMA ResendKeeps ==
    ASSUME IInv, NEW c \in Callers, Resend(c)
    PROVE  IInv'
<1> DEFINE s == At(c)
           t == After(c)
           frame == FrameOf(s.ask)
           nil == <<>>
<1>1. Holds(entries, s) /\ Put(c) /\ Kept(c)
  BY StepOf
<1>2. s.pc = pc[c] /\ s.ask = ask[c]
  BY Fields
<1>3. /\ s.pc = "asked" /\ s.ask.channel = "pipe"
      /\ entries' = entries /\ pc' = pc /\ ask' = ask /\ answer' = answer
      /\ Puts(stage, c, "reading", stage') /\ Puts(wire, c, frame, wire') /\ Puts(back, c, nil, back')
      /\ Puts(apart, c, FALSE, apart') /\ Puts(heard, c, None, heard') /\ Puts(reply, c, None, reply')
  BY <1>2 DEF Resend, Connect, Puts
<1> HIDE DEF frame, nil
<1>4. /\ Touched(c)
      /\ t.pc = s.pc /\ t.ask = s.ask /\ t.answer = s.answer /\ t.stage = "reading" /\ t.wire = frame
      /\ t.back = nil /\ t.apart = FALSE /\ t.heard = None /\ t.reply = None
  BY <1>1, <1>3 DEF Put, Kept, Touched
<1>5. Holds(entries, t)
  <2> HIDE DEF s, t
  <2> QED
    BY <1>1, <1>3, <1>4, ResendHolds DEF frame, nil
<1> QED
  BY <1>3, <1>4, <1>5, OneCaller

LEMMA GiveUpKeeps ==
    ASSUME IInv, NEW c \in Callers, GiveUp(c)
    PROVE  IInv'
<1> DEFINE s == At(c)
           t == After(c)
           nil == <<>>
<1>1. Registry(entries) /\ Holds(entries, s) /\ Put(c) /\ Kept(c)
  BY StepOf
<1>2. s.pc = pc[c] /\ s.stage = stage[c] /\ s.wire = wire[c] /\ s.back = back[c]
  BY Fields
<1>3. /\ s.pc = "asked" /\ ~FrameIn(s.back)
      /\ s.stage = "closed" \/ (s.stage = "reading" /\ ~FrameIn(s.wire))
  BY <1>2 DEF GiveUp, AtRest
<1>4. /\ entries' = entries /\ ask' = ask /\ back' = back /\ apart' = apart /\ heard' = heard /\ reply' = reply
      /\ Puts(pc, c, "done", pc') /\ Puts(answer, c, Nothing, answer')
      /\ Puts(stage, c, "closed", stage') /\ Puts(wire, c, nil, wire')
  BY DEF GiveUp, Done, Puts
<1> HIDE DEF nil
<1>5. /\ Touched(c)
      /\ t.ask = s.ask /\ t.back = s.back /\ t.apart = s.apart /\ t.heard = s.heard /\ t.reply = s.reply
      /\ t.pc = "done" /\ t.answer = Nothing /\ t.stage = "closed" /\ t.wire = nil
  BY <1>1, <1>4 DEF Put, Kept, Touched
<1>6. Holds(entries, t)
  <2> HIDE DEF s, t
  <2> QED
    BY <1>1, <1>3, <1>5, GiveUpHolds DEF nil
<1> QED
  BY <1>4, <1>5, <1>6, OneCaller

LEMMA HandleKeeps ==
    ASSUME IInv, NEW c \in Callers, Handle(c)
    PROVE  IInv'
<1> DEFINE s == At(c)
           t == After(c)
           h == DecodeRequest(Payload(s.wire))
           rest == Rest(s.wire)
           nil == <<>>
           none == Ok(<<>>)
<1>1. Registry(entries) /\ Holds(entries, s) /\ Put(c) /\ Kept(c)
  BY StepOf
<1>2. s.stage = stage[c] /\ s.wire = wire[c]
  BY Fields
<1>3. /\ s.stage = "reading"
      /\ entries' = entries /\ pc' = pc /\ ask' = ask /\ back' = back /\ apart' = apart /\ answer' = answer
  BY <1>2 DEF Handle
<1>4. Admissible(h) <=> AdmittedIn(entries, h)
  BY DEF Admissible, AdmittedIn, Known, KnownIn
<1>5. \/ /\ TooLong(s.wire) /\ Puts(stage, c, "closed", stage') /\ Puts(wire, c, nil, wire')
         /\ heard' = heard /\ reply' = reply
      \/ /\ FrameIn(s.wire) /\ Puts(wire, c, rest, wire') /\ Puts(heard, c, h, heard')
         /\ \/ ~Admissible(h) /\ Puts(reply, c, Refused, reply') /\ Puts(stage, c, "replied", stage')
            \/ Admissible(h) /\ h.items = <<>> /\ Puts(reply, c, none, reply') /\ Puts(stage, c, "replied", stage')
            \/ Admissible(h) /\ h.items # <<>> /\ Puts(reply, c, None, reply') /\ Puts(stage, c, "queued", stage')
  BY <1>2 DEF Handle, Process, Said, Puts
<1> HIDE DEF h, rest, nil, none
<1>6. /\ Touches(pc, c, pc') /\ Touches(ask, c, ask') /\ Touches(back, c, back')
      /\ Touches(apart, c, apart') /\ Touches(answer, c, answer')
      /\ t.pc = s.pc /\ t.ask = s.ask /\ t.back = s.back /\ t.apart = s.apart /\ t.answer = s.answer
  BY <1>1, <1>3 DEF Kept
<1>7. CASE /\ TooLong(s.wire) /\ Puts(stage, c, "closed", stage') /\ Puts(wire, c, nil, wire')
           /\ heard' = heard /\ reply' = reply
  <2>1. Touched(c) /\ t.stage = "closed" /\ t.wire = nil /\ t.heard = s.heard /\ t.reply = s.reply
    BY <1>1, <1>6, <1>7 DEF Put, Kept, Touched
  <2> HIDE DEF s, t
  <2>2. Holds(entries, t)
    BY <1>1, <1>3, <1>6, <1>7, <2>1, ShutHolds DEF nil
  <2> QED
    BY <1>3, <2>1, <2>2, OneCaller DEF t
<1>8. CASE /\ FrameIn(s.wire) /\ Puts(wire, c, rest, wire') /\ Puts(heard, c, h, heard')
           /\ \/ ~Admissible(h) /\ Puts(reply, c, Refused, reply') /\ Puts(stage, c, "replied", stage')
              \/ Admissible(h) /\ h.items = <<>> /\ Puts(reply, c, none, reply') /\ Puts(stage, c, "replied", stage')
              \/ Admissible(h) /\ h.items # <<>> /\ Puts(reply, c, None, reply') /\ Puts(stage, c, "queued", stage')
  <2>1. Touched(c) /\ t.wire = rest /\ t.heard = h
    BY <1>1, <1>6, <1>8 DEF Put, Touched
  <2>2. \/ ~Admissible(h) /\ t.reply = Refused /\ t.stage = "replied"
        \/ Admissible(h) /\ h.items = <<>> /\ t.reply = none /\ t.stage = "replied"
        \/ Admissible(h) /\ h.items # <<>> /\ t.reply = None /\ t.stage = "queued"
    BY <1>1, <1>8 DEF Put
  <2> HIDE DEF s, t
  <2>3. \/ ~AdmittedIn(entries, t.heard) /\ t.stage = "replied" /\ t.reply = Refused
        \/ AdmittedIn(entries, t.heard) /\ t.heard.items = <<>> /\ t.stage = "replied" /\ t.reply = Ok(<<>>)
        \/ AdmittedIn(entries, t.heard) /\ t.heard.items # <<>> /\ t.stage = "queued" /\ t.reply = None
    BY <1>4, <2>1, <2>2 DEF none
  <2>4. t.heard = DecodeRequest(Payload(s.wire)) /\ t.wire = Rest(s.wire)
    BY <2>1 DEF h, rest
  <2>5. Holds(entries, t)
    BY <1>1, <1>3, <1>6, <1>8, <2>3, <2>4, ProcessHolds
  <2> QED
    BY <1>3, <2>1, <2>5, OneCaller DEF t
<1> QED
  BY <1>5, <1>7, <1>8

LEMMA PostKeeps ==
    ASSUME IInv, NEW c \in Callers, Post(c)
    PROVE  IInv'
<1> DEFINE s == At(c)
           t == After(c)
           h == AsRequest(s.ask)
           fine == BodySize(s.ask) <= BodyLimit /\ WellFormedIn(entries, s.ask)
<1>1. Registry(entries) /\ Holds(entries, s) /\ Put(c) /\ Kept(c)
  BY StepOf
<1>2. s.ask = ask[c] /\ s.stage = stage[c]
  BY Fields
<1>3. /\ s.stage = "posted" /\ entries' = entries /\ pc' = pc /\ ask' = ask /\ wire' = wire /\ back' = back
      /\ apart' = apart /\ answer' = answer
  BY <1>2 DEF Post
<1>4. WellFormed(ask[c]) <=> WellFormedIn(entries, ask[c])
  BY DEF WellFormed, WellFormedIn, Known, KnownIn
<1>5. \/ fine /\ Puts(heard, c, h, heard') /\ Puts(stage, c, "queued", stage') /\ reply' = reply
      \/ ~fine /\ Puts(reply, c, Refused, reply') /\ Puts(stage, c, "replied", stage') /\ heard' = heard
  BY <1>2, <1>4 DEF Post, Said, Puts
<1> HIDE DEF h, fine
<1>6. /\ Touched(c) /\ t.pc = s.pc /\ t.ask = s.ask /\ t.wire = s.wire /\ t.back = s.back
      /\ t.apart = s.apart /\ t.answer = s.answer
  BY <1>1, <1>3, <1>5 DEF Put, Kept, Touched
<1>7. \/ fine /\ t.heard = h /\ t.stage = "queued" /\ t.reply = s.reply
      \/ ~fine /\ t.heard = s.heard /\ t.stage = "replied" /\ t.reply = Refused
  BY <1>1, <1>5 DEF Put, Kept
<1>8. Holds(entries, t)
  <2> HIDE DEF s, t
  <2> QED
    BY <1>1, <1>3, <1>6, <1>7, PostHolds DEF h, fine
<1> QED
  BY <1>3, <1>6, <1>8, OneCaller

LEMMA LoseKeeps ==
    ASSUME IInv, NEW c \in Callers, Lose(c)
    PROVE  IInv'
<1> DEFINE s == At(c)
           t == After(c)
<1>1. Holds(entries, s) /\ Put(c) /\ Kept(c)
  BY StepOf
<1>2. /\ s.stage = "queued" /\ entries' = entries /\ pc' = pc /\ ask' = ask /\ wire' = wire /\ back' = back
      /\ apart' = apart /\ heard' = heard /\ answer' = answer
      /\ Puts(reply, c, Lost, reply') /\ Puts(stage, c, "replied", stage')
  BY Fields DEF Lose, Said, Puts
<1>3. /\ Touched(c) /\ t.pc = s.pc /\ t.ask = s.ask /\ t.wire = s.wire /\ t.back = s.back
      /\ t.apart = s.apart /\ t.heard = s.heard /\ t.answer = s.answer /\ t.reply = Lost /\ t.stage = "replied"
  BY <1>1, <1>2 DEF Put, Kept, Touched
<1>4. Sincere(entries, s.heard, Lost) /\ Lost.status # "refused"
  BY SincereReplies, AnswersAreReplies
<1>5. Holds(entries, t)
  <2> HIDE DEF s, t
  <2> QED
    BY <1>1, <1>2, <1>3, <1>4, ReplyHolds
<1> QED
  BY <1>2, <1>3, <1>5, OneCaller

LEMMA RespondKeeps ==
    ASSUME IInv, NEW c \in Callers, Respond(c)
    PROVE  IInv'
<1> DEFINE s == At(c)
           t == After(c)
           a == IF s.reply.status # "ok" THEN Nothing
                ELSE [ok |-> TRUE, rows |-> IF s.ask.task = "rerank" THEN Ranked(s.reply.rows, s.ask.option)
                                            ELSE s.reply.rows]
<1>1. Registry(entries) /\ Holds(entries, s) /\ Put(c) /\ Kept(c)
  BY StepOf
<1>2. s.ask = ask[c] /\ s.reply = reply[c] /\ s.stage = stage[c] /\ s.pc = pc[c]
  BY Fields
<1>3. /\ s.stage = "replied" /\ s.ask.channel = "http" /\ entries' = entries /\ ask' = ask /\ wire' = wire
      /\ back' = back /\ apart' = apart /\ heard' = heard /\ reply' = reply
      /\ Puts(pc, c, "done", pc') /\ Puts(answer, c, a, answer') /\ Puts(stage, c, "closed", stage')
  BY <1>2 DEF Respond, Done, Puts
<1> HIDE DEF a
<1>4. /\ Touched(c) /\ t.pc = "done" /\ t.stage = "closed" /\ t.answer = a /\ t.ask = s.ask /\ t.wire = s.wire
      /\ t.back = s.back /\ t.apart = s.apart /\ t.heard = s.heard /\ t.reply = s.reply
  BY <1>1, <1>3 DEF Put, Kept, Touched
<1>5. Holds(entries, t)
  <2> HIDE DEF s, t
  <2>1. s.pc # "idle"
    BY <1>1, <1>3 DEF Holds, Placed
  <2> QED
    BY <1>1, <1>3, <1>4, <2>1, RespondHolds DEF a
<1> QED
  BY <1>3, <1>4, <1>5, OneCaller

LEMMA EncodeKeeps ==
    ASSUME IInv, NEW c \in Callers, Encode(c)
    PROVE  IInv'
<1> DEFINE s == At(c)
           t == After(c)
           longer == s.back \o Frame(EncodeResponse(ResponseIn(entries, s)))
           nil == <<>>
<1>1. Registry(entries) /\ Holds(entries, s) /\ Put(c) /\ Kept(c)
  BY StepOf
<1>2. /\ s.ask = ask[c] /\ s.back = back[c] /\ s.stage = stage[c] /\ s.pc = pc[c]
      /\ Response(c) = ResponseIn(entries, s)
  BY Fields DEF Response, ResponseIn
<1>3. /\ s.stage = "replied" /\ s.ask.channel # "http" /\ entries' = entries /\ pc' = pc /\ ask' = ask
      /\ apart' = apart /\ heard' = heard /\ reply' = reply /\ answer' = answer
  BY <1>2 DEF Encode
<1>4. \/ Puts(back, c, longer, back') /\ Puts(stage, c, "reading", stage') /\ wire' = wire
      \/ s.pc = "done" /\ Puts(stage, c, "closed", stage') /\ Puts(wire, c, nil, wire') /\ back' = back
  BY <1>2 DEF Encode, Puts
<1> HIDE DEF longer, nil
<1>5. /\ Touched(c) /\ t.pc = s.pc /\ t.ask = s.ask /\ t.apart = s.apart /\ t.heard = s.heard
      /\ t.reply = s.reply /\ t.answer = s.answer
  BY <1>1, <1>3, <1>4 DEF Put, Kept, Touched
<1>6. \/ t.back = longer /\ t.stage = "reading" /\ t.wire = s.wire
      \/ s.pc = "done" /\ t.stage = "closed" /\ t.wire = nil /\ t.back = s.back
  BY <1>1, <1>4 DEF Put, Kept
<1>7. Holds(entries, t)
  <2> HIDE DEF s, t
  <2>1. CASE t.back = longer /\ t.stage = "reading" /\ t.wire = s.wire
    BY <1>1, <1>3, <1>5, <2>1, EncodeHolds DEF longer
  <2>2. CASE s.pc = "done" /\ t.stage = "closed" /\ t.wire = nil /\ t.back = s.back
    BY <1>1, <1>3, <1>5, <2>2, GoneHolds DEF nil
  <2> QED
    BY <1>6, <2>1, <2>2
<1> QED
  BY <1>3, <1>5, <1>7, OneCaller

LEMMA ReceiveKeeps ==
    ASSUME IInv, NEW c \in Callers, Receive(c)
    PROVE  IInv'
<1> DEFINE s == At(c)
           t == After(c)
           q == s.ask
           n == Len(q.items)
           v == DecodeResponse(Payload(s.back))
           straight == q.channel = "socket" /\ v \notin {Malformed, Error}
           fits == ~TooLong(s.back) /\ Fits(v, q.task, n)
           a == [ok |-> TRUE, rows |-> RowsOf(v, n)]
           b == [ok |-> TRUE, rows |-> Column(q.task, RowsOf(v, n))]
           rest == Rest(s.back)
<1>1. Registry(entries) /\ Holds(entries, s) /\ Put(c) /\ Kept(c)
  BY StepOf
<1>2. s.ask = ask[c] /\ s.back = back[c] /\ s.pc = pc[c]
  BY Fields
<1>3. /\ s.pc = "asked" /\ FrameIn(s.back) /\ entries' = entries /\ stage' = stage /\ ask' = ask /\ wire' = wire
      /\ apart' = apart /\ heard' = heard /\ reply' = reply /\ Puts(back, c, rest, back')
  BY <1>2 DEF Receive, Puts
<1>4. /\ Puts(pc, c, "done", pc')
      /\ \/ straight /\ Puts(answer, c, a, answer')
         \/ ~straight /\ fits /\ Puts(answer, c, b, answer')
         \/ ~straight /\ ~fits /\ Puts(answer, c, Nothing, answer')
  BY <1>2 DEF Receive, Took, Done, Puts
<1> HIDE DEF a, b, straight, fits, rest
<1>5. /\ Touched(c) /\ t.pc = "done" /\ t.stage = s.stage /\ t.ask = s.ask /\ t.wire = s.wire
      /\ t.back = rest /\ t.apart = s.apart /\ t.heard = s.heard /\ t.reply = s.reply
  BY <1>1, <1>3, <1>4 DEF Put, Kept, Touched
<1>6. \/ straight /\ t.answer = a
      \/ ~straight /\ fits /\ t.answer = b
      \/ ~straight /\ ~fits /\ t.answer = Nothing
  BY <1>1, <1>4 DEF Put
<1>7. Holds(entries, t)
  <2> HIDE DEF s, t
  <2> QED
    BY <1>1, <1>3, <1>5, <1>6, ReceiveHolds DEF a, b, straight, fits, rest
<1> QED
  BY <1>3, <1>5, <1>7, OneCaller

\* The parts of a batch in terms of the state.
LEMMA BatchOf ==
    ASSUME NEW order
    PROVE  Batch(order) = FlattenSeq(Lists(entries, heard, order))
BY DEF Batch, Lists, ItemsOf, ItemsIn

LEMMA PartOf ==
    ASSUME NEW S, NEW order \in Seq(S), NEW out, NEW c, \E j \in 1..Len(order) : order[j] = c
    PROVE  \E i \in 1..Len(order) : order[i] = c /\ Part(c, order, out) = PartAt(entries, heard, order, out, i)
<1> DEFINE i == CHOOSE j \in DOMAIN order : order[j] = c
<1>1. DOMAIN order = 1..Len(order)
  OBVIOUS
<1>2. i \in DOMAIN order /\ order[i] = c
  BY <1>1, Zenon
<1>3. Part(c, order, out) =
        SubSeq(out, Len(Batch(SubSeq(order, 1, i - 1))) + 1,
               Len(Batch(SubSeq(order, 1, i - 1))) + Len(ItemsOf(heard[c])))
  BY DEF Part
<1> HIDE DEF i
<1>4. /\ Batch(SubSeq(order, 1, i - 1)) = FlattenSeq(Lists(entries, heard, SubSeq(order, 1, i - 1)))
      /\ ItemsOf(heard[c]) = ItemsIn(entries, heard[order[i]])
  BY <1>2, BatchOf DEF ItemsOf, ItemsIn
<1>5. Part(c, order, out) = PartAt(entries, heard, order, out, i)
  BY <1>3, <1>4 DEF PartAt
<1> QED
  BY <1>1, <1>2, <1>5

\* What a batch leaves with each of its requests.
LEMMA ServedReply ==
    ASSUME Registry(entries), NEW m \in DOMAIN entries, NEW S, IsFiniteSet(S),
           Queued(entries, m, heard, S), NEW order \in SetToSeqs(S), NEW c \in S, c \in Callers
    PROVE  LET r == Answers(S, order, Infer(m, Batch(order)))[c]
           IN  \/ r = EngineError /\ (Model[m].output = "static" \/ ShortPadding(m, 1))
               \/ \E rows : r = Ok(rows) /\ Returned(m, ItemsIn(entries, heard[c]), rows)
<1> DEFINE out == Infer(m, Batch(order))
           part == Part(c, order, out)
<1>1. order \in Seq(S) /\ \E j \in 1..Len(order) : order[j] = c
  BY OrderOnto
<1>2. Answers(S, order, out)[c] = IF out = Failed THEN EngineError ELSE Ok(part)
  BY DEF Answers
<1>3. out = Infer(m, FlattenSeq(Lists(entries, heard, order)))
  BY BatchOf
<1> HIDE DEF out
<1>4. PICK i \in 1..Len(order) : order[i] = c /\ part = PartAt(entries, heard, order, out, i)
  BY <1>1, PartOf
<1> HIDE DEF part
<1>5. LET o == Infer(m, FlattenSeq(Lists(entries, heard, order)))
      IN  /\ o = Failed => Model[m].output = "static" \/ ShortPadding(m, 1)
          /\ o # Failed => Returned(m, ItemsIn(entries, heard[order[i]]), PartAt(entries, heard, order, o, i))
  BY <1>1, BatchReturned
<1>6. /\ out = Failed => Model[m].output = "static" \/ ShortPadding(m, 1)
      /\ out # Failed => Returned(m, ItemsIn(entries, heard[c]), part)
  BY <1>3, <1>4, <1>5
<1> QED
  BY <1>2, <1>6 DEF out

LEMMA ServeKeeps ==
    ASSUME IInv, NEW m \in DOMAIN entries, Serve(m)
    PROVE  IInv'
<1>1. PICK S \in SUBSET {c \in Callers : stage[c] = "queued" /\ heard[c].model = m} :
        /\ \E order \in SetToSeqs(S) : reply' = Answers(S, order, Infer(m, Batch(order)))
        /\ stage' = [c \in Callers |-> IF c \in S THEN "replied" ELSE stage[c]]
        /\ entries' = entries /\ pc' = pc /\ ask' = ask /\ wire' = wire /\ back' = back /\ apart' = apart
        /\ heard' = heard /\ answer' = answer
  BY DEF Serve
<1>2. PICK order \in SetToSeqs(S) : reply' = Answers(S, order, Infer(m, Batch(order)))
  BY <1>1
<1>3. S \subseteq Callers /\ IsFiniteSet(S)
  BY <1>1, FS_Subset, ConfigAssumption
<1>4. \A c \in S : c \in Callers /\ stage[c] = "queued" /\ heard[c].model = m
  BY <1>1
<1>5. Registry(entries) /\ Shapes /\ \A c \in Callers : Holds(entries, At(c))
  BY DEF IInv
<1>6. \A c \in S : Taken(entries, heard[c]) /\ heard[c].items # <<>>
  BY <1>4, <1>5, Fields DEF Holds, Served
<1>7. Queued(entries, m, heard, S)
  BY <1>4, <1>6 DEF Queued
<1>8. /\ OfCallers(stage') /\ OfCallers(reply')
      /\ \A c \in Callers : c \notin S => stage'[c] = stage[c] /\ reply'[c] = reply[c]
      /\ \A c \in S : stage'[c] = "replied"
  <2>1. /\ OfCallers(stage') /\ \A c \in Callers : c \notin S => stage'[c] = stage[c]
        /\ \A c \in S : stage'[c] = "replied"
    BY <1>1, <1>3 DEF OfCallers
  <2> DEFINE out == Infer(m, Batch(order))
  <2> HIDE DEF out
  <2>2. reply' = [c \in Callers |-> IF c \notin S THEN reply[c]
                                    ELSE IF out = Failed THEN EngineError
                                    ELSE Ok(Part(c, order, out))]
    BY <1>2 DEF Answers, out
  <2>3. OfCallers(reply') /\ \A c \in Callers : c \notin S => reply'[c] = reply[c]
    BY <2>2 DEF OfCallers
  <2> QED
    BY <2>1, <2>3
<1>9. Shapes'
  BY <1>1, <1>5, <1>8 DEF Shapes
<1>10. ASSUME NEW c \in Callers, c \notin S PROVE Holds(entries', After(c))
  <2>1. After(c) = At(c)
    BY <1>1, <1>8, <1>10 DEF After, At
  <2> QED
    BY <1>1, <1>5, <2>1
<1>11. ASSUME NEW c \in S PROVE Holds(entries', After(c))
  <2> DEFINE s == At(c)
             t == After(c)
             r == Answers(S, order, Infer(m, Batch(order)))[c]
  <2>1. c \in Callers /\ s.stage = "queued" /\ s.heard.model = m /\ Holds(entries, s)
    BY <1>4, <1>5, <1>11, Fields
  <2>2. /\ t.pc = s.pc /\ t.stage = "replied" /\ t.ask = s.ask /\ t.wire = s.wire /\ t.back = s.back
        /\ t.apart = s.apart /\ t.heard = s.heard /\ t.answer = s.answer /\ t.reply = r
    <3> DEFINE all == Answers(S, order, Infer(m, Batch(order)))
    <3> HIDE DEF all
    <3>1. reply' = all
      BY <1>2 DEF all
    <3>2. t.reply = all[c]
      BY <3>1, Fields
    <3>3. t.reply = r
      BY <3>2 DEF all
    <3>4. t.stage = "replied"
      BY <1>8, <1>11, Fields
    <3>5. /\ t.pc = s.pc /\ t.ask = s.ask /\ t.wire = s.wire /\ t.back = s.back
          /\ t.apart = s.apart /\ t.heard = s.heard /\ t.answer = s.answer
      <4> HIDE DEF r
      <4>1. pc' = pc /\ ask' = ask /\ wire' = wire /\ back' = back /\ apart' = apart /\ heard' = heard
            /\ answer' = answer
        BY <1>1
      <4> QED
        BY <4>1, Fields
    <3> QED
      BY <3>3, <3>4, <3>5
  <2>3. \/ r = EngineError /\ (Model[m].output = "static" \/ ShortPadding(m, 1))
        \/ \E rows : r = Ok(rows) /\ Returned(m, ItemsIn(entries, heard[c]), rows)
    BY <1>2, <1>3, <1>5, <1>7, <2>1, ServedReply
  <2>4. s.heard = heard[c] /\ Taken(entries, s.heard)
    BY <1>6, Fields
  <2> HIDE DEF s, t, r
  <2>5. Sincere(entries, s.heard, r) /\ r.status # "refused"
    <3>1. CASE r = EngineError /\ (Model[m].output = "static" \/ ShortPadding(m, 1))
      BY <2>1, <3>1, SincereReplies, AnswersAreReplies
    <3>2. CASE \E rows : r = Ok(rows) /\ Returned(m, ItemsIn(entries, heard[c]), rows)
      <4>1. PICK rows : r = Ok(rows) /\ Returned(s.heard.model, ItemsIn(entries, s.heard), rows)
        BY <2>1, <2>4, <3>2
      <4> QED
        BY <2>4, <4>1, SincereReplies, AnswersAreReplies
    <3> QED
      BY <2>3, <3>1, <3>2
  <2>6. Holds(entries, t)
    BY <2>1, <2>2, <2>5, ReplyHolds
  <2> QED
    BY <1>1, <2>6 DEF t
<1> QED
  BY <1>1, <1>5, <1>9, <1>10, <1>11, InvKept

LEMMA InitHolds ==
    ASSUME Init
    PROVE  IInv
<1>1. Registry(entries)
  BY DEF Init, Registry
<1>2. /\ pc = [c \in Callers |-> "idle"] /\ stage = [c \in Callers |-> "closed"]
      /\ ask = [c \in Callers |-> None] /\ wire = [c \in Callers |-> <<>>] /\ back = [c \in Callers |-> <<>>]
      /\ apart = [c \in Callers |-> FALSE] /\ heard = [c \in Callers |-> None]
      /\ reply = [c \in Callers |-> None] /\ answer = [c \in Callers |-> None]
  BY DEF Init
<1>3. Shapes
  BY <1>2 DEF Shapes, OfCallers
<1>4. ASSUME NEW c \in Callers PROVE Holds(entries, At(c))
  <2> DEFINE s == At(c)
  <2>1. /\ s.pc = "idle" /\ s.stage = "closed" /\ s.wire = <<>> /\ s.back = <<>> /\ s.apart = FALSE
        /\ s.reply = None /\ s.answer = None
    BY <1>2, Fields
  <2>2. <<>> \in Seq(Units)
    OBVIOUS
  <2> HIDE DEF s
  <2>3. Typed(s)
    BY <2>1, <2>2 DEF Typed
  <2>4. Placed(s) /\ Served(entries, s) /\ ~Vouched(s)
    BY <2>1 DEF Placed, Served, Vouched
  <2> QED
    BY <2>3, <2>4 DEF Holds, s
<1> QED
  BY <1>1, <1>3, <1>4 DEF IInv

LEMMA NextKeeps ==
    ASSUME IInv, [Next]_vars
    PROVE  IInv'
<1>1. ASSUME NEW c \in Callers, NEW k \in DOMAIN Requests, Ask(c, Requests[k]) PROVE IInv'
  <2>1. Asked(Requests[k])
    BY DEF Asked
  <2> DEFINE q == Requests[k]
  <2>2. Ask(c, q) /\ Asked(q)
    BY <1>1, <2>1
  <2> HIDE DEF q
  <2> QED
    BY <2>2, AskKeeps
<1>2. ASSUME NEW c \in Callers, ReadRows(c) PROVE IInv'
  BY <1>2, ReadKeeps
<1>3. ASSUME NEW c \in Callers, Handle(c) PROVE IInv'
  BY <1>3, HandleKeeps
<1>4. ASSUME NEW c \in Callers, Post(c) PROVE IInv'
  BY <1>4, PostKeeps
<1>5. ASSUME NEW c \in Callers, Lose(c) PROVE IInv'
  BY <1>5, LoseKeeps
<1>6. ASSUME NEW c \in Callers, Respond(c) PROVE IInv'
  BY <1>6, RespondKeeps
<1>7. ASSUME NEW c \in Callers, Encode(c) PROVE IInv'
  BY <1>7, EncodeKeeps
<1>8. ASSUME NEW c \in Callers, Receive(c) PROVE IInv'
  BY <1>8, ReceiveKeeps
<1>9. ASSUME NEW m \in DOMAIN entries, Serve(m) PROVE IInv'
  BY <1>9, ServeKeeps
<1>10. ASSUME NEW c \in Callers, Resend(c) PROVE IInv'
  BY <1>10, ResendKeeps
<1>11. ASSUME NEW c \in Callers, GiveUp(c) PROVE IInv'
  BY <1>11, GiveUpKeeps
<1>12. ASSUME UNCHANGED vars PROVE IInv'
  <2>1. /\ entries' = entries /\ pc' = pc /\ stage' = stage /\ ask' = ask /\ wire' = wire /\ back' = back
        /\ apart' = apart /\ heard' = heard /\ reply' = reply /\ answer' = answer
    BY <1>12 DEF vars
  <2>2. Shapes' /\ Registry(entries')
    BY <2>1 DEF IInv, Shapes
  <2>3. \A c \in Callers : After(c) = At(c)
    BY <2>1 DEF After, At
  <2>4. \A c \in Callers : Holds(entries', After(c))
    BY <2>1, <2>3 DEF IInv
  <2> QED
    BY <2>2, <2>4, InvKept
<1> QED
  BY <1>1, <1>2, <1>3, <1>4, <1>5, <1>6, <1>7, <1>8, <1>9, <1>10, <1>11, <1>12 DEF Next

\* What the daemon heard of a request in step with it.
LEMMA GoodHeard ==
    ASSUME NEW E, NEW s, Good(E, s)
    PROVE  s.heard = None \/ (Asked(s.ask) /\ HeardRight(s.ask, s.heard))
<1>1. HasReply(E, s) => s.heard = None \/ (Asked(s.ask) /\ HeardRight(s.ask, s.heard))
  BY DEF HasReply, IsRefused, IsAnswered, IsHeard
<1>2. CASE IsPosted(s) \/ IsWritten(s) \/ IsSent(s) \/ IsShut(s)
  BY <1>2 DEF IsPosted, IsWritten, IsSent, IsShut, Untold
<1>3. CASE IsQueued(E, s)
  BY <1>3 DEF IsQueued, IsHeard
<1>4. CASE IsReplied(E, s) \/ IsAnswering(E, s)
  BY <1>1, <1>4 DEF IsReplied, IsAnswering
<1>5. CASE IsDone(E, s)
  BY <1>1, <1>5 DEF IsDone
<1> QED
  BY <1>2, <1>3, <1>4, <1>5 DEF Good

LEMMA InvType ==
    ASSUME IInv
    PROVE  TypeOK
<1>1. DOMAIN entries \in Configs /\ Shapes
  BY DEF IInv, Registry
<1>2. \A c \in Callers :
        /\ pc[c] \in {"idle", "written", "asked", "done"}
        /\ stage[c] \in {"closed", "posted", "reading", "queued", "replied"}
        /\ wire[c] \in Seq(Units) /\ back[c] \in Seq(Units) /\ apart[c] \in BOOLEAN
        /\ IF pc[c] = "done" THEN Told(answer[c]) ELSE answer[c] = None
        /\ reply[c] # None => Sincere(entries, heard[c], reply[c])
  BY Fields DEF IInv, Holds, Typed, Served
<1>3. /\ pc \in [Callers -> {"idle", "written", "asked", "done"}]
      /\ stage \in [Callers -> {"closed", "posted", "reading", "queued", "replied"}]
  BY <1>1, <1>2 DEF Shapes, OfCallers
<1>4. wire \in [Callers -> Seq(0..(Base - 1))] /\ back \in [Callers -> Seq(0..(Base - 1))]
  BY <1>1, <1>2 DEF Shapes, OfCallers, Units
<1>5. apart \in [Callers -> BOOLEAN]
  <2>1. apart = [c \in Callers |-> apart[c]]
    BY <1>1 DEF Shapes, OfCallers
  <2> QED
    BY <1>2, <2>1
<1>6. \A c \in Callers : reply[c] # None => reply[c].status \in {"ok", "refused", "failed", "lost"}
  BY <1>2 DEF Sincere, Replies
<1>7. \A c \in Callers : IF pc[c] = "done" THEN answer[c].ok \in BOOLEAN ELSE answer[c] = None
  BY <1>2 DEF Told
<1> QED
  BY <1>1, <1>3, <1>4, <1>5, <1>6, <1>7 DEF TypeOK

LEMMA InvHeard ==
    ASSUME IInv
    PROVE  HeardAsAsked
<1> SUFFICES ASSUME NEW c \in Callers, pc[c] # "idle", ~apart[c], Countable(AsRead(ask[c])), ~Strays(c)
             PROVE  LET q == AsRead(ask[c])
                    IN  /\ \/ heard[c] = None
                           \/ heard[c] = AsRequest(q) /\ q.damage = "none" /\ ~Overruns(q)
                           \/ heard[c] = Malformed /\ (q.damage # "none" \/ Overruns(q))
                        /\ pc[c] = "done" \/ back[c] # <<>> => wire[c] = <<>> /\ stage[c] \in {"reading", "closed"}
  BY DEF HeardAsAsked
<1> DEFINE s == At(c)
<1>1. Holds(entries, s) /\ Vouched(s) /\ ~Astray(s)
  BY Fields DEF IInv, Vouched, Astray, Strays
<1>2. s.pc = pc[c] /\ s.stage = stage[c] /\ s.ask = ask[c] /\ s.wire = wire[c] /\ s.back = back[c] /\ s.heard = heard[c]
  BY Fields
<1> HIDE DEF s
<1>3. /\ Lock(entries, s) /\ Good(entries, View(s)) /\ Asked(s.ask) /\ s.pc \in {"written", "asked", "done"}
      /\ s.pc = "done" \/ s.back # <<>> => ~Overruns(AsRead(s.ask))
  BY <1>1, LockedIn
<1>4. s.pc = "done" \/ s.back # <<>> => s.wire = <<>> /\ s.stage \in {"reading", "closed"}
  BY <1>3 DEF Lock
<1>5. s.heard = None \/ HeardRight(s.ask, s.heard)
  BY <1>3, GoodHeard, ViewOf
<1>6. AsRead(ask[c]).damage = ask[c].damage
  <2> DEFINE q == ask[c]
             z == AsRead(q)
  <2>1. z = [channel |-> q.channel, task |-> q.task, model |-> z.model, items |-> z.items,
             option |-> q.option, damage |-> q.damage, cut |-> q.cut]
    BY <1>2, <1>3, ReadType
  <2> HIDE DEF z
  <2> QED
    BY <2>1 DEF z
<1> QED
  BY <1>2, <1>4, <1>5, <1>6 DEF HeardRight

LEMMA InvProbed ==
    ASSUME IInv
    PROVE  ProbeSuffices
<1> SUFFICES ASSUME NEW c \in Callers, reply[c] = EngineError
             PROVE  Model[heard[c].model].output = "static" \/ ShortPadding(heard[c].model, 1)
  BY DEF ProbeSuffices, ShortPadding
<1>1. reply[c] # None /\ reply[c].status = "failed"
  BY AnswersAreReplies
<1>2. Sincere(entries, heard[c], reply[c])
  BY <1>1, Fields DEF IInv, Holds, Served
<1> QED
  BY <1>1, <1>2 DEF Sincere

LEMMA InvOwn ==
    ASSUME IInv
    PROVE  OwnAnswers
<1>1. ASSUME NEW c \in Callers, answer[c] # None, ~apart[c], Countable(AsRead(ask[c]))
      PROVE  AnsweredOwn(AsRead(ask[c]), answer[c])
  <2> DEFINE s == At(c)
  <2>1. /\ Holds(entries, s) /\ s.answer = answer[c] /\ s.ask = ask[c] /\ s.apart = apart[c]
    BY Fields DEF IInv
  <2> HIDE DEF s
  <2>2. s.pc = "done"
    BY <1>1, <2>1 DEF Holds, Typed
  <2>3. Vouched(s)
    BY <1>1, <2>1, <2>2 DEF Vouched
  <2>4. CASE Astray(s)
    BY <2>1, <2>2, <2>3, <2>4, StrayIn DEF Stray
  <2>5. CASE ~Astray(s)
    <3>1. Good(entries, View(s)) /\ Phase(s) = "done"
      BY <2>1, <2>2, <2>3, <2>5, LockedIn DEF Phase
    <3> QED
      BY <2>1, <3>1, PhaseOf, ViewOf DEF IsDone
  <2> QED
    BY <2>4, <2>5
<1> QED
  BY <1>1 DEF OwnAnswers, AnsweredOwn

-----------------------------------------------------------------------------
\* The two channels.

\* A request is the same whichever way it came.
LEMMA SameRequest ==
    ASSUME NEW q, NEW r, q.task = r.task, q.model = r.model, q.items = r.items
    PROVE  /\ AsRequest(q) = AsRequest(r) /\ BodySize(q) = BodySize(r) /\ Own(q) = Own(r)
           /\ Ragged(q) <=> Ragged(r)
<1>1. Width(q) = Width(r)
  BY DEF Width
<1>2. AsRequest(q) = AsRequest(r)
  BY <1>1 DEF AsRequest
<1>3. Own(q) = Own(r)
  BY DEF Own
<1>4. Ragged(q) <=> Ragged(r)
  BY <1>1 DEF Ragged
<1> QED
  BY <1>2, <1>3, <1>4 DEF BodySize

\* What a plain request is answered over HTTP.
LEMMA PostedAnswer ==
    ASSUME NEW E, Registry(E), NEW s, IsDone(E, s), s.ask.channel = "http", Plain(s.ask), ~Skewed(s.ask.model),
           s.reply = None \/ s.reply.status \in {"ok", "refused"}
    PROVE  LET q == s.ask
           IN  IF WellFormedIn(E, q)
               THEN /\ s.answer.ok /\ ~Ragged(q) /\ AdmittedIn(E, AsRequest(q))
                    /\ IF q.task = "rerank" THEN AreTop(s.answer.rows, Own(q), None) ELSE s.answer.rows = Own(q)
               ELSE s.answer = Nothing
<1> DEFINE q == s.ask
<1>1. /\ Asked(q) /\ AnsweredOwn(AsRead(q), s.answer) /\ Told(s.answer) /\ s.reply # None /\ HasReply(E, s)
      /\ s.reply.status # "ok" => ~s.answer.ok
      /\ s.reply.status = "ok" => s.answer.ok
  BY DEF IsDone
<1>2. AsRead(q) = q
  BY DEF AsRead
<1>3. /\ q.option = None /\ Countable(q) /\ BodySize(q) <= BodyLimit
  BY DEF Plain
<1>4. ASSUME s.reply.status = "ok" PROVE WellFormedIn(E, q)
  BY <1>1, <1>4, OkIsAnswered DEF IsHeard
<1>5. ASSUME s.reply.status = "refused" PROVE ~WellFormedIn(E, q)
  <2>1. IsRefused(E, s)
    BY <1>1, <1>5 DEF HasReply, IsAnswered
  <2> QED
    BY <1>3, <2>1 DEF IsRefused
<1>6. CASE WellFormedIn(E, q)
  <2>1. s.reply.status = "ok"
    BY <1>1, <1>5, <1>6
  <2>2. s.answer.ok
    BY <1>1, <2>1
  <2>3. ~Ragged(q) /\ AdmittedIn(E, AsRequest(q))
    BY <1>1, <1>6, WellFormedTaken DEF Taken
  <2>4. CountableAnswer(q)
    BY DEF CountableAnswer
  <2>5. IF q.task = "rerank" THEN AreTop(s.answer.rows, Own(q), None) ELSE s.answer.rows = Own(q)
    BY <1>1, <1>2, <1>3, <2>2, <2>4 DEF AnsweredOwn
  <2> QED
    BY <1>6, <2>2, <2>3, <2>5
<1>7. CASE ~WellFormedIn(E, q)
  <2>1. s.answer = Nothing
    BY <1>1, <1>4, <1>7 DEF Told
  <2> QED
    BY <1>7, <2>1
<1> QED
  BY <1>6, <1>7

\* The values of a reply that fits a frame are counted by a u32.
LEMMA FittingReply ==
    ASSUME NEW r, Answerable(r), Len(EncodeResponse(r)) <= MaxFrame
    PROVE  Len(r.floats) < WordMod
<1> DEFINE k == Code(r.task)
           l == Len(r.floats)
           n == Len(EncodeResponse(r))
           h == HeadLen(k)
<1>1. k \in 0..2 /\ n = h + 2 * l
  BY ResponsePlaces
<1>2. l \in Nat
  BY DEF Answerable
<1>3. h \in Nat
  BY <1>1 DEF HeadLen
<1>4. WordMod \in Nat /\ MaxFrame \in Nat /\ MaxFrame < WordMod
  BY UnitsAreNumbers, WireAssumption
<1>5. n <= MaxFrame
  OBVIOUS
<1> HIDE DEF l, n, h
<1>6. l < WordMod
  BY <1>1, <1>2, <1>3, <1>4, <1>5
<1> QED
  BY <1>6 DEF l

\* What a plain request is answered over the binary channel.
LEMMA FramedAnswer ==
    ASSUME NEW E, Registry(E), NEW s, IsDone(E, s), s.ask.channel # "http", Room(E, s),
           s.reply = None \/ s.reply.status \in {"ok", "refused"}
    PROVE  LET z == AsRead(s.ask)
           IN  IF ~Ragged(z) /\ AdmittedIn(E, AsRequest(z))
               THEN s.answer.ok /\ s.answer.rows = Own(z)
               ELSE s.answer = Nothing
<1> DEFINE q == s.ask
           z == AsRead(q)
<1>1. /\ Asked(q) /\ AnsweredOwn(z, s.answer) /\ Told(s.answer)
      /\ s.reply = None => ~s.answer.ok /\ Ragged(z)
      /\ s.reply # None => /\ HasReply(E, s)
                           /\ s.reply.status # "ok" => ~s.answer.ok
                           /\ s.reply.status = "ok" => s.answer.ok
  BY DEF IsDone
<1>2. /\ Plain(z) /\ ~Skewed(z.model) /\ Countable(z) /\ z.damage = "none" /\ BodySize(z) <= MaxFrame
      /\ s.reply # None => Len(EncodeResponse(ResponseIn(E, s))) <= MaxFrame
  BY DEF Room, Plain
<1>3. z.damage = q.damage
  <2>1. z = [channel |-> q.channel, task |-> q.task, model |-> z.model, items |-> z.items,
             option |-> q.option, damage |-> q.damage, cut |-> q.cut]
    BY <1>1, ReadType
  <2> HIDE DEF z
  <2> QED
    BY <2>1
<1>4. ~Overruns(z)
  BY <1>1, <1>2, PlainSent
<1> HIDE DEF z
<1>5. CASE s.reply = None
  BY <1>1, <1>5 DEF Told, z
<1>6. CASE s.reply # None /\ s.reply.status = "ok"
  <2>1. s.answer.ok /\ HasReply(E, s)
    BY <1>1, <1>6
  <2>2. s.heard = AsRequest(z) /\ ~Ragged(z) /\ s.reply.rows = Own(z)
    BY <1>2, <1>6, <2>1, OwnReturned DEF z
  <2>3. AdmittedIn(E, AsRequest(z)) /\ Answerable(ResponseIn(E, s))
    <3>1. Taken(E, s.heard) /\ Returned(s.heard.model, ItemsIn(E, s.heard), s.reply.rows)
      BY <1>6, <2>1, OkIsAnswered
    <3> QED
      BY <1>6, <2>2, <3>1, ResponseAnswerable DEF Taken
  <2>4. CountableAnswer(z)
    <3> SUFFICES ASSUME z.channel = "socket", z.task = "embed" PROVE Len(FlattenSeq(Own(z))) < WordMod
      BY DEF CountableAnswer
    <3>1. Len(ResponseIn(E, s).floats) < WordMod
      BY <1>2, <1>6, <2>3, FittingReply
    <3>2. s.heard.task = "embed"
      BY <2>2 DEF AsRequest
    <3>3. ResponseIn(E, s).floats = FlattenSeq(s.reply.rows)
      BY <1>6, <2>1, <3>2, OkIsAnswered, ResponseAnswerable
    <3> QED
      BY <2>2, <3>1, <3>3
  <2>5. z.channel # "http"
    <3>1. LET y == AsRead(q)
          IN  y = [channel |-> q.channel, task |-> q.task, model |-> y.model, items |-> y.items,
                   option |-> q.option, damage |-> q.damage, cut |-> q.cut]
      BY <1>1, ReadType
    <3>2. z = [channel |-> q.channel, task |-> q.task, model |-> z.model, items |-> z.items,
               option |-> q.option, damage |-> q.damage, cut |-> q.cut]
      BY <3>1 DEF z
    <3> QED
      BY <3>2
  <2>6. s.answer.rows = Own(z)
    BY <1>1, <1>2, <2>1, <2>4, <2>5 DEF AnsweredOwn
  <2> QED
    BY <2>1, <2>2, <2>3, <2>6 DEF z
<1>7. CASE s.reply # None /\ s.reply.status = "refused"
  <2>1. s.answer = Nothing /\ HasReply(E, s)
    BY <1>1, <1>7 DEF Told
  <2>2. IsRefused(E, s)
    BY <1>7, <2>1 DEF HasReply, IsAnswered
  <2>3. HeardRight(q, s.heard) /\ ~AdmittedIn(E, s.heard)
    BY <2>2 DEF IsRefused
  <2>4. s.heard = AsRequest(z)
    BY <1>2, <1>3, <1>4, <2>3 DEF HeardRight, z
  <2> QED
    BY <2>1, <2>3, <2>4 DEF z
<1> QED
  BY <1>5, <1>6, <1>7

\* Over HTTP and over the binary channel the same requests are admitted.
LEMMA SameAdmitted ==
    ASSUME NEW E, Registry(E), NEW q, Asked(q), q.channel = "http", Plain(q),
           ~Ragged(q), AdmittedIn(E, AsRequest(q))
    PROVE  WellFormedIn(E, q)
<1>1. AsRead(q) = q
  BY DEF AsRead
<1>2. q.items # <<>> /\ q.option = None
  BY DEF Plain
<1>3. KnownIn(E, AsRequest(q)) /\ (AsRequest(q).task = "evaluate" => AsRequest(q).n = E[AsRequest(q).model].n)
  BY DEF AdmittedIn
<1>4. AsRequest(q).task = q.task /\ AsRequest(q).n = Width(q) /\ AsRequest(q).model = q.model
  BY DEF AsRequest
<1>5. q.task = "evaluate" => \A i \in DOMAIN q.items : Len(q.items[i]) = E[q.model].n
  BY <1>3, <1>4 DEF Ragged
<1> QED
  BY <1>2, <1>3, <1>5 DEF WellFormedIn


\* A plain request that has a connection of its own is done in step.
LEMMA DoneInStep ==
    ASSUME IInv, NEW c \in Callers, pc[c] = "done", ~apart[c], Plain(AsRead(ask[c]))
    PROVE  IsDone(entries, View(At(c)))
<1> DEFINE s == At(c)
<1>1. Holds(entries, s) /\ s.pc = "done" /\ s.ask = ask[c] /\ ~s.apart /\ Asked(s.ask)
  <2>1. Holds(entries, s) /\ s.pc = "done" /\ s.ask = ask[c] /\ ~s.apart
    BY Fields DEF IInv
  <2> HIDE DEF s
  <2> QED
    BY <2>1 DEF Holds, Placed
<1> HIDE DEF s
<1>2. Vouched(s)
  BY <1>1 DEF Vouched, Plain
<1>3. ~Overruns(AsRead(s.ask))
  <2>1. s.ask.channel = "http" => ~Overruns(AsRead(s.ask))
    BY <1>1, NotOverHttp
  <2>2. s.ask.channel # "http" => ~Overruns(AsRead(s.ask))
    BY <1>1, PlainSent
  <2> QED
    BY <2>1, <2>2
<1>4. Good(entries, View(s)) /\ Phase(s) = "done"
  BY <1>1, <1>2, <1>3, LockedIn DEF Astray, Phase
<1> QED
  BY <1>4, PhaseOf, ViewOf DEF s

LEMMA InvAgree ==
    ASSUME IInv
    PROVE  ChannelsAgree
<1> SUFFICES ASSUME NEW c \in Callers, NEW d \in Callers,
                    pc[c] = "done", pc[d] = "done", ~apart[d],
                    AsRead(ask[c]).channel = "http", AsRead(ask[d]).channel # "http",
                    <<AsRead(ask[c]).task, AsRead(ask[c]).model, AsRead(ask[c]).items>>
                        = <<AsRead(ask[d]).task, AsRead(ask[d]).model, AsRead(ask[d]).items>>,
                    Plain(AsRead(ask[c])), Plain(AsRead(ask[d])), ReplyFits(d),
                    ~Skewed(AsRead(ask[c]).model), Dimensioned(AsRead(ask[c])),
                    \A x \in {c, d} : reply[x] = None \/ reply[x].status \in {"ok", "refused"}
             PROVE  SameRows(AsRead(ask[c]), answer[c], answer[d])
  BY DEF ChannelsAgree
<1> DEFINE s == View(At(c))
           u == View(At(d))
           q == AsRead(ask[c])
           r == AsRead(ask[d])
           a == answer[c]
           b == answer[d]
<1>1. /\ s.ask = ask[c] /\ s.answer = a /\ s.reply = reply[c]
      /\ u.ask = ask[d] /\ u.answer = b /\ u.reply = reply[d] /\ u.heard = heard[d]
  BY Fields, ViewOf
<1>2. Asked(ask[c]) /\ Asked(ask[d]) /\ (ask[c].channel = "http" => ~apart[c])
  BY Fields DEF IInv, Holds, Placed
<1>3. Asked(s.ask) /\ Asked(u.ask)
  BY <1>1, <1>2
<1>4. s.ask.channel = "http" /\ u.ask.channel # "http" /\ q = s.ask /\ r = AsRead(u.ask)
  <2>1. ask[c].channel = "http"
    <3>1. AsRead(s.ask) = [channel |-> s.ask.channel, task |-> s.ask.task, model |-> AsRead(s.ask).model,
                           items |-> AsRead(s.ask).items, option |-> s.ask.option, damage |-> s.ask.damage,
                           cut |-> s.ask.cut]
      BY <1>3, ReadType
    <3> DEFINE y == AsRead(s.ask)
    <3>2. y = [channel |-> s.ask.channel, task |-> s.ask.task, model |-> y.model, items |-> y.items,
               option |-> s.ask.option, damage |-> s.ask.damage, cut |-> s.ask.cut]
      BY <3>1
    <3>3. y.channel = "http"
      BY <1>1
    <3> HIDE DEF y, s
    <3>4. y.channel = s.ask.channel
      BY <3>2
    <3> QED
      BY <1>1, <3>3, <3>4
  <2>2. ask[d].channel # "http"
    <3> SUFFICES ASSUME ask[d].channel = "http" PROVE FALSE
      OBVIOUS
    <3>1. AsRead(ask[d]) = ask[d]
      BY DEF AsRead
    <3> QED
      BY <3>1
  <2>3. q = ask[c]
    BY <2>1 DEF AsRead
  <2> QED
    BY <1>1, <2>1, <2>2, <2>3
<1>0. IsDone(entries, s) /\ IsDone(entries, u) /\ Registry(entries)
  <2>1. ~apart[c]
    BY <1>1, <1>2, <1>4
  <2> QED
    BY <2>1, DoneInStep DEF IInv
<1>5. q.task = r.task /\ q.model = r.model /\ q.items = r.items
  OBVIOUS
<1>6. /\ AsRequest(q) = AsRequest(r) /\ Own(q) = Own(r)
      /\ Ragged(q) <=> Ragged(r)
  <2> HIDE DEF q, r
  <2> QED
    BY <1>5, SameRequest
<1>7. Plain(q) /\ Plain(r) /\ ~Skewed(q.model)
  OBVIOUS
<1>8. Room(entries, u)
  <2>1. Response(d) = ResponseIn(entries, u)
    BY <1>1 DEF Response, ResponseIn
  <2>2. u.reply # None => Len(EncodeResponse(ResponseIn(entries, u))) <= MaxFrame
    BY <1>1, <2>1 DEF ReplyFits
  <2>3. ~Skewed(r.model)
    BY <1>5, <1>7
  <2>4. r.task = "embed" /\ r.model \in DOMAIN entries => entries[r.model].dim # 0
    <3>1. Dimensioned(q)
      OBVIOUS
    <3> HIDE DEF q, r
    <3> QED
      BY <1>5, <3>1 DEF Dimensioned
  <2> HIDE DEF u, q, r
  <2> QED
    BY <1>4, <1>7, <2>2, <2>3, <2>4 DEF Room
<1>9. /\ s.reply = None \/ s.reply.status \in {"ok", "refused"}
      /\ u.reply = None \/ u.reply.status \in {"ok", "refused"}
  BY <1>1
<1> HIDE DEF s, u, q, r
<1>10. IF WellFormedIn(entries, q)
       THEN /\ a.ok /\ ~Ragged(q) /\ AdmittedIn(entries, AsRequest(q))
            /\ IF q.task = "rerank" THEN AreTop(a.rows, Own(q), None) ELSE a.rows = Own(q)
       ELSE a = Nothing
  BY <1>0, <1>1, <1>4, <1>7, <1>9, PostedAnswer
<1>11. IF ~Ragged(r) /\ AdmittedIn(entries, AsRequest(r)) THEN b.ok /\ b.rows = Own(r) ELSE b = Nothing
  BY <1>0, <1>1, <1>4, <1>8, <1>9, FramedAnswer
<1>12. WellFormedIn(entries, q) <=> ~Ragged(q) /\ AdmittedIn(entries, AsRequest(q))
  BY <1>0, <1>3, <1>4, <1>7, <1>10, SameAdmitted
<1>13. /\ a.ok \in BOOLEAN /\ b.ok \in BOOLEAN
  BY <1>0, <1>1 DEF IsDone, Told
<1>14. SameRows(q, a, b)
  <2>1. CASE WellFormedIn(entries, q)
    <3>1. a.ok /\ b.ok /\ b.rows = Own(q)
      BY <1>6, <1>10, <1>11, <1>12, <2>1
    <3>2. CASE q.task = "rerank"
      <4>1. AreTop(a.rows, Own(q), None)
        BY <1>10, <2>1, <3>2
      <4>2. Len(a.rows) = Len(Own(q)) /\ \A i \in DOMAIN a.rows : a.rows[i].score = Own(q)[a.rows[i].index]
        BY <4>1 DEF AreTop
      <4> QED
        BY <1>13, <3>1, <3>2, <4>2 DEF SameRows
    <3>3. CASE q.task # "rerank"
      BY <1>10, <1>13, <2>1, <3>1, <3>3 DEF SameRows
    <3> QED
      BY <3>2, <3>3
  <2>2. CASE ~WellFormedIn(entries, q)
    <3>1. a = Nothing /\ b = Nothing
      BY <1>6, <1>10, <1>11, <1>12, <2>2
    <3>2. DOMAIN Nothing.rows = {}
      BY DEF Nothing
    <3> QED
      BY <1>13, <3>1, <3>2 DEF SameRows
  <2> QED
    BY <2>1, <2>2
<1> QED
  BY <1>14 DEF q, a, b

-----------------------------------------------------------------------------
\* The theorems of the specification.

THEOREM InvHolds == Spec => []IInv
<1>1. Init => IInv
  BY InitHolds
<1>2. IInv /\ [Next]_vars => IInv'
  BY NextKeeps
<1> QED
  BY <1>1, <1>2, PTL DEF Spec

\* The registry is one of the configured ones, the phases are phases, what a
\* connection carries either way is bytes, and a caller is answered when it is
\* done and not before: each handler of the daemon, and each read of the client,
\* leaves what the next one can take.
THEOREM TypeHolds == Spec => []TypeOK
BY InvHolds, InvType, PTL

\* The first thing the daemon hears of a request that no leftovers precede is
\* what was asked, or nothing it could serve: whatever texts, pairs or rows it
\* holds, through the RowBinary block and the frame, cut short, damaged, or
\* longer than the length prefix can say.  A request that fits its prefix is
\* also the only thing heard of it: the loop of handle() finds nothing behind
\* it.  One that does not is refused, and its bytes behind the prefix are read
\* as frames, of which nothing is claimed
\* (bridge-client main.rs:206-338, protocol lib.rs:135-180, uds.rs:48-72).
THEOREM HeardHolds == Spec => []HeardAsAsked
BY InvHolds, InvHeard, PTL

\* The one row load() probes a model with (onnx.rs:247) shows what any batch
\* does: a request that process() admits fails in the engine only for a graph
\* of one row or padding shorter than its texts.
THEOREM ProbeHolds == Spec => []ProbeSuffices
BY InvHolds, InvProbed, PTL

\* Every answer is what the model says of the caller's own items taken alone,
\* in their order: whatever other requests shared the batch, through either
\* format, and however the batch was padded unless the model's own padding is
\* Skewed, so short that rows run into one another; the rows of a frame that
\* wrapped its prefix are none (dispatcher.rs:330-390, onnx.rs:177-297,
\* http.rs:200-259, protocol lib.rs:182-245, bridge-client main.rs:219-358).
THEOREM OwnHolds == Spec => []OwnAnswers
BY InvHolds, InvOwn, PTL

\* HTTP and the binary channel are one service: they admit the same plain
\* requests, the empty ones aside, and answer them with the same values
\* (http.rs:103-315, uds.rs:48-149).
THEOREM AgreeHolds == Spec => []ChannelsAgree
BY InvHolds, InvAgree, PTL
====
