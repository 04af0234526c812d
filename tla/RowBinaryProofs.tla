--------------------------- MODULE RowBinaryProofs ---------------------------
(***************************************************************************)
(* The two formats a row crosses, for any contents and lengths and for any *)
(* width of a unit: a frame of protocol::wire and a block or a column of   *)
(* RowBinary are read back as what was written, and what is cut short is   *)
(* refused.                                                                *)
(*                                                                         *)
(* Each kind of piece has two lemmas.  "...Read" says that a piece that    *)
(* stands in a buffer, whatever is around it, is taken as the value it was *)
(* written for and leaves the cursor behind it; a sequence of pieces goes  *)
(* by induction on its length.  "...Follows" says what any read does, of a *)
(* buffer that holds anything: it goes forward, never past the end, and    *)
(* reads the same of every buffer that begins in the same way.             *)
(***************************************************************************)
EXTENDS RowBinary, DataProofs

-----------------------------------------------------------------------------
\* Cursors.

\* A piece stands in a buffer at a place.
Stands(p, i, s) ==
    /\ i \in Nat \ {0} /\ i + Len(s) - 1 <= Len(p)
    /\ \A k \in 1..Len(s) : p[i + k - 1] = s[k]

Values  == Nat \cup Seq(Nat)
Cursors == [at : Nat, got : Seq(Values)]

LEMMA StandsConcat ==
    ASSUME NEW p \in Seq(Nat), NEW i, NEW a \in Seq(Nat), NEW b \in Seq(Nat), Stands(p, i, a \o b)
    PROVE  Stands(p, i, a) /\ Stands(p, i + Len(a), b)
<1> DEFINE s == a \o b
<1>1. /\ Len(a) \in Nat /\ Len(b) \in Nat /\ Len(s) = Len(a) + Len(b)
      /\ \A k \in 1..Len(a) : s[k] = a[k]
      /\ \A k \in 1..Len(b) : s[Len(a) + k] = b[k]
  OBVIOUS
<1>2. Stands(p, i, s)
  OBVIOUS
<1> HIDE DEF s
<1>3. /\ i \in Nat \ {0} /\ i + Len(a) + Len(b) - 1 <= Len(p)
      /\ \A k \in 1..(Len(a) + Len(b)) : p[i + k - 1] = s[k]
  BY <1>1, <1>2 DEF Stands
<1>4. Stands(p, i, a)
  <2>1. \A k \in 1..Len(a) : k \in 1..(Len(a) + Len(b))
    BY <1>1
  <2>2. \A k \in 1..Len(a) : p[i + k - 1] = a[k]
    BY <1>1, <1>3, <2>1
  <2>3. i + Len(a) - 1 <= Len(p)
    BY <1>1, <1>3
  <2> QED
    BY <1>3, <2>2, <2>3 DEF Stands
<1>5. ASSUME NEW k \in 1..Len(b) PROVE p[i + Len(a) + k - 1] = b[k]
  <2>1. Len(a) + k \in 1..(Len(a) + Len(b)) /\ i + (Len(a) + k) - 1 = i + Len(a) + k - 1
    BY <1>1, <1>3
  <2> QED
    BY <1>1, <1>3, <2>1
<1> QED
  BY <1>1, <1>3, <1>4, <1>5 DEF Stands

LEMMA StandsWhole ==
    ASSUME NEW p \in Seq(Nat)
    PROVE  Stands(p, 1, p)
BY DEF Stands

LEMMA UnitsAreNumbers ==
    /\ Base \in Nat /\ Base >= 4 /\ WordMod \in Nat /\ WordMod > Base /\ WordMod = Base * Base
    /\ Units \subseteq Nat /\ Words \subseteq Nat
    /\ \A n \in Nat : n \in Units <=> n < Base
    /\ \A n \in Nat : n \in Words <=> n < WordMod
<1>1. Base \in Nat /\ Base >= 4
  BY BaseAssumption
<1>2. Base * Base > Base
  BY <1>1
<1> QED
  BY <1>1, <1>2 DEF WordMod, Units, Words

LEMMA WordType ==
    ASSUME NEW n \in Nat
    PROVE  /\ Word(n) \in Seq(Units) /\ Word(n) \in Seq(Nat) /\ Len(Word(n)) = 2
           /\ Word(n)[1] + Base * Word(n)[2] = n % WordMod
           /\ n < WordMod => Word(n)[1] + Base * Word(n)[2] = n
<1> DEFINE x == n % Base
           y == (n \div Base) % Base
<1>1. Base \in Nat \ {0} /\ Base \in Nat /\ Base >= 2 /\ WordMod = Base * Base /\ WordMod \in Nat \ {0}
  BY UnitsAreNumbers
<1>2. x \in 0..(Base - 1) /\ n \div Base \in Nat
  BY <1>1, Division
<1>3. y \in 0..(Base - 1)
  BY <1>1, <1>2, Division
<1>4. x + Base * y = n % WordMod
  BY <1>1, TwoDigits
<1>5. n < WordMod => n % WordMod = n
  BY <1>1, DivisionSmall
<1>6. Word(n) = <<x, y>>
  BY DEF Word
<1> HIDE DEF x, y
<1>7. x \in Units /\ y \in Units /\ x \in Nat /\ y \in Nat
  BY <1>1, <1>2, <1>3 DEF Units
<1> QED
  BY <1>4, <1>5, <1>6, <1>7

\* Every read of a buffer either breaks or moves ahead, and leaves a cursor.
LEMMA BrokenType == Broken \in Cursors /\ Start \in Cursors
BY DEF Broken, Start, Cursors

LEMMA AdvanceType ==
    ASSUME NEW c \in Cursors, NEW n \in Nat, NEW v \in Values
    PROVE  /\ Advance(c, n, v) \in Cursors
           /\ Advance(c, n, v).at = c.at + n
           /\ Advance(c, n, v).got = Append(c.got, v)
BY DEF Advance, Cursors

LEMMA UnitRead ==
    ASSUME NEW p \in Seq(Nat), NEW c \in Cursors
    PROVE  /\ TakeUnit(p, c) \in Cursors
           /\ \A x \in Nat : Stands(p, c.at, <<x>>) => TakeUnit(p, c) = Advance(c, 1, x)
<1>1. CASE Has(p, c, 1)
  <2>1. c.at \in 1..Len(p) /\ p[c.at] \in Nat /\ TakeUnit(p, c) = Advance(c, 1, p[c.at])
    BY <1>1 DEF Has, TakeUnit, Cursors
  <2>2. Advance(c, 1, p[c.at]) \in Cursors
    BY <2>1, AdvanceType DEF Values
  <2>3. ASSUME NEW x \in Nat, Stands(p, c.at, <<x>>) PROVE x = p[c.at]
    <3>1. Len(<<x>>) = 1 /\ <<x>>[1] = x /\ 1 \in 1..1 /\ c.at + 1 - 1 = c.at
      BY <2>1
    <3> QED
      BY <2>3, <3>1 DEF Stands
  <2> QED
    BY <2>1, <2>2, <2>3
<1>2. CASE ~Has(p, c, 1)
  <2>1. TakeUnit(p, c) = Broken
    BY <1>2 DEF TakeUnit
  <2>2. \A x : ~Stands(p, c.at, <<x>>)
    BY <1>2 DEF Has, Stands, Cursors
  <2> QED
    BY <2>1, <2>2, BrokenType
<1> QED
  BY <1>1, <1>2

LEMMA WordRead ==
    ASSUME NEW p \in Seq(Nat), NEW c \in Cursors
    PROVE  /\ TakeWord(p, c) \in Cursors
           /\ TakeWord(p, c).at # 0 => Last(TakeWord(p, c).got) \in Nat
           /\ \A n \in Nat : n < WordMod /\ Stands(p, c.at, Word(n)) => TakeWord(p, c) = Advance(c, 2, n)
<1>1. CASE Has(p, c, 2)
  <2>1. c.at \in 1..Len(p) /\ c.at + 1 \in 1..Len(p) /\ TakeWord(p, c) = Advance(c, 2, WordAt(p, c.at))
    BY <1>1 DEF Has, TakeWord, Cursors
  <2>2. p[c.at] \in Nat /\ p[c.at + 1] \in Nat /\ Base \in Nat
    BY <2>1, UnitsAreNumbers
  <2>3. WordAt(p, c.at) \in Nat
    <3> DEFINE x == p[c.at]
               y == p[c.at + 1]
    <3>1. x \in Nat /\ y \in Nat /\ Base \in Nat /\ WordAt(p, c.at) = x + Base * y
      BY <2>2 DEF WordAt
    <3> HIDE DEF x, y
    <3> QED
      BY <3>1
  <2>4. ASSUME NEW n \in Nat, n < WordMod, Stands(p, c.at, Word(n)) PROVE WordAt(p, c.at) = n
    <3>1. Len(Word(n)) = 2 /\ Word(n)[1] + Base * Word(n)[2] = n
      BY <2>4, WordType
    <3>2. p[c.at + 1 - 1] = Word(n)[1] /\ p[c.at + 2 - 1] = Word(n)[2]
      BY <2>4, <3>1 DEF Stands
    <3>3. c.at + 1 - 1 = c.at /\ c.at + 2 - 1 = c.at + 1
      BY <2>1
    <3> QED
      BY <3>1, <3>2, <3>3 DEF WordAt
  <2>5. TakeWord(p, c) \in Cursors /\ TakeWord(p, c).got = Append(c.got, WordAt(p, c.at))
    <3> DEFINE v == WordAt(p, c.at)
    <3>1. v \in Values
      BY <2>3 DEF Values
    <3> HIDE DEF v
    <3>2. Advance(c, 2, v) \in Cursors /\ Advance(c, 2, v).got = Append(c.got, v)
      BY <3>1, AdvanceType
    <3> QED
      BY <2>1, <3>2 DEF v
  <2>6. Last(Append(c.got, WordAt(p, c.at))) = WordAt(p, c.at)
    BY <2>3 DEF Last, Cursors, Values
  <2> QED
    BY <2>1, <2>3, <2>4, <2>5, <2>6
<1>2. CASE ~Has(p, c, 2)
  <2>1. TakeWord(p, c) = Broken
    BY <1>2 DEF TakeWord
  <2>2. ASSUME NEW n \in Nat PROVE ~Stands(p, c.at, Word(n))
    <3>1. Len(Word(n)) = 2
      BY WordType
    <3> QED
      BY <1>2, <3>1 DEF Has, Stands, Cursors
  <2> QED
    BY <2>1, <2>2, BrokenType DEF Broken
<1> QED
  BY <1>1, <1>2
LEMMA UnitsRead ==
    ASSUME NEW p \in Seq(Nat), NEW c \in Cursors, NEW n \in Nat
    PROVE  /\ TakeUnits(p, c, n) \in Cursors
           /\ TakeUnits(p, c, n).at # 0 =>
                 /\ TakeUnits(p, c, n) = Advance(c, n, SubSeq(p, c.at, c.at + n - 1))
                 /\ SubSeq(p, c.at, c.at + n - 1) \in Seq(Nat)
                 /\ p \in Seq(Units) => SubSeq(p, c.at, c.at + n - 1) \in Seq(Units)
           /\ \A s \in Seq(Nat) : Len(s) = n /\ Stands(p, c.at, s) => TakeUnits(p, c, n) = Advance(c, n, s)
<1>1. CASE Has(p, c, n)
  <2> DEFINE i == c.at
             s == SubSeq(p, i, i + n - 1)
  <2>1. i \in Nat \ {0} /\ i + n - 1 <= Len(p) /\ TakeUnits(p, c, n) = Advance(c, n, s) /\ Len(p) \in Nat
    BY <1>1 DEF Has, TakeUnits, Cursors
  <2> HIDE DEF i
  <2>2. s \in Seq(Nat) /\ Len(s) = n /\ \A k \in 1..n : s[k] = p[i + k - 1]
    <3> DEFINE j == i + n - 1
    <3>1. i \in Int /\ j \in Int /\ j - i + 1 = n /\ \A k \in i..j : p[k] \in Nat
      BY <2>1
    <3>2. (IF i <= j THEN j - i + 1 ELSE 0) = n
      BY <2>1
    <3> HIDE DEF j
    <3>3. /\ SubSeq(p, i, j) \in Seq(Nat) /\ Len(SubSeq(p, i, j)) = n
          /\ \A k \in 1..(j - i + 1) : SubSeq(p, i, j)[k] = p[i + k - 1]
      BY <3>1, <3>2, SubSeqProperties
    <3> QED
      BY <3>1, <3>3 DEF s, j
  <2>6. p \in Seq(Units) => s \in Seq(Units)
    <3> SUFFICES ASSUME p \in Seq(Units) PROVE s \in Seq(Units)
      OBVIOUS
    <3> DEFINE j == i + n - 1
    <3>1. i \in Int /\ j \in Int /\ \A k \in i..j : p[k] \in Units
      BY <2>1
    <3> HIDE DEF j
    <3>2. SubSeq(p, i, j) \in Seq(Units)
      BY <3>1, SubSeqProperties
    <3> QED
      BY <3>2 DEF s, j
  <2> HIDE DEF s
  <2>3. s \in Values
    BY <2>2 DEF Values
  <2>4. Advance(c, n, s) \in Cursors
    BY <2>3, AdvanceType
  <2>5. ASSUME NEW t \in Seq(Nat), Len(t) = n, Stands(p, i, t) PROVE t = s
    <3>1. \A k \in 1..n : t[k] = s[k]
      BY <2>2, <2>5 DEF Stands
    <3> QED
      BY <2>2, <2>5, <3>1
  <2> QED
    BY <2>1, <2>2, <2>4, <2>5, <2>6 DEF i, s
<1>2. CASE ~Has(p, c, n)
  <2>1. TakeUnits(p, c, n) = Broken
    BY <1>2 DEF TakeUnits
  <2>2. \A s : Len(s) = n => ~Stands(p, c.at, s)
    BY <1>2 DEF Has, Stands, Cursors
  <2> QED
    BY <2>1, <2>2, BrokenType DEF Broken
<1> QED
  BY <1>1, <1>2

LEMMA FloatsType ==
    ASSUME NEW vs \in Seq(Nat)
    PROVE  /\ Floats(vs) \in Seq(Nat) /\ Floats(vs) \in Seq(Units) /\ Len(Floats(vs)) = 2 * Len(vs)
           /\ \A i \in 1..Len(vs) : /\ Floats(vs)[2 * i - 1] = Word(vs[i])[1]
                                    /\ Floats(vs)[2 * i] = Word(vs[i])[2]
<1> DEFINE ws == [i \in 1..Len(vs) |-> Word(vs[i])]
<1>1. Len(vs) \in Nat /\ DOMAIN vs = 1..Len(vs) /\ \A i \in 1..Len(vs) : vs[i] \in Nat
  OBVIOUS
<1>2. \A i \in 1..Len(vs) : Word(vs[i]) \in Seq(Units) /\ Len(Word(vs[i])) = 2
  BY <1>1, WordType
<1>3. Floats(vs) = FlattenSeq(ws)
  BY <1>1 DEF Floats
<1>4. ws \in Seq(Seq(Units)) /\ Len(ws) = Len(vs) /\ \A i \in 1..Len(vs) : ws[i] = Word(vs[i])
  BY <1>1, <1>2
<1> HIDE DEF ws
<1>5. FlattenSeq(ws) \in Seq(Units)
  BY <1>4, FlattenType
<1>6. OfWidth(ws, 2)
  BY <1>2, <1>4 DEF OfWidth
<1>7. Len(FlattenSeq(ws)) = Len(ws) * 2
  BY <1>4, <1>6, FlattenEqualLength
<1>8. FlattenSeq(ws) \in Seq(Nat)
  BY <1>5, UnitsAreNumbers, WiderSeq
<1>9. ASSUME NEW i \in 1..Len(vs)
      PROVE  FlattenSeq(ws)[2 * i - 1] = ws[i][1] /\ FlattenSeq(ws)[2 * i] = ws[i][2]
  <2>1. (i - 1) * 2 + 1 = 2 * i - 1 /\ (i - 1) * 2 + 2 = 2 * i /\ i \in 1..Len(ws)
    BY <1>4
  <2>2. \A k \in 1..2 : FlattenSeq(ws)[(i - 1) * 2 + k] = ws[i][k]
    <3>1. RowStands(ws, 2, i)
      BY <1>4, <1>6, <2>1, FlattenRow
    <3> QED
      BY <3>1 DEF RowStands
  <2> QED
    BY <2>1, <2>2
<1>10. Len(ws) * 2 = 2 * Len(vs)
  BY <1>1, <1>4
<1>11. Len(FlattenSeq(ws)) = 2 * Len(vs)
  BY <1>7, <1>10
<1>12. \A i \in 1..Len(vs) : /\ FlattenSeq(ws)[2 * i - 1] = Word(vs[i])[1]
                           /\ FlattenSeq(ws)[2 * i] = Word(vs[i])[2]
  BY <1>4, <1>9
<1> QED
  BY <1>3, <1>5, <1>8, <1>11, <1>12

\* What a read of n floats leaves.
FloatsAt(p, i, n) == [k \in 1..n |-> WordAt(p, i + 2 * k - 2)]

LEMMA FloatsRead ==
    ASSUME NEW p \in Seq(Nat), NEW c \in Cursors, NEW n \in Nat
    PROVE  /\ TakeFloats(p, c, n) \in Cursors
           /\ TakeFloats(p, c, n).at # 0 =>
                 TakeFloats(p, c, n) = Advance(c, 2 * n, FloatsAt(p, c.at, n))
                 /\ FloatsAt(p, c.at, n) \in Seq(Nat) /\ Len(FloatsAt(p, c.at, n)) = n
           /\ \A vs \in Seq(Words) :
                 Len(vs) = n /\ Stands(p, c.at, Floats(vs)) => TakeFloats(p, c, n) = Advance(c, 2 * n, vs)
<1>1. CASE Has(p, c, 2 * n)
  <2> DEFINE i == c.at
             s == FloatsAt(p, i, n)
  <2>1. i \in Nat \ {0} /\ i + 2 * n - 1 <= Len(p) /\ Len(p) \in Nat
        /\ TakeFloats(p, c, n) = Advance(c, 2 * n, s)
    BY <1>1 DEF Has, TakeFloats, Cursors, FloatsAt
  <2> HIDE DEF i
  <2>2. ASSUME NEW k \in 1..n PROVE WordAt(p, i + 2 * k - 2) \in Nat
    <3> DEFINE j == i + 2 * k - 2
               x == p[j]
               y == p[j + 1]
    <3>1. x \in Nat /\ y \in Nat /\ Base \in Nat /\ WordAt(p, j) = x + Base * y
      BY <2>1, UnitsAreNumbers DEF WordAt
    <3> HIDE DEF x, y
    <3>2. x + Base * y \in Nat
      BY <3>1
    <3> QED
      BY <3>1, <3>2
  <2>3. s \in Seq(Nat) /\ Len(s) = n /\ \A k \in 1..n : s[k] = WordAt(p, i + 2 * k - 2)
    BY <2>2 DEF FloatsAt
  <2> HIDE DEF s
  <2>4. s \in Values /\ 2 * n \in Nat
    BY <2>3 DEF Values
  <2>5. Advance(c, 2 * n, s) \in Cursors
    BY <2>4, AdvanceType
  <2>6. ASSUME NEW vs \in Seq(Words), Len(vs) = n, Stands(p, i, Floats(vs)) PROVE vs = s
    <3>1. vs \in Seq(Nat)
      BY UnitsAreNumbers, WiderSeq
    <3>2. ASSUME NEW k \in 1..n PROVE vs[k] = s[k]
      <4>1. vs[k] \in Nat /\ vs[k] < WordMod
        BY <2>6, <3>1, UnitsAreNumbers
      <4>2. Len(Floats(vs)) = 2 * n /\ Floats(vs)[2 * k - 1] = Word(vs[k])[1] /\ Floats(vs)[2 * k] = Word(vs[k])[2]
        BY <2>6, <3>1, FloatsType
      <4>3. 2 * k - 1 \in 1..(2 * n) /\ 2 * k \in 1..(2 * n)
        BY <2>1
      <4>4. p[i + (2 * k - 1) - 1] = Word(vs[k])[1] /\ p[i + 2 * k - 1] = Word(vs[k])[2]
        BY <2>6, <4>2, <4>3 DEF Stands
      <4>5. i + (2 * k - 1) - 1 = i + 2 * k - 2 /\ i + 2 * k - 1 = (i + 2 * k - 2) + 1
        BY <2>1
      <4>6. WordAt(p, i + 2 * k - 2) = vs[k]
        BY <4>1, <4>4, <4>5, WordType DEF WordAt
      <4> QED
        BY <2>3, <4>6
    <3> QED
      BY <2>3, <2>6, <3>1, <3>2
  <2> QED
    BY <2>1, <2>3, <2>5, <2>6 DEF i, s
<1>2. CASE ~Has(p, c, 2 * n)
  <2>1. TakeFloats(p, c, n) = Broken
    BY <1>2 DEF TakeFloats
  <2>2. ASSUME NEW vs \in Seq(Words), Len(vs) = n PROVE ~Stands(p, c.at, Floats(vs))
    <3>1. vs \in Seq(Nat)
      BY UnitsAreNumbers, WiderSeq
    <3>2. Len(Floats(vs)) = 2 * n
      BY <2>2, <3>1, FloatsType
    <3> QED
      BY <1>2, <3>2 DEF Has, Stands, Cursors
  <2> QED
    BY <2>1, <2>2, BrokenType DEF Broken
<1> QED
  BY <1>1, <1>2

-----------------------------------------------------------------------------
\* A read that succeeds on the beginning of a buffer goes the same way on all
\* of it.

Begins(p, w) == Len(p) <= Len(w) /\ \A k \in 1..Len(p) : w[k] = p[k]

\* d is where a read of p from c may leave off.
Follows(p, c, d) ==
    /\ d \in Cursors
    /\ d = Broken \/ (c.at # 0 /\ d.at # 0 /\ c.at <= d.at /\ d.at <= Len(p) + 1)

LEMMA FollowsTransitive ==
    ASSUME NEW p \in Seq(Nat), NEW c \in Cursors, NEW d, NEW e, Follows(p, c, d), Follows(p, d, e)
    PROVE  Follows(p, c, e)
BY DEF Follows, Broken, Cursors

LEMMA AdvanceFollows ==
    ASSUME NEW p \in Seq(Nat), NEW c \in Cursors, NEW n \in Nat, NEW v \in Values, Has(p, c, n)
    PROVE  Follows(p, c, Advance(c, n, v)) /\ Advance(c, n, v).at # 0
<1> DEFINE d == Advance(c, n, v)
<1>1. c.at \in Nat /\ c.at # 0 /\ c.at + n - 1 <= Len(p) /\ Len(p) \in Nat
  BY DEF Has, Cursors
<1>2. d \in Cursors /\ d.at = c.at + n
  BY AdvanceType
<1> HIDE DEF d
<1>3. d.at # 0 /\ c.at <= d.at /\ d.at <= Len(p) + 1
  BY <1>1, <1>2
<1> QED
  BY <1>1, <1>2, <1>3 DEF Follows, d

LEMMA BrokenFollows ==
    ASSUME NEW p, NEW c
    PROVE  Follows(p, c, Broken) /\ Broken.at = 0
BY BrokenType DEF Follows, Broken

LEMMA HasMore ==
    ASSUME NEW p \in Seq(Nat), NEW w \in Seq(Nat), Begins(p, w), NEW c \in Cursors, NEW n \in Nat, Has(p, c, n)
    PROVE  Has(w, c, n)
BY DEF Has, Begins, Cursors

LEMMA UnitFollows ==
    ASSUME NEW p \in Seq(Nat), NEW c \in Cursors
    PROVE  /\ Follows(p, c, TakeUnit(p, c))
           /\ TakeUnit(p, c).at # 0 =>
                 /\ c.at \in 1..Len(p) /\ TakeUnit(p, c) = Advance(c, 1, p[c.at])
                 /\ \A w \in Seq(Nat) : Begins(p, w) => TakeUnit(w, c) = TakeUnit(p, c)
<1>1. CASE Has(p, c, 1)
  <2>1. c.at \in 1..Len(p) /\ p[c.at] \in Nat /\ TakeUnit(p, c) = Advance(c, 1, p[c.at])
    BY <1>1 DEF Has, TakeUnit, Cursors
  <2>2. p[c.at] \in Values
    BY <2>1 DEF Values
  <2>3. Follows(p, c, Advance(c, 1, p[c.at]))
    BY <1>1, <2>2, AdvanceFollows
  <2>4. ASSUME NEW w \in Seq(Nat), Begins(p, w) PROVE TakeUnit(w, c) = Advance(c, 1, p[c.at])
    <3>1. Has(w, c, 1) /\ w[c.at] = p[c.at]
      BY <1>1, <2>1, <2>4, HasMore DEF Begins
    <3> QED
      BY <3>1 DEF TakeUnit
  <2> QED
    BY <2>1, <2>3, <2>4
<1>2. CASE ~Has(p, c, 1)
  BY <1>2, BrokenFollows DEF TakeUnit
<1> QED
  BY <1>1, <1>2

LEMMA WordFollows ==
    ASSUME NEW p \in Seq(Nat), NEW c \in Cursors
    PROVE  /\ Follows(p, c, TakeWord(p, c))
           /\ TakeWord(p, c).at # 0 =>
                 /\ c.at # 0 /\ \E n \in Nat : TakeWord(p, c) = Advance(c, 2, n)
                 /\ \A w \in Seq(Nat) : Begins(p, w) => TakeWord(w, c) = TakeWord(p, c)
<1>1. CASE Has(p, c, 2)
  <2> DEFINE v == WordAt(p, c.at)
  <2>1. c.at \in 1..Len(p) /\ c.at + 1 \in 1..Len(p) /\ TakeWord(p, c) = Advance(c, 2, v)
    BY <1>1 DEF Has, TakeWord, Cursors
  <2>2. v \in Nat
    <3> DEFINE x == p[c.at]
               y == p[c.at + 1]
    <3>1. x \in Nat /\ y \in Nat /\ Base \in Nat
      BY <2>1, UnitsAreNumbers
    <3>2. WordAt(p, c.at) = x + Base * y
      BY DEF WordAt
    <3> HIDE DEF x, y
    <3> QED
      BY <3>1, <3>2
  <2>3. ASSUME NEW w \in Seq(Nat), Begins(p, w) PROVE TakeWord(w, c) = Advance(c, 2, v)
    <3>1. Has(w, c, 2) /\ w[c.at] = p[c.at] /\ w[c.at + 1] = p[c.at + 1]
      BY <1>1, <2>1, <2>3, HasMore DEF Begins
    <3> QED
      BY <3>1 DEF TakeWord, WordAt
  <2> HIDE DEF v
  <2>4. Follows(p, c, Advance(c, 2, v))
    BY <1>1, <2>2, AdvanceFollows DEF Values
  <2> QED
    BY <2>1, <2>2, <2>3, <2>4
<1>2. CASE ~Has(p, c, 2)
  BY <1>2, BrokenFollows DEF TakeWord
<1> QED
  BY <1>1, <1>2

LEMMA UnitsFollow ==
    ASSUME NEW p \in Seq(Nat), NEW c \in Cursors, NEW n \in Nat
    PROVE  /\ Follows(p, c, TakeUnits(p, c, n))
           /\ TakeUnits(p, c, n).at # 0 =>
                 /\ c.at # 0
                 /\ \A w \in Seq(Nat) : Begins(p, w) => TakeUnits(w, c, n) = TakeUnits(p, c, n)
<1>1. CASE Has(p, c, n)
  <2> DEFINE s == SubSeq(p, c.at, c.at + n - 1)
  <2>1. c.at \in Nat \ {0} /\ c.at + n - 1 <= Len(p) /\ TakeUnits(p, c, n) = Advance(c, n, s)
    BY <1>1 DEF Has, TakeUnits, Cursors
  <2>2. s \in Seq(Nat)
    BY <2>1
  <2>3. ASSUME NEW w \in Seq(Nat), Begins(p, w) PROVE TakeUnits(w, c, n) = Advance(c, n, s)
    <3>1. Has(w, c, n) /\ \A k \in 1..Len(p) : w[k] = p[k]
      BY <1>1, <2>3, HasMore DEF Begins
    <3>2. SubSeq(w, c.at, c.at + n - 1) = s
      <4> DEFINE i == c.at
      <4>1. i \in Nat \ {0} /\ i + n - 1 <= Len(p) /\ Len(p) <= Len(w)
        BY <2>1, <2>3 DEF Begins
      <4> HIDE DEF i
      <4>2. SubSeq(w, i, i + n - 1) = SubSeq(p, i, i + n - 1)
        BY <3>1, <4>1
      <4> QED
        BY <4>2 DEF i
    <3> QED
      BY <3>1, <3>2 DEF TakeUnits
  <2> HIDE DEF s
  <2>4. s \in Values
    BY <2>2 DEF Values
  <2>5. Follows(p, c, Advance(c, n, s))
    BY <1>1, <2>4, AdvanceFollows
  <2> QED
    BY <2>1, <2>3, <2>5
<1>2. CASE ~Has(p, c, n)
  BY <1>2, BrokenFollows DEF TakeUnits
<1> QED
  BY <1>1, <1>2

LEMMA FloatsFollow ==
    ASSUME NEW p \in Seq(Nat), NEW c \in Cursors, NEW n \in Nat
    PROVE  /\ Follows(p, c, TakeFloats(p, c, n))
           /\ TakeFloats(p, c, n).at # 0 =>
                 /\ c.at # 0
                 /\ \A w \in Seq(Nat) : Begins(p, w) => TakeFloats(w, c, n) = TakeFloats(p, c, n)
<1>1. CASE Has(p, c, 2 * n)
  <2> DEFINE s == FloatsAt(p, c.at, n)
  <2>1. c.at \in Nat \ {0} /\ c.at + 2 * n - 1 <= Len(p) /\ TakeFloats(p, c, n) = Advance(c, 2 * n, s)
        /\ 2 * n \in Nat /\ Advance(c, 2 * n, s).at = c.at + 2 * n
    BY <1>1 DEF Has, TakeFloats, Cursors, FloatsAt, Advance
  <2>2. s \in Seq(Nat)
    <3>1. TakeFloats(p, c, n).at # 0
      BY <2>1
    <3> QED
      BY <3>1, FloatsRead
  <2>3. ASSUME NEW w \in Seq(Nat), Begins(p, w) PROVE TakeFloats(w, c, n) = Advance(c, 2 * n, s)
    <3>1. Has(w, c, 2 * n) /\ \A k \in 1..Len(p) : w[k] = p[k]
      BY <1>1, <2>1, <2>3, HasMore DEF Begins
    <3>2. ASSUME NEW k \in 1..n PROVE WordAt(w, c.at + 2 * k - 2) = WordAt(p, c.at + 2 * k - 2)
      <4> DEFINE i == c.at
      <4>1. i \in Nat \ {0} /\ i + 2 * n - 1 <= Len(p) /\ Len(p) \in Nat
        BY <2>1
      <4> HIDE DEF i
      <4>2. i + 2 * k - 2 \in 1..Len(p) /\ (i + 2 * k - 2) + 1 \in 1..Len(p)
        BY <4>1
      <4> QED
        BY <3>1, <4>2 DEF WordAt, i
    <3>3. FloatsAt(w, c.at, n) = s
      BY <3>2 DEF FloatsAt
    <3> QED
      BY <3>1, <3>3 DEF TakeFloats, FloatsAt
  <2> HIDE DEF s
  <2>4. s \in Values
    BY <2>2 DEF Values
  <2>5. Follows(p, c, Advance(c, 2 * n, s))
    BY <1>1, <2>1, <2>4, AdvanceFollows
  <2> QED
    BY <2>1, <2>3, <2>5
<1>2. CASE ~Has(p, c, 2 * n)
  BY <1>2, BrokenFollows DEF TakeFloats
<1> QED
  BY <1>1, <1>2

-----------------------------------------------------------------------------
\* A length and what it is the length of.

Moved(c, n) == [c EXCEPT !.at = @ + n]

LEMMA MovedType ==
    ASSUME NEW c \in Cursors, NEW m \in Nat
    PROVE  /\ Moved(c, m) \in Cursors /\ Moved(c, m).at = c.at + m /\ Moved(c, m).got = c.got
           /\ \A n \in Nat : \A v : Advance(Moved(c, m), n, v) = Advance(c, m + n, v)
<1>1. c.at \in Nat /\ Moved(c, m) = [at |-> c.at + m, got |-> c.got]
  BY DEF Moved, Cursors
<1>2. Moved(c, m) \in Cursors
  BY <1>1 DEF Cursors
<1>3. ASSUME NEW n \in Nat PROVE (c.at + m) + n = c.at + (m + n)
  BY <1>1
<1>4. ASSUME NEW n \in Nat, NEW v PROVE Advance(Moved(c, m), n, v) = Advance(c, m + n, v)
  <2>1. Moved(c, m).at = c.at + m /\ Moved(c, m).got = c.got
    BY <1>1
  <2>2. Moved(c, m).at + n = c.at + (m + n)
    BY <1>3, <2>1
  <2> QED
    BY <2>1, <2>2, Zenon DEF Advance
<1> QED
  BY <1>1, <1>2, <1>4

LEMMA LengthLast ==
    ASSUME NEW c \in Cursors, NEW m \in Nat, NEW n \in Nat, c.at # 0
    PROVE  LET d == Advance(c, m, n)
           IN  d.at # 0 /\ [d EXCEPT !.got = Front(@)] = Moved(c, m) /\ Last(d.got) = n
<1> DEFINE d == Advance(c, m, n)
           t == Append(c.got, n)
<1>1. d.at = c.at + m /\ c.at \in Nat /\ c.got \in Seq(Values) /\ n \in Values
  BY DEF Advance, Cursors, Values
<1>2. Front(t) = c.got /\ Last(t) = n
  <2> DEFINE g == c.got
  <2>1. g \in Seq(Values) /\ n \in Values
    BY <1>1
  <2> HIDE DEF g
  <2>2. Front(Append(g, n)) = g /\ Last(Append(g, n)) = n
    BY <2>1 DEF Front, Last
  <2> QED
    BY <2>2 DEF g
<1>3. d = [at |-> c.at + m, got |-> t]
  BY DEF Advance
<1>4. Moved(c, m) = [at |-> c.at + m, got |-> c.got]
  BY DEF Moved, Cursors
<1>5. [d EXCEPT !.got = Front(@)] = [at |-> c.at + m, got |-> Front(t)]
  BY <1>3
<1> QED
  BY <1>1, <1>2, <1>3, <1>4, <1>5

SizedUnits(p, d)  == Sized(d, LAMBDA e, n : TakeUnits(p, e, n))
SizedFloats(p, d) == Sized(d, LAMBDA e, n : TakeFloats(p, e, n))

LEMMA SizedAfter ==
    ASSUME NEW p, NEW c \in Cursors, NEW m \in Nat, NEW n \in Nat, c.at # 0
    PROVE  /\ SizedUnits(p, Advance(c, m, n)) = TakeUnits(p, Moved(c, m), n)
           /\ SizedFloats(p, Advance(c, m, n)) = TakeFloats(p, Moved(c, m), n)
BY LengthLast DEF SizedUnits, SizedFloats, Sized

LEMMA SizedBroken ==
    ASSUME NEW p
    PROVE  SizedUnits(p, Broken) = Broken /\ SizedFloats(p, Broken) = Broken
BY DEF SizedUnits, SizedFloats, Sized, Broken

LEMMA CheckedCases ==
    ASSUME NEW c
    PROVE  /\ Checked(c) \in {c, Broken}
           /\ Checked(c).at # 0 => Checked(c) = c /\ IsText(Last(c.got))
           /\ c.at # 0 /\ IsText(Last(c.got)) => Checked(c) = c
BY DEF Checked, Broken

\* What stands behind its length is read.
LEMMA StrRead ==
    ASSUME NEW p \in Seq(Nat), NEW c \in Cursors, NEW s \in Seq(Nat), Len(s) < WordMod, IsText(s),
           Stands(p, c.at, PutStr(s))
    PROVE  TakeStr(p, c) = Advance(c, 2 + Len(s), s)
<1> DEFINE n == Len(s)
<1>1. n \in Nat /\ Word(n) \in Seq(Nat) /\ Len(Word(n)) = 2
  BY WordType
<1>2. Stands(p, c.at, Word(n)) /\ Stands(p, c.at + 2, s)
  BY <1>1, StandsConcat DEF PutStr
<1>3. c.at # 0
  BY <1>2 DEF Stands
<1>4. TakeWord(p, c) = Advance(c, 2, n)
  BY <1>1, <1>2, WordRead
<1>5. Moved(c, 2) \in Cursors /\ Moved(c, 2).at = c.at + 2
      /\ Advance(Moved(c, 2), n, s) = Advance(c, 2 + n, s)
  <2> HIDE DEF n
  <2>1. /\ Moved(c, 2) \in Cursors /\ Moved(c, 2).at = c.at + 2
        /\ \A k \in Nat : \A v : Advance(Moved(c, 2), k, v) = Advance(c, 2 + k, v)
    BY MovedType
  <2> QED
    BY <1>1, <2>1
<1>6. TakeUnits(p, Moved(c, 2), n) = Advance(c, 2 + n, s)
  BY <1>1, <1>2, <1>5, UnitsRead
<1>7. SizedUnits(p, TakeWord(p, c)) = Advance(c, 2 + n, s)
  BY <1>1, <1>3, <1>4, <1>6, SizedAfter
<1>8. TakeStr(p, c) = Checked(SizedUnits(p, TakeWord(p, c)))
  BY DEF TakeStr, SizedUnits
<1>9. s \in Values /\ 2 + n \in Nat
  BY <1>1 DEF Values
<1> HIDE DEF n
<1>10. Advance(c, 2 + n, s).at # 0 /\ Advance(c, 2 + n, s).got = Append(c.got, s)
  <2>1. c.at \in Nat /\ c.at + (2 + n) # 0
    BY <1>1, <1>3 DEF Cursors
  <2> QED
    BY <2>1 DEF Advance
<1>11. Last(Append(c.got, s)) = s
  BY <1>9 DEF Last, Cursors
<1> QED
  BY <1>7, <1>8, <1>10, <1>11, CheckedCases DEF n

\* d has read a text more than c.
AddsText(p, c, d) ==
    \E s \in Seq(Nat) : /\ d.got = Append(c.got, s) /\ IsText(s)
                        /\ p \in Seq(Units) => s \in Seq(Units)

LEMMA StrFollows ==
    ASSUME NEW p \in Seq(Nat), NEW c \in Cursors
    PROVE  /\ Follows(p, c, TakeStr(p, c))
           /\ TakeStr(p, c).at # 0 =>
                 /\ c.at # 0
                 /\ AddsText(p, c, TakeStr(p, c))
                 /\ \A w \in Seq(Nat) : Begins(p, w) => TakeStr(w, c) = TakeStr(p, c)
<1> DEFINE d == TakeWord(p, c)
           e == SizedUnits(p, d)
           f == TakeStr(p, c)
<1>0. f = Checked(e) /\ \A w : TakeStr(w, c) = Checked(SizedUnits(w, TakeWord(w, c)))
  BY DEF TakeStr, SizedUnits
<1>1. CASE d.at # 0
  <2>1. c.at # 0 /\ Follows(p, c, d) /\ \A w \in Seq(Nat) : Begins(p, w) => TakeWord(w, c) = d
    BY <1>1, WordFollows
  <2>2. PICK n \in Nat : d = Advance(c, 2, n)
    BY <1>1, WordFollows
  <2> DEFINE g == Moved(c, 2)
  <2>3. g \in Cursors /\ g.at = d.at /\ g.at = c.at + 2 /\ g.got = c.got
    BY <2>2, MovedType DEF Advance
  <2>4. e = TakeUnits(p, g, n) /\ \A w : SizedUnits(w, d) = TakeUnits(w, g, n)
    BY <2>1, <2>2, SizedAfter
  <2> HIDE DEF d, e, f, g
  <2>5. /\ Follows(p, g, e)
        /\ e.at # 0 => \A w \in Seq(Nat) : Begins(p, w) => TakeUnits(w, g, n) = e
    BY <2>3, <2>4, UnitsFollow
  <2>6. Follows(p, c, e)
    BY <2>1, <2>3, <2>5 DEF Follows, Cursors
  <2>7. e.at # 0 => \A w \in Seq(Nat) : Begins(p, w) => SizedUnits(w, TakeWord(w, c)) = e
    BY <2>1, <2>4, <2>5
  <2>8. e.at # 0 => \E s \in Seq(Nat) : /\ e.got = Append(c.got, s) /\ Last(e.got) = s
                                        /\ p \in Seq(Units) => s \in Seq(Units)
    <3>1. ASSUME e.at # 0
          PROVE  \E s \in Seq(Nat) : /\ e.got = Append(c.got, s) /\ Last(e.got) = s
                                     /\ p \in Seq(Units) => s \in Seq(Units)
      <4> DEFINE s == SubSeq(p, g.at, g.at + n - 1)
      <4>1. e = Advance(g, n, s) /\ s \in Seq(Nat) /\ (p \in Seq(Units) => s \in Seq(Units))
        BY <2>3, <2>4, <3>1, UnitsRead
      <4> HIDE DEF s
      <4>2. e.got = Append(c.got, s)
        BY <2>3, <4>1 DEF Advance
      <4>3. c.got \in Seq(Values) /\ s \in Values
        BY <4>1 DEF Cursors, Values
      <4>4. Last(Append(c.got, s)) = s
        BY <4>3 DEF Last
      <4> QED
        BY <4>1, <4>2, <4>4
    <3> QED
      BY <3>1
  <2>9. CASE f.at # 0
    <3>1. f = e /\ IsText(Last(e.got))
      BY <1>0, <2>9, CheckedCases
    <3>2. \A w \in Seq(Nat) : Begins(p, w) => TakeStr(w, c) = f
      BY <1>0, <2>7, <2>9, <3>1
    <3>3. AddsText(p, c, f)
      BY <2>8, <2>9, <3>1 DEF AddsText
    <3> QED
      BY <2>1, <2>6, <2>9, <3>1, <3>2, <3>3 DEF f
  <2>10. CASE f.at = 0
    <3>1. f \in {e, Broken}
      BY <1>0, CheckedCases
    <3>2. Follows(p, c, f)
      BY <2>6, <3>1, BrokenFollows
    <3> QED
      BY <2>10, <3>2 DEF f
  <2> QED
    BY <2>9, <2>10
<1>2. CASE d.at = 0
  <2>1. d = Broken
    BY <1>2, WordFollows DEF Follows
  <2>2. e = Broken
    BY <2>1, SizedBroken
  <2>3. f = Broken
    BY <1>0, <2>2, CheckedCases
  <2> QED
    BY <2>3, BrokenFollows
<1> QED
  BY <1>1, <1>2

-----------------------------------------------------------------------------
\* Many strings, one after the other.

LEMMA StrsStep ==
    ASSUME NEW p \in Seq(Nat), NEW c \in Cursors
    PROVE  /\ TakeStrs(p, 0, c) = c
           /\ \A n \in Nat : /\ TakeStrs(p, n, c) \in Cursors
                             /\ TakeStrs(p, n + 1, c) = TakeStr(p, TakeStrs(p, n, c))
<1> DEFINE F == [z \in Nat \X Cursors |-> TakeStr(p, z[2])]
           G(f, n) == f = [k \in 0..n |-> IF k = 0 THEN c ELSE TakeStr(p, f[k - 1])]
           v == [n \in Nat |-> TakeStrs(p, n, c)]
<1>1. \A d \in Cursors : TakeStr(p, d) \in Cursors
  BY StrFollows DEF Follows
<1>2. Iterates(Cursors, c, F)
  BY <1>1 DEF Iterates
<1>3. \A k \in Nat, d \in Cursors : F[<<k, d>>] = TakeStr(p, d)
  OBVIOUS
<1> HIDE DEF F
<1>4. ASSUME NEW n \in Nat, NEW f, G(f, n) PROVE Computes(f, Cursors, c, F, n)
  <2> DEFINE h == [k \in 0..n |-> IF k = 0 THEN c ELSE TakeStr(p, f[k - 1])]
  <2>1. f = h /\ h = [k \in 0..n |-> h[k]] /\ h[0] = c /\ \A k \in 1..n : h[k] = TakeStr(p, f[k - 1])
    BY <1>4
  <2> HIDE DEF h
  <2>2. f = [k \in 0..n |-> f[k]] /\ f[0] = c /\ \A k \in 1..n : f[k] = TakeStr(p, f[k - 1])
    BY <2>1
  <2>3. \A k \in 1..n : f[k - 1] \in Cursors => f[k] = F[<<k, f[k - 1]>>]
    BY <1>3, <2>2
  <2> QED
    BY <1>2, <2>2, <2>3, Computed
<1>5. ASSUME NEW n \in Nat, NEW f, Computes(f, Cursors, c, F, n) PROVE G(f, n)
  <2> DEFINE h == [k \in 0..n |-> IF k = 0 THEN c ELSE TakeStr(p, f[k - 1])]
  <2>1. f \in [0..n -> Cursors] /\ f[0] = c /\ \A k \in 1..n : f[k] = F[<<k, f[k - 1]>>]
    BY <1>5 DEF Computes
  <2>2. ASSUME NEW k \in 0..n PROVE f[k] = h[k]
    <3>1. CASE k # 0
      <4>1. k - 1 \in 0..n /\ k \in 1..n /\ k \in Nat
        BY <3>1
      <4>2. f[k - 1] \in Cursors
        BY <2>1, <4>1
      <4>3. f[k] = TakeStr(p, f[k - 1])
        BY <1>3, <2>1, <4>1, <4>2
      <4> QED
        BY <3>1, <4>3
    <3> QED
      BY <2>1, <3>1
  <2>3. h = [k \in 0..n |-> h[k]] /\ f = [k \in 0..n |-> f[k]]
    BY <2>1
  <2> HIDE DEF h
  <2>4. f = h
    BY <2>2, <2>3
  <2> QED
    BY <2>4 DEF h
<1>6. ASSUME NEW n \in Nat PROVE \E f : Computes(f, Cursors, c, F, n) /\ v[n] = f[n]
  <2> DEFINE g == CHOOSE f : G(f, n)
  <2>1. \E f : Computes(f, Cursors, c, F, n)
    BY <1>2, Recursion
  <2>2. \E f : G(f, n)
    BY <1>5, <2>1
  <2>3. G(g, n)
    BY <2>2, Zenon
  <2>4. TakeStrs(p, n, c) = g[n]
    BY Zenon DEF TakeStrs
  <2> HIDE DEF G, g
  <2> QED
    BY <1>4, <2>3, <2>4
<1> HIDE DEF v, G
<1>7. v[0] = c /\ \A n \in Nat : v[n] \in Cursors /\ v[n + 1] = F[<<n + 1, v[n]>>]
  BY <1>2, <1>6, Computation
<1>8. \A n \in Nat : v[n] = TakeStrs(p, n, c) /\ n + 1 \in Nat
  BY DEF v
<1> QED
  BY <1>3, <1>7, <1>8

\* The strings a frame carries whole.
Strs == {s \in Seq(Units) : Len(s) < WordMod /\ IsText(s)}

PutStrs(ss) == FlattenSeq([i \in DOMAIN ss |-> PutStr(ss[i])])

LEMMA StrType ==
    ASSUME NEW s \in Seq(Units)
    PROVE  /\ s \in Seq(Nat) /\ Len(s) \in Nat
           /\ PutStr(s) \in Seq(Units) /\ PutStr(s) \in Seq(Nat) /\ Len(PutStr(s)) = 2 + Len(s)
<1>1. Len(s) \in Nat
  OBVIOUS
<1>2. Word(Len(s)) \in Seq(Units) /\ Len(Word(Len(s))) = 2
  BY <1>1, WordType
<1> DEFINE h == Word(Len(s))
<1> HIDE DEF h
<1>3. h \o s \in Seq(Units) /\ Len(h \o s) = 2 + Len(s)
  BY <1>1, <1>2, ConcatLength DEF h
<1>4. PutStr(s) = h \o s
  BY DEF PutStr, h
<1>5. PutStr(s) \in Seq(Units) /\ Len(PutStr(s)) = 2 + Len(s)
  BY <1>3, <1>4
<1>6. s \in Seq(Nat)
  BY UnitsAreNumbers, WiderSeq
<1>7. PutStr(s) \in Seq(Nat)
  BY <1>5, UnitsAreNumbers, WiderSeq
<1> QED
  BY <1>1, <1>5, <1>6, <1>7

LEMMA PutStrsAppend ==
    ASSUME NEW ss \in Seq(Seq(Units))
    PROVE  /\ PutStrs(ss) \in Seq(Units) /\ PutStrs(<<>>) = <<>>
           /\ \A s \in Seq(Units) : PutStrs(Append(ss, s)) = PutStrs(ss) \o PutStr(s)
<1> DEFINE ps == [i \in 1..Len(ss) |-> PutStr(ss[i])]
<1>1. ps \in Seq(Seq(Units)) /\ Len(ps) = Len(ss) /\ PutStrs(ss) = FlattenSeq(ps)
  <2>1. \A i \in 1..Len(ss) : ss[i] \in Seq(Units)
    OBVIOUS
  <2>2. \A i \in 1..Len(ss) : PutStr(ss[i]) \in Seq(Units)
    BY <2>1, StrType
  <2>3. DOMAIN ss = 1..Len(ss) /\ Len(ss) \in Nat
    OBVIOUS
  <2> QED
    BY <2>2, <2>3 DEF PutStrs
<1>2. PutStrs(<<>>) = <<>>
  <2>1. [i \in DOMAIN <<>> |-> PutStr(<<>>[i])] = <<>>
    OBVIOUS
  <2> QED
    BY <2>1, FlattenNothing DEF PutStrs
<1>3. ASSUME NEW s \in Seq(Units) PROVE PutStrs(Append(ss, s)) = PutStrs(ss) \o PutStr(s)
  <2> DEFINE tt == Append(ss, s)
             qs == [i \in DOMAIN tt |-> PutStr(tt[i])]
             n == Len(ss)
  <2>1. n \in Nat /\ DOMAIN tt = 1..(n + 1) /\ tt[n + 1] = s /\ \A i \in 1..n : tt[i] = ss[i]
    OBVIOUS
  <2>2. DOMAIN qs = 1..(n + 1) /\ qs[n + 1] = PutStr(s) /\ \A i \in 1..n : qs[i] = ps[i]
    BY <2>1
  <2>3. PutStr(s) \in Seq(Units)
    BY StrType
  <2>4. PutStrs(tt) = FlattenSeq(qs) /\ qs = [i \in 1..(n + 1) |-> qs[i]]
    BY <2>1 DEF PutStrs
  <2> HIDE DEF tt, qs, ps, n
  <2>5. Len(ps) = n
    BY <1>1 DEF n
  <2>6. qs = Append(ps, qs[n + 1])
    <3>1. Numbered(qs, n + 1)
      BY <2>4 DEF Numbered
    <3>2. /\ n \in Nat /\ ps \in Seq(Seq(Units)) /\ Len(ps) = n /\ qs[n + 1] \in Seq(Units)
          /\ \A i \in 1..n : qs[i] = ps[i]
      BY <1>1, <2>1, <2>2, <2>3, <2>5
    <3>3. OneMore(qs, ps)
      BY <3>1, <3>2, ListAppend
    <3> QED
      BY <3>2, <3>3, Zenon DEF OneMore
  <2>7. FlattenSeq(Append(ps, PutStr(s))) = FlattenSeq(ps) \o PutStr(s)
    BY <1>1, <2>3, FlattenAppend
  <2> QED
    BY <1>1, <2>2, <2>4, <2>6, <2>7 DEF tt
<1>4. FlattenSeq(ps) \in Seq(Units)
  <2> HIDE DEF ps
  <2> QED
    BY <1>1, FlattenType
<1> QED
  BY <1>1, <1>2, <1>3, <1>4

LEMMA StrsRead ==
    ASSUME NEW p \in Seq(Nat), NEW c \in Cursors
    PROVE  \A ss \in Seq(Strs) :
              Stands(p, c.at, PutStrs(ss)) =>
                 TakeStrs(p, Len(ss), c) = [at |-> c.at + Len(PutStrs(ss)), got |-> c.got \o ss]
<1> DEFINE Goal(ss) == [at |-> c.at + Len(PutStrs(ss)), got |-> c.got \o ss]
           P == {ss \in Seq(Strs) : Stands(p, c.at, PutStrs(ss)) => TakeStrs(p, Len(ss), c) = Goal(ss)}
<1>1. c.at \in Nat /\ c.got \in Seq(Values) /\ c = [at |-> c.at, got |-> c.got]
  BY DEF Cursors
<1>2. \A ss \in Seq(Strs) : ss \in Seq(Seq(Units))
  <2>1. Strs \subseteq Seq(Units)
    BY DEF Strs
  <2> QED
    BY <2>1, WiderSeq
<1>3. <<>> \in P
  <2>1. <<>> \in Seq(Strs) /\ Len(<<>>) = 0 /\ c.got \o <<>> = c.got /\ c.at + 0 = c.at
    BY <1>1
  <2>2. PutStrs(<<>>) = <<>>
    BY <1>2, <2>1, PutStrsAppend
  <2>3. Goal(<<>>) = c
    BY <1>1, <2>1, <2>2
  <2>4. TakeStrs(p, 0, c) = c
    BY StrsStep
  <2> QED
    BY <2>1, <2>3, <2>4
<1>4. ASSUME NEW ss \in Seq(Strs), NEW s \in Strs, ss \in P PROVE Append(ss, s) \in P
  <2> DEFINE tt == Append(ss, s)
             a == PutStrs(ss)
             b == PutStr(s)
             n == Len(ss)
  <2>1. tt \in Seq(Strs) /\ Len(tt) = n + 1 /\ n \in Nat
    OBVIOUS
  <2>2. s \in Seq(Units) /\ s \in Seq(Nat) /\ Len(s) < WordMod /\ IsText(s) /\ Len(s) \in Nat
    BY StrType DEF Strs
  <2>3. PutStrs(tt) = a \o b /\ a \in Seq(Nat) /\ b \in Seq(Nat) /\ Len(b) = 2 + Len(s)
    BY <1>2, <2>2, PutStrsAppend, StrType, UnitsAreNumbers, WiderSeq
  <2>4. ASSUME Stands(p, c.at, a \o b) PROVE TakeStrs(p, n + 1, c) = Goal(tt)
    <3> HIDE DEF n
    <3>1. Stands(p, c.at, a) /\ Stands(p, c.at + Len(a), b) /\ Len(a) \in Nat
      <4> HIDE DEF a, b
      <4> QED
        BY <2>3, <2>4, StandsConcat
    <3> DEFINE d == TakeStrs(p, n, c)
    <3>2. d = [at |-> c.at + Len(a), got |-> c.got \o ss]
      BY <1>4, <3>1 DEF n
    <3>3. d \in Cursors /\ TakeStrs(p, n + 1, c) = TakeStr(p, d)
      BY <2>1, StrsStep
    <3>4. d.at = c.at + Len(a) /\ d.got = c.got \o ss
      BY <3>2
    <3> HIDE DEF d, a, b, tt
    <3>5. TakeStr(p, d) = Advance(d, 2 + Len(s), s)
      BY <2>2, <3>1, <3>3, <3>4, StrRead DEF b
    <3>6. Advance(d, 2 + Len(s), s) = [at |-> c.at + Len(a) + (2 + Len(s)), got |-> Append(c.got \o ss, s)]
      BY <3>4, Zenon DEF Advance
    <3>7. Append(c.got \o ss, s) = c.got \o tt
      <4> DEFINE g == c.got
      <4>1. g \in Seq(Values) /\ ss \in Seq(Values) /\ s \in Values
        <5>1. Strs \subseteq Values
          BY UnitsAreNumbers, WiderSeq DEF Strs, Values
        <5> QED
          BY <1>1, <5>1, WiderSeq
      <4> HIDE DEF g
      <4>2. Appends(g, ss, s)
        BY <4>1, AppendBehind
      <4> QED
        BY <4>2, Zenon DEF g, tt, Appends
    <3>8. Len(PutStrs(tt)) = Len(a) + (2 + Len(s))
      <4>1. Len(a \o b) = Len(a) + Len(b)
        BY <2>3, ConcatLength
      <4> QED
        BY <2>3, <4>1
    <3>9. c.at + Len(a) + (2 + Len(s)) = c.at + Len(PutStrs(tt))
      BY <1>1, <2>2, <3>1, <3>8
    <3> QED
      BY <3>3, <3>5, <3>6, <3>7, <3>9
  <2> QED
    BY <2>1, <2>3, <2>4
<1> HIDE DEF P
<1>5. \A ss \in Seq(Strs) : ss \in P
  BY <1>3, <1>4, SeqInduction
<1> QED
  BY <1>5 DEF P

LEMMA Numbers ==
    ASSUME NEW p \in Seq(Units)
    PROVE  p \in Seq(Nat)
BY UnitsAreNumbers, WiderSeq

\* How d = TakeStrs(p, n, c) leaves off.
StrsTaken(p, n, c, d) ==
    /\ Follows(p, c, d)
    /\ d.at # 0 =>
          /\ c.at # 0 /\ d.got \in Seq(Seq(Units)) /\ Len(d.got) = Len(c.got) + n
          /\ \A w \in Seq(Nat) : Begins(p, w) => TakeStrs(w, n, c) = d

LEMMA StrsFollow ==
    ASSUME NEW p \in Seq(Units), NEW c \in Cursors, Follows(p, c, c), c.got \in Seq(Seq(Units))
    PROVE  \A n \in Nat : StrsTaken(p, n, c, TakeStrs(p, n, c))
<1> DEFINE N == {n \in Nat : StrsTaken(p, n, c, TakeStrs(p, n, c))}
<1>0. p \in Seq(Nat) /\ Len(c.got) \in Nat
  BY Numbers
<1>1. 0 \in N
  <2>1. TakeStrs(p, 0, c) = c /\ \A w \in Seq(Nat) : TakeStrs(w, 0, c) = c
    BY <1>0, StrsStep
  <2> QED
    BY <1>0, <2>1 DEF StrsTaken
<1>2. ASSUME NEW n \in Nat, n \in N PROVE n + 1 \in N
  <2> DEFINE d == TakeStrs(p, n, c)
             e == TakeStrs(p, n + 1, c)
  <2>1. d \in Cursors /\ e = TakeStr(p, d) /\ \A w \in Seq(Nat) : TakeStrs(w, n + 1, c) = TakeStr(w, TakeStrs(w, n, c))
    BY <1>0, StrsStep
  <2>2. StrsTaken(p, n, c, d)
    BY <1>2
  <2> HIDE DEF d, e
  <2>3. Follows(p, d, e)
    BY <1>0, <2>1, StrFollows
  <2>4. Follows(p, c, e)
    BY <1>0, <2>2, <2>3, FollowsTransitive DEF StrsTaken
  <2>5. ASSUME e.at # 0
        PROVE  /\ c.at # 0 /\ e.got \in Seq(Seq(Units)) /\ Len(e.got) = Len(c.got) + (n + 1)
               /\ \A w \in Seq(Nat) : Begins(p, w) => TakeStrs(w, n + 1, c) = e
    <3>1. d.at # 0 /\ \A w \in Seq(Nat) : Begins(p, w) => TakeStr(w, d) = e
      BY <1>0, <2>1, <2>5, StrFollows
    <3>2. c.at # 0 /\ d.got \in Seq(Seq(Units)) /\ Len(d.got) = Len(c.got) + n
          /\ \A w \in Seq(Nat) : Begins(p, w) => TakeStrs(w, n, c) = d
      BY <2>2, <3>1 DEF StrsTaken
    <3>3. AddsText(p, d, e)
      BY <1>0, <2>1, <2>5, StrFollows
    <3>4. e.got \in Seq(Seq(Units)) /\ Len(e.got) = Len(d.got) + 1
      <4>1. PICK s \in Seq(Units) : e.got = Append(d.got, s)
        BY <3>3 DEF AddsText
      <4> QED
        BY <3>2, <4>1
    <3>5. \A w \in Seq(Nat) : Begins(p, w) => TakeStrs(w, n + 1, c) = e
      BY <2>1, <3>1, <3>2
    <3>6. Len(e.got) = Len(c.got) + (n + 1)
      <4>1. \A x, y \in Nat : x = y + n => x + 1 = y + (n + 1)
        OBVIOUS
      <4>2. Len(d.got) \in Nat /\ Len(d.got) = Len(c.got) + n
        BY <3>2
      <4>3. Len(d.got) + 1 = Len(c.got) + (n + 1)
        BY <1>0, <4>1, <4>2, Zenon
      <4> QED
        BY <3>4, <4>3, Zenon
    <3> QED
      BY <3>2, <3>4, <3>5, <3>6
  <2>6. StrsTaken(p, n + 1, c, e)
    BY <2>4, <2>5 DEF StrsTaken
  <2> QED
    BY <2>6 DEF e
<1> HIDE DEF N
<1>3. \A n \in Nat : n \in N
  BY <1>1, <1>2, Induction
<1> QED
  BY <1>3 DEF N

-----------------------------------------------------------------------------
\* The opening of a request.

OpeningOf(p) == TakeWord(p, TakeStr(p, TakeUnit(p, TakeUnit(p, Start))))

\* What has been read of p once it is d, and that more of p changes nothing.
OpeningTaken(p, d) ==
    /\ Follows(p, Start, d)
    /\ d.at # 0 =>
          /\ Len(p) >= 2 /\ d.got[1] = p[1] /\ d.got[2] = p[2]
          /\ d.got[3] \in Seq(Units) /\ d.got[4] \in Nat
          /\ \A w \in Seq(Nat) : Begins(p, w) => OpeningOf(w) = d

LEMMA OpeningFollows ==
    ASSUME NEW p \in Seq(Units)
    PROVE  OpeningTaken(p, OpeningOf(p))
<1> DEFINE a == TakeUnit(p, Start)
           b == TakeUnit(p, a)
           c == TakeStr(p, b)
           d == TakeWord(p, c)
<1>0. p \in Seq(Nat) /\ Start \in Cursors /\ Start.at = 1 /\ Start.got = <<>> /\ Len(p) \in Nat
  BY Numbers, BrokenType DEF Start
<1>1. /\ Follows(p, Start, a) /\ a \in Cursors
      /\ a.at # 0 => /\ Start.at \in 1..Len(p) /\ a = Advance(Start, 1, p[Start.at])
                     /\ \A w \in Seq(Nat) : Begins(p, w) => TakeUnit(w, Start) = a
  BY <1>0, UnitFollows DEF Follows
<1>2. /\ Follows(p, a, b) /\ b \in Cursors
      /\ b.at # 0 => /\ a.at \in 1..Len(p) /\ b = Advance(a, 1, p[a.at])
                     /\ \A w \in Seq(Nat) : Begins(p, w) => TakeUnit(w, a) = b
  <2> HIDE DEF a
  <2> QED
    BY <1>0, <1>1, UnitFollows DEF Follows
<1>3. /\ Follows(p, b, c) /\ c \in Cursors
      /\ c.at # 0 => /\ b.at # 0 /\ AddsText(p, b, c)
                     /\ \A w \in Seq(Nat) : Begins(p, w) => TakeStr(w, b) = c
  <2> HIDE DEF b
  <2> QED
    BY <1>0, <1>2, StrFollows DEF Follows
<1>4. /\ Follows(p, c, d) /\ d \in Cursors
      /\ d.at # 0 => /\ c.at # 0 /\ \E n \in Nat : d = Advance(c, 2, n)
                     /\ \A w \in Seq(Nat) : Begins(p, w) => TakeWord(w, c) = d
  <2> HIDE DEF c
  <2> QED
    BY <1>0, <1>3, WordFollows DEF Follows
<1>5. OpeningOf(p) = d
  BY DEF OpeningOf
<1>6. Follows(p, Start, d)
  <2> HIDE DEF a, b, c, d
  <2>1. Follows(p, Start, b)
    BY <1>0, <1>1, <1>2, FollowsTransitive
  <2>2. Follows(p, Start, c)
    BY <1>0, <1>3, <2>1, FollowsTransitive
  <2> QED
    BY <1>0, <1>4, <2>2, FollowsTransitive
<1>7. ASSUME d.at # 0
      PROVE  /\ Len(p) >= 2 /\ d.got[1] = p[1] /\ d.got[2] = p[2]
             /\ d.got[3] \in Seq(Units) /\ d.got[4] \in Nat
             /\ \A w \in Seq(Nat) : Begins(p, w) => OpeningOf(w) = d
  <2> HIDE DEF d
  <2>1. c.at # 0 /\ \A w \in Seq(Nat) : Begins(p, w) => TakeWord(w, c) = d
    BY <1>4, <1>7
  <2>2. PICK n \in Nat : d = Advance(c, 2, n)
    BY <1>4, <1>7
  <2> HIDE DEF c
  <2>3. b.at # 0 /\ AddsText(p, b, c) /\ \A w \in Seq(Nat) : Begins(p, w) => TakeStr(w, b) = c
    BY <1>3, <2>1
  <2> HIDE DEF b
  <2>4. /\ a.at \in 1..Len(p) /\ b = Advance(a, 1, p[a.at])
        /\ \A w \in Seq(Nat) : Begins(p, w) => TakeUnit(w, a) = b
    BY <1>2, <2>3
  <2> HIDE DEF a
  <2>5. /\ 1 \in 1..Len(p) /\ a = Advance(Start, 1, p[1])
        /\ \A w \in Seq(Nat) : Begins(p, w) => TakeUnit(w, Start) = a
    BY <1>0, <1>1, <2>4
  <2>6. PICK s \in Seq(Units) : c.got = Append(b.got, s)
    BY <2>3 DEF AddsText
  <2>7. a.at = 2 /\ Len(a.got) = 1 /\ a.got[1] = p[1]
    BY <1>0, <2>5 DEF Advance
  <2> DEFINE ag == a.got
             bg == b.got
             cg == c.got
             dg == d.got
  <2>13. ag \in Seq(Values) /\ bg \in Seq(Values) /\ cg \in Seq(Values) /\ s \in Values /\ n \in Values
        /\ p[1] \in Values /\ p[2] \in Values
    <3>1. p[1] \in Nat /\ p[2] \in Nat
      BY <1>0, <2>4, <2>5, <2>7
    <3> QED
      BY <1>1, <1>2, <1>3, <3>1, Numbers DEF Cursors, Values
  <2>14. bg = Append(ag, p[2]) /\ dg = Append(cg, n) /\ cg = Append(bg, s)
    BY <2>2, <2>4, <2>6, <2>7 DEF Advance
  <2> HIDE DEF ag, bg, cg, dg
  <2>8. Len(bg) = 2 /\ bg[1] = p[1] /\ bg[2] = p[2]
    BY <2>7, <2>13, <2>14 DEF ag
  <2>9. Len(cg) = 3 /\ cg[1] = p[1] /\ cg[2] = p[2] /\ cg[3] = s
    BY <2>8, <2>13, <2>14
  <2>10. dg[1] = p[1] /\ dg[2] = p[2] /\ dg[3] = s /\ dg[4] = n
    BY <2>9, <2>13, <2>14
  <2>11. \A w \in Seq(Nat) : Begins(p, w) => OpeningOf(w) = d
    BY <2>1, <2>3, <2>4, <2>5 DEF OpeningOf
  <2>12. Len(p) >= 2
    BY <1>0, <2>4, <2>7
  <2> QED
    BY <2>10, <2>11, <2>12 DEF dg
<1> QED
  BY <1>5, <1>6, <1>7 DEF OpeningTaken

LEMMA CodeOf ==
    ASSUME NEW task \in {"embed", "rerank", "evaluate"}
    PROVE  Code(task) \in 0..2 /\ Tasks[Code(task) + 1] = task /\ Code(task) \in Units
<1>1. Tasks[0 + 1] = "embed" /\ Tasks[1 + 1] = "rerank" /\ Tasks[2 + 1] = "evaluate"
  BY DEF Tasks
<1>2. \E k \in 0..2 : Tasks[k + 1] = task
  <2>1. 0 \in 0..2 /\ 1 \in 0..2 /\ 2 \in 0..2
    OBVIOUS
  <2> QED
    BY <1>1, <2>1
<1>3. Code(task) \in 0..2 /\ Tasks[Code(task) + 1] = task
  BY <1>2, Zenon DEF Code
<1> QED
  BY <1>3, UnitsAreNumbers DEF Units

LEMMA OpeningRead ==
    ASSUME NEW p \in Seq(Nat), NEW task \in {"embed", "rerank", "evaluate"}, NEW model \in Strs,
           NEW count \in Nat, count < WordMod, Stands(p, 1, Opening(task, model, count))
    PROVE  /\ OpeningOf(p) = [at  |-> Len(Opening(task, model, count)) + 1,
                              got |-> <<ProtocolVersion, Code(task), model, count>>]
           /\ Opening(task, model, count) \in Seq(Units) /\ Len(Opening(task, model, count)) = Len(model) + 6
<1> DEFINE v == ProtocolVersion
           k == Code(task)
           n == Len(model)
           o == Opening(task, model, count)
<1>1. v = 1 /\ v \in Units /\ k \in Units /\ v \in Nat /\ k \in Nat
  BY CodeOf, UnitsAreNumbers DEF ProtocolVersion, Units
<1>2. /\ model \in Seq(Units) /\ model \in Seq(Nat) /\ n \in Nat /\ n < WordMod /\ IsText(model)
      /\ PutStr(model) \in Seq(Units) /\ PutStr(model) \in Seq(Nat) /\ Len(PutStr(model)) = 2 + n
  BY StrType DEF Strs
<1>3. Word(count) \in Seq(Units) /\ Word(count) \in Seq(Nat) /\ Len(Word(count)) = 2
  BY WordType
<1> DEFINE s == PutStr(model)
           w == Word(count)
<1>4. o = (<<v, k>> \o s) \o w
  BY DEF Opening
<1> HIDE DEF o, v, k, n, s, w
<1>5. /\ <<v>> \in Seq(Nat) /\ <<k>> \in Seq(Nat) /\ <<v, k>> \in Seq(Nat) /\ <<v, k>> \in Seq(Units)
      /\ <<v, k>> = <<v>> \o <<k>> /\ Len(<<v, k>>) = 2 /\ Len(<<v>>) = 1
  BY <1>1
<1>6. /\ <<v, k>> \o s \in Seq(Nat) /\ <<v, k>> \o s \in Seq(Units) /\ Len(<<v, k>> \o s) = 2 + (2 + n)
  BY <1>2, <1>5, ConcatLength DEF s
<1>7. o \in Seq(Units) /\ Len(o) = n + 6
  <2>1. o \in Seq(Units) /\ Len(o) = (2 + (2 + n)) + 2
    <3> DEFINE x == <<v, k>> \o s
    <3>1. x \in Seq(Units) /\ Len(x) = 2 + (2 + n) /\ w \in Seq(Units) /\ Len(w) = 2 /\ o = x \o w
      BY <1>3, <1>4, <1>6 DEF w
    <3> HIDE DEF x
    <3>2. x \o w \in Seq(Units) /\ Len(x \o w) = Len(x) + Len(w)
      BY <3>1, ConcatLength
    <3> QED
      BY <3>1, <3>2, Zenon
  <2> QED
    BY <1>2, <2>1
<1>8. Stands(p, 1, <<v, k>> \o s) /\ Stands(p, 1 + (2 + (2 + n)), w)
  BY <1>3, <1>4, <1>6, StandsConcat DEF o, w
<1>9. Stands(p, 1, <<v, k>>) /\ Stands(p, 1 + 2, s)
  BY <1>2, <1>5, <1>8, StandsConcat DEF s
<1>10. Stands(p, 1, <<v>>) /\ Stands(p, 1 + 1, <<k>>)
  BY <1>5, <1>9, StandsConcat
<1> DEFINE a == [at |-> 2, got |-> <<v>>]
           b == [at |-> 3, got |-> <<v, k>>]
           c == [at |-> 5 + n, got |-> <<v, k, model>>]
<1>11. a \in Cursors /\ b \in Cursors /\ c \in Cursors /\ Start \in Cursors
  <2>1. v \in Values /\ k \in Values /\ model \in Values
    BY <1>1, <1>2 DEF Values
  <2>2. <<v>> \in Seq(Values) /\ <<v, k>> \in Seq(Values) /\ <<v, k, model>> \in Seq(Values)
    BY <2>1
  <2> QED
    BY <1>2, <2>2, BrokenType DEF Cursors
<1>12. TakeUnit(p, Start) = a
  <2>1. TakeUnit(p, Start) = Advance(Start, 1, v)
    <3>1. Start.at = 1
      BY DEF Start
    <3> QED
      BY <1>1, <1>10, <1>11, <3>1, UnitRead
  <2> QED
    BY <2>1 DEF Advance, Start
<1>13. TakeUnit(p, a) = b
  <2>1. TakeUnit(p, a) = Advance(a, 1, k)
    BY <1>1, <1>10, <1>11, UnitRead
  <2>2. Advance(a, 1, k) = [at |-> a.at + 1, got |-> Append(a.got, k)]
    BY DEF Advance
  <2>3. a.at + 1 = 3 /\ a.got = <<v>>
    OBVIOUS
  <2> QED
    BY <2>1, <2>2, <2>3
<1>14. TakeStr(p, b) = c
  <2>1. TakeStr(p, b) = Advance(b, 2 + n, model)
    <3>1. b.at = 1 + 2
      OBVIOUS
    <3> HIDE DEF b
    <3> QED
      BY <1>2, <1>9, <1>11, <3>1, StrRead DEF s, n
  <2>2. 3 + (2 + n) = 5 + n
    BY <1>2
  <2> QED
    BY <2>1, <2>2 DEF Advance
<1>15. TakeWord(p, c) = [at |-> n + 7, got |-> <<v, k, model, count>>]
  <2>1. c.at = 1 + (2 + (2 + n))
    BY <1>2
  <2>2. TakeWord(p, c) = Advance(c, 2, count)
    <3> HIDE DEF c
    <3> QED
      BY <1>8, <1>11, <2>1, WordRead DEF w
  <2>3. (5 + n) + 2 = n + 7
    BY <1>2
  <2> QED
    BY <2>2, <2>3 DEF Advance
<1>16. (n + 6) + 1 = n + 7
  BY <1>2
<1> QED
  BY <1>7, <1>12, <1>13, <1>14, <1>15, <1>16 DEF OpeningOf, o, v, k, n

-----------------------------------------------------------------------------
\* Pairs go as their sides, one after the other.

LEMMA PairIsSeq ==
    ASSUME NEW T, NEW x \in T \X T
    PROVE  x \in Seq(T) /\ Len(x) = 2 /\ x = <<x[1], x[2]>> /\ x[1] \in T /\ x[2] \in T
OBVIOUS

LEMMA PairsAreSeqs ==
    ASSUME NEW T, NEW xs \in Seq(T \X T)
    PROVE  xs \in Seq(Seq(T)) /\ OfWidth(xs, 2) /\ FlattenSeq(xs) \in Seq(T)
           /\ Len(FlattenSeq(xs)) = 2 * Len(xs) /\ Len(xs) \in Nat
<1>1. T \X T \subseteq Seq(T)
  BY PairIsSeq
<1>2. xs \in Seq(Seq(T))
  BY <1>1, WiderSeq
<1>3. OfWidth(xs, 2)
  <2>1. \A i \in 1..Len(xs) : xs[i] \in T \X T
    OBVIOUS
  <2> QED
    BY <2>1, PairIsSeq DEF OfWidth
<1>4. Len(FlattenSeq(xs)) = Len(xs) * 2
  BY <1>2, <1>3, FlattenEqualLength
<1>5. FlattenSeq(xs) \in Seq(T)
  BY <1>2, FlattenType
<1> QED
  BY <1>2, <1>3, <1>4, <1>5

PutPairs(xs) == FlattenSeq([i \in DOMAIN xs |-> PutStr(xs[i][1]) \o PutStr(xs[i][2])])

LEMMA PutPairsAppend ==
    ASSUME NEW xs \in Seq(Seq(Units) \X Seq(Units))
    PROVE  /\ PutPairs(xs) \in Seq(Units) /\ PutPairs(<<>>) = <<>>
           /\ \A x \in Seq(Units) \X Seq(Units) :
                 PutPairs(Append(xs, x)) = PutPairs(xs) \o (PutStr(x[1]) \o PutStr(x[2]))
<1> DEFINE Two(x) == PutStr(x[1]) \o PutStr(x[2])
           ps == [i \in 1..Len(xs) |-> Two(xs[i])]
<1>0. \A x \in Seq(Units) \X Seq(Units) : Two(x) \in Seq(Units)
  BY StrType
<1> HIDE DEF Two
<1>1. ps \in Seq(Seq(Units)) /\ Len(ps) = Len(xs) /\ PutPairs(xs) = FlattenSeq(ps)
  <2>1. \A i \in 1..Len(xs) : xs[i] \in Seq(Units) \X Seq(Units)
    OBVIOUS
  <2>2. DOMAIN xs = 1..Len(xs) /\ Len(xs) \in Nat
    OBVIOUS
  <2> QED
    BY <1>0, <2>1, <2>2 DEF PutPairs, Two
<1>2. PutPairs(<<>>) = <<>>
  <2>1. [i \in DOMAIN <<>> |-> PutStr(<<>>[i][1]) \o PutStr(<<>>[i][2])] = <<>>
    OBVIOUS
  <2> QED
    BY <2>1, FlattenNothing DEF PutPairs
<1>3. ASSUME NEW x \in Seq(Units) \X Seq(Units) PROVE PutPairs(Append(xs, x)) = PutPairs(xs) \o Two(x)
  <2> DEFINE tt == Append(xs, x)
             qs == [i \in DOMAIN tt |-> Two(tt[i])]
             n == Len(xs)
  <2>1. n \in Nat /\ DOMAIN tt = 1..(n + 1) /\ tt[n + 1] = x /\ \A i \in 1..n : tt[i] = xs[i]
    OBVIOUS
  <2>2. DOMAIN qs = 1..(n + 1) /\ qs[n + 1] = Two(x) /\ \A i \in 1..n : qs[i] = ps[i]
    BY <2>1
  <2>3. Two(x) \in Seq(Units)
    BY <1>0
  <2>4. PutPairs(tt) = FlattenSeq(qs) /\ qs = [i \in 1..(n + 1) |-> qs[i]]
    BY <2>1 DEF PutPairs, Two
  <2> HIDE DEF tt, qs, ps, n
  <2>5. Len(ps) = n
    BY <1>1 DEF n
  <2>6. qs = Append(ps, qs[n + 1])
    <3>1. Numbered(qs, n + 1)
      BY <2>4 DEF Numbered
    <3>2. /\ n \in Nat /\ ps \in Seq(Seq(Units)) /\ Len(ps) = n /\ qs[n + 1] \in Seq(Units)
          /\ \A i \in 1..n : qs[i] = ps[i]
      BY <1>1, <2>1, <2>2, <2>3, <2>5
    <3>3. OneMore(qs, ps)
      BY <3>1, <3>2, ListAppend
    <3> QED
      BY <3>2, <3>3, Zenon DEF OneMore
  <2>7. FlattenSeq(Append(ps, Two(x))) = FlattenSeq(ps) \o Two(x)
    BY <1>1, <2>3, FlattenAppend
  <2> QED
    BY <1>1, <2>2, <2>4, <2>6, <2>7 DEF tt
<1>4. FlattenSeq(ps) \in Seq(Units)
  <2> HIDE DEF ps
  <2> QED
    BY <1>1, FlattenType
<1> QED
  BY <1>1, <1>2, <1>3, <1>4 DEF Two

LEMMA PutSides ==
    \A xs \in Seq(Seq(Units) \X Seq(Units)) : PutPairs(xs) = PutStrs(FlattenSeq(xs))
<1> DEFINE S == Seq(Units)
           T == S \X S
           P == {xs \in Seq(T) : PutPairs(xs) = PutStrs(FlattenSeq(xs))}
<1>1. <<>> \in P
  <2>1. <<>> \in Seq(T) /\ <<>> \in Seq(S)
    OBVIOUS
  <2> QED
    BY <2>1, FlattenNothing, PutPairsAppend, PutStrsAppend
<1>2. ASSUME NEW xs \in Seq(T), NEW x \in T, xs \in P PROVE Append(xs, x) \in P
  <2> DEFINE ss == FlattenSeq(xs)
             a == x[1]
             b == x[2]
  <2>1. x \in Seq(S) /\ a \in S /\ b \in S /\ x = <<a, b>> /\ xs \in Seq(Seq(S)) /\ ss \in Seq(S)
        /\ Append(xs, x) \in Seq(T)
    <3>1. x \in Seq(S) /\ a \in S /\ b \in S /\ x = <<a, b>>
      BY PairIsSeq
    <3>2. xs \in Seq(Seq(S)) /\ ss \in Seq(S)
      BY PairsAreSeqs
    <3> QED
      BY <3>1, <3>2
  <2>2. FlattenSeq(Append(xs, x)) = ss \o x
    BY <2>1, FlattenAppend
  <2>3. PutPairs(Append(xs, x)) = PutStrs(ss) \o (PutStr(a) \o PutStr(b))
    BY <1>2, PutPairsAppend
  <2> HIDE DEF S, ss, a, b, P
  <2>4. Append(ss, a) \in Seq(S) /\ ss \o x = Append(Append(ss, a), b)
    BY <2>1
  <2>5. PutStrs(ss \o x) = (PutStrs(ss) \o PutStr(a)) \o PutStr(b)
    BY <2>1, <2>4, PutStrsAppend DEF S
  <2>6. PutStrs(ss) \in Seq(Units) /\ PutStr(a) \in Seq(Units) /\ PutStr(b) \in Seq(Units)
    BY <2>1, PutStrsAppend, StrType DEF S
  <2>7. (PutStrs(ss) \o PutStr(a)) \o PutStr(b) = PutStrs(ss) \o (PutStr(a) \o PutStr(b))
    BY <2>6
  <2> QED
    BY <2>1, <2>2, <2>3, <2>5, <2>7 DEF P
<1> HIDE DEF P
<1>3. \A xs \in Seq(T) : xs \in P
  BY <1>1, <1>2, SeqInduction
<1> QED
  BY <1>3 DEF P

LEMMA PairsOfSides ==
    ASSUME NEW T, NEW xs \in Seq(T \X T)
    PROVE  Pairs(FlattenSeq(xs)) = xs
<1> DEFINE ss == FlattenSeq(xs)
           n == Len(xs)
<1>1. xs \in Seq(Seq(T)) /\ OfWidth(xs, 2) /\ Len(ss) = 2 * n /\ n \in Nat
  BY PairsAreSeqs
<1>2. Len(ss) \div 2 = n
  <2> HIDE DEF ss
  <2> QED
    BY <1>1
<1>3. ASSUME NEW i \in 1..n PROVE <<ss[2 * i - 1], ss[2 * i]>> = xs[i]
  <2>1. \A k \in 1..2 : ss[(i - 1) * 2 + k] = xs[i][k]
    <3> DEFINE U == T
               w == 2
    <3>1. w \in Nat /\ xs \in Seq(Seq(U)) /\ OfWidth(xs, w) /\ i \in 1..Len(xs)
      BY <1>1
    <3> HIDE DEF U, w
    <3>2. RowStands(xs, w, i)
      BY <3>1, FlattenRow
    <3> QED
      BY <3>2 DEF w, RowStands
  <2>2. (i - 1) * 2 + 1 = 2 * i - 1 /\ (i - 1) * 2 + 2 = 2 * i /\ 1 \in 1..2 /\ 2 \in 1..2
    OBVIOUS
  <2>3. ss[2 * i - 1] = xs[i][1] /\ ss[2 * i] = xs[i][2]
    BY <2>1, <2>2
  <2>4. xs[i] = <<xs[i][1], xs[i][2]>>
    BY PairIsSeq
  <2> QED
    BY <2>3, <2>4
<1>4. Pairs(ss) = [i \in 1..n |-> <<ss[2 * i - 1], ss[2 * i]>>]
  BY <1>2 DEF Pairs
<1> HIDE DEF ss
<1>5. xs = [i \in 1..n |-> xs[i]]
  OBVIOUS
<1> QED
  BY <1>3, <1>4, <1>5 DEF ss

-----------------------------------------------------------------------------
\* The items of a request.

TaskNames == {"embed", "rerank", "evaluate"}

\* What was read as the items of a request.
ItemsTaken(p, task, count, c, e) ==
    /\ Follows(p, c, e)
    /\ e.at # 0 =>
          /\ task # "evaluate" =>
                /\ e.got \in Seq(Seq(Units))
                /\ Len(e.got) = IF task = "rerank" THEN 2 * count ELSE count
          /\ task = "evaluate" =>
                e.got[1] \in Nat /\ e.got[2] \in Seq(Nat) /\ Len(e.got[2]) = count * e.got[1]
          /\ \A w \in Seq(Nat) : Begins(p, w) => TakeItems(w, task, count, c) = e

LEMMA ItemsFollow ==
    ASSUME NEW p \in Seq(Units), NEW task \in TaskNames, NEW count \in Nat, NEW c \in Cursors,
           Follows(p, c, c), c.got = <<>>
    PROVE  ItemsTaken(p, task, count, c, TakeItems(p, task, count, c))
<1> DEFINE e == TakeItems(p, task, count, c)
<1>0. p \in Seq(Nat)
  BY Numbers
<1>1. CASE task # "evaluate"
  <2> DEFINE n == IF task = "rerank" THEN 2 * count ELSE count
  <2>1. n \in Nat /\ c.got \in Seq(Seq(Units)) /\ Len(c.got) = 0
    OBVIOUS
  <2>2. e = TakeStrs(p, n, c) /\ \A w : TakeItems(w, task, count, c) = TakeStrs(w, n, c)
    BY <1>1 DEF TakeItems
  <2> HIDE DEF e
  <2>3. StrsTaken(p, n, c, e)
    <3> HIDE DEF n
    <3> QED
      BY <2>1, <2>2, StrsFollow
  <2>4. ASSUME e.at # 0
        PROVE  /\ e.got \in Seq(Seq(Units)) /\ Len(e.got) = n
               /\ \A w \in Seq(Nat) : Begins(p, w) => TakeItems(w, task, count, c) = e
    <3> HIDE DEF n
    <3>1. /\ e.got \in Seq(Seq(Units)) /\ Len(e.got) = Len(c.got) + n
          /\ \A w \in Seq(Nat) : Begins(p, w) => TakeStrs(w, n, c) = e
      BY <2>3, <2>4 DEF StrsTaken
    <3>2. Len(e.got) = n
      BY <2>1, <3>1
    <3> QED
      BY <2>2, <3>1, <3>2
  <2> QED
    BY <1>1, <2>3, <2>4 DEF ItemsTaken, StrsTaken, e
<1>2. CASE task = "evaluate"
  <2> DEFINE d == TakeWord(p, c)
  <2>1. e = TakeMatrix(p, count, d) /\ \A w : TakeItems(w, task, count, c) = TakeMatrix(w, count, TakeWord(w, c))
    BY <1>2 DEF TakeItems
  <2>2. CASE d.at # 0
    <3>1. PICK n \in Nat : d = Advance(c, 2, n)
      BY <1>0, <2>2, WordFollows
    <3>2. d \in Cursors /\ Follows(p, c, d) /\ \A w \in Seq(Nat) : Begins(p, w) => TakeWord(w, c) = d
      BY <1>0, <2>2, WordFollows DEF Follows
    <3>3. d.got = <<n>>
      BY <3>1 DEF Advance
    <3>4. Last(d.got) = n
      BY <3>3 DEF Last
    <3> DEFINE m == count * n
    <3>5. m \in Nat
      OBVIOUS
    <3> HIDE DEF d, e, m
    <3>6. e = TakeFloats(p, d, m) /\ \A w \in Seq(Nat) : TakeMatrix(w, count, d) = TakeFloats(w, d, m)
      BY <2>1, <2>2, <3>4 DEF TakeMatrix, m
    <3>7. /\ Follows(p, d, e)
          /\ e.at # 0 => \A w \in Seq(Nat) : Begins(p, w) => TakeFloats(w, d, m) = e
      BY <1>0, <3>2, <3>5, <3>6, FloatsFollow
    <3>8. Follows(p, c, e)
      BY <1>0, <3>2, <3>7, FollowsTransitive
    <3>9. ASSUME e.at # 0
          PROVE  /\ e.got[1] \in Nat /\ e.got[2] \in Seq(Nat) /\ Len(e.got[2]) = count * e.got[1]
                 /\ \A w \in Seq(Nat) : Begins(p, w) => TakeItems(w, task, count, c) = e
      <4> DEFINE vs == FloatsAt(p, d.at, m)
      <4>1. e = Advance(d, 2 * m, vs) /\ vs \in Seq(Nat) /\ Len(vs) = m
        BY <1>0, <3>2, <3>5, <3>6, <3>9, FloatsRead
      <4> HIDE DEF vs
      <4>2. e.got[1] = n /\ e.got[2] = vs
        BY <3>3, <4>1 DEF Advance
      <4>3. \A w \in Seq(Nat) : Begins(p, w) => TakeItems(w, task, count, c) = e
        BY <2>1, <3>2, <3>6, <3>7, <3>9
      <4> QED
        BY <4>1, <4>2, <4>3 DEF m
    <3> QED
      BY <1>2, <3>8, <3>9 DEF ItemsTaken, e
  <2>3. CASE d.at = 0
    <3>1. e = Broken
      BY <2>1, <2>3 DEF TakeMatrix
    <3> HIDE DEF e
    <3>2. ItemsTaken(p, task, count, c, e)
      BY <3>1, BrokenFollows DEF ItemsTaken
    <3> QED
      BY <3>2 DEF e
  <2> QED
    BY <2>2, <2>3
<1> QED
  BY <1>1, <1>2

\* A request a frame has room to count.
Frameable(r) ==
    /\ r = [task |-> r.task, model |-> r.model, n |-> r.n, items |-> r.items]
    /\ r.task \in TaskNames /\ r.model \in Strs
    /\ r.task = "embed" => r.n = 0 /\ r.items \in Seq(Strs)
    /\ r.task = "rerank" => r.n = 0 /\ r.items \in Seq(Strs \X Strs)
    /\ r.task = "evaluate" =>
          /\ r.n \in Nat /\ r.n < WordMod /\ r.items \in Seq(Words)
          /\ \E k \in Nat : Len(r.items) = k * r.n
    /\ Len(r.items) < WordMod

CountOf(r) ==
    IF r.task # "evaluate" THEN Len(r.items) ELSE IF r.n = 0 THEN 0 ELSE Len(r.items) \div r.n

BodyOf(r) ==
    CASE r.task = "embed"    -> PutStrs(r.items)
      [] r.task = "rerank"   -> PutPairs(r.items)
      [] r.task = "evaluate" -> Word(r.n) \o Floats(r.items)

\* What reading the body leaves.
GotOf(r) ==
    CASE r.task = "embed"    -> r.items
      [] r.task = "rerank"   -> FlattenSeq(r.items)
      [] r.task = "evaluate" -> <<r.n, r.items>>

LEMMA CountType ==
    ASSUME NEW r, Frameable(r)
    PROVE  /\ CountOf(r) \in Nat /\ CountOf(r) < WordMod
           /\ r.task = "evaluate" => CountOf(r) * r.n = Len(r.items)
<1>0. Len(r.items) \in Nat /\ WordMod \in Nat
  BY UnitsAreNumbers DEF Frameable, TaskNames
<1>1. CASE r.task # "evaluate"
  BY <1>0, <1>1 DEF CountOf, Frameable
<1>2. CASE r.task = "evaluate"
  <2> DEFINE len == Len(r.items)
             n == r.n
  <2>1. PICK k \in Nat : len = k * n
    BY <1>2 DEF Frameable
  <2>2. n \in Nat /\ len \in Nat /\ len < WordMod
    BY <1>0, <1>2 DEF Frameable
  <2> HIDE DEF len, n
  <2>3. CASE n = 0
    <3>1. CountOf(r) = 0 /\ len = 0
      BY <1>2, <2>1, <2>3 DEF CountOf, n
    <3> QED
      BY <1>2, <2>2, <2>3, <3>1, UnitsAreNumbers DEF len, n
  <2>4. CASE n # 0
    <3>1. len = n * k + 0
      BY <2>1, <2>2
    <3>2. len \div n = k
      BY <2>2, <2>4, <3>1, DivisionTells
    <3>3. CountOf(r) = k
      BY <1>2, <2>4, <3>2 DEF CountOf, n, len
    <3>4. k <= len
      <4>1. k * 1 <= k * n
        BY <2>2, <2>4, TimesMonotonic
      <4> QED
        BY <2>1, <4>1
    <3> QED
      BY <1>0, <2>1, <2>2, <3>3, <3>4 DEF len, n
  <2> QED
    BY <2>3, <2>4
<1> QED
  BY <1>1, <1>2

LEMMA SidesAreStrs ==
    ASSUME NEW xs \in Seq(Strs \X Strs)
    PROVE  /\ FlattenSeq(xs) \in Seq(Strs) /\ Len(FlattenSeq(xs)) = 2 * Len(xs)
           /\ PutPairs(xs) = PutStrs(FlattenSeq(xs)) /\ Pairs(FlattenSeq(xs)) = xs
<1>1. FlattenSeq(xs) \in Seq(Strs) /\ Len(FlattenSeq(xs)) = 2 * Len(xs)
  BY PairsAreSeqs
<1>2. xs \in Seq(Seq(Units) \X Seq(Units))
  <2>1. Strs \X Strs \subseteq Seq(Units) \X Seq(Units)
    BY DEF Strs
  <2> QED
    BY <2>1, WiderSeq
<1>3. PutPairs(xs) = PutStrs(FlattenSeq(xs))
  BY <1>2, PutSides
<1>4. Pairs(FlattenSeq(xs)) = xs
  BY PairsOfSides
<1> QED
  BY <1>1, <1>3, <1>4

LEMMA StrsAreTexts ==
    ASSUME NEW ss \in Seq(Strs)
    PROVE  ss \in Seq(Seq(Units)) /\ PutStrs(ss) \in Seq(Units) /\ ss \in Seq(Values)
<1>1. Strs \subseteq Seq(Units) /\ Strs \subseteq Values
  BY Numbers DEF Strs, Values
<1>2. ss \in Seq(Seq(Units)) /\ ss \in Seq(Values)
  BY <1>1, WiderSeq
<1> QED
  BY <1>2, PutStrsAppend

LEMMA BodyRead ==
    ASSUME NEW r, Frameable(r), NEW p \in Seq(Nat), NEW c \in Cursors, c.got = <<>>, Stands(p, c.at, BodyOf(r))
    PROVE  /\ BodyOf(r) \in Seq(Units)
           /\ TakeItems(p, r.task, CountOf(r), c) = [at |-> c.at + Len(BodyOf(r)), got |-> GotOf(r)]
<1>0. r.task \in {"embed", "rerank", "evaluate"} /\ c.at \in Nat /\ c.at # 0
  BY DEF Frameable, TaskNames, Cursors, Stands
<1>1. CASE r.task = "embed"
  <2>1. r.items \in Seq(Strs) /\ BodyOf(r) = PutStrs(r.items) /\ CountOf(r) = Len(r.items) /\ GotOf(r) = r.items
    BY <1>1 DEF Frameable, BodyOf, CountOf, GotOf
  <2>2. TakeItems(p, r.task, CountOf(r), c) = TakeStrs(p, Len(r.items), c)
    BY <1>1, <2>1 DEF TakeItems
  <2>3. TakeStrs(p, Len(r.items), c) = [at |-> c.at + Len(BodyOf(r)), got |-> c.got \o r.items]
    BY <2>1, StrsRead
  <2>4. c.got \o r.items = r.items /\ PutStrs(r.items) \in Seq(Units)
    BY <2>1, StrsAreTexts
  <2> QED
    BY <2>1, <2>2, <2>3, <2>4
<1>2. CASE r.task = "rerank"
  <2> DEFINE ss == FlattenSeq(r.items)
  <2>1. r.items \in Seq(Strs \X Strs) /\ BodyOf(r) = PutPairs(r.items) /\ CountOf(r) = Len(r.items) /\ GotOf(r) = ss
    BY <1>2 DEF Frameable, BodyOf, CountOf, GotOf
  <2>2. ss \in Seq(Strs) /\ Len(ss) = 2 * Len(r.items) /\ BodyOf(r) = PutStrs(ss)
    BY <2>1, SidesAreStrs
  <2> HIDE DEF ss
  <2>3. TakeItems(p, r.task, CountOf(r), c) = TakeStrs(p, Len(ss), c)
    BY <1>2, <2>1, <2>2 DEF TakeItems
  <2>4. TakeStrs(p, Len(ss), c) = [at |-> c.at + Len(BodyOf(r)), got |-> c.got \o ss]
    BY <2>2, StrsRead
  <2>5. c.got \o ss = ss /\ PutStrs(ss) \in Seq(Units)
    BY <2>2, StrsAreTexts
  <2> QED
    BY <2>1, <2>2, <2>3, <2>4, <2>5
<1>3. CASE r.task = "evaluate"
  <2> DEFINE n == r.n
             vs == r.items
             k == CountOf(r)
             h == Word(n)
             f == Floats(vs)
  <2>1. n \in Nat /\ n < WordMod /\ vs \in Seq(Words) /\ BodyOf(r) = h \o f /\ GotOf(r) = <<n, vs>>
        /\ k \in Nat /\ k * n = Len(vs)
    BY <1>3, CountType DEF Frameable, BodyOf, GotOf
  <2> HIDE DEF vs
  <2>2. vs \in Seq(Nat) /\ Len(vs) \in Nat
    <3>1. vs \in Seq(Words) /\ Words \subseteq Nat
      BY <2>1, UnitsAreNumbers
    <3>2. vs \in Seq(Nat)
      BY <3>1, WiderSeq
    <3> QED
      BY <3>2
  <2>3. h \in Seq(Units) /\ h \in Seq(Nat) /\ Len(h) = 2
    BY <2>1, WordType
  <2>4. f \in Seq(Units) /\ f \in Seq(Nat) /\ Len(f) = 2 * Len(vs)
    BY <2>2, FloatsType
  <2> HIDE DEF n, k, h, f
  <2>5. h \o f \in Seq(Units) /\ Len(h \o f) = 2 + 2 * Len(vs)
    BY <2>3, <2>4, ConcatLength
  <2>6. Stands(p, c.at, h) /\ Stands(p, c.at + 2, f)
    <3>1. Stands(p, c.at, h \o f)
      BY <2>1
    <3>2. Stands(p, c.at, h) /\ Stands(p, c.at + Len(h), f)
      BY <2>3, <2>4, <3>1, StandsConcat
    <3> QED
      BY <2>3, <3>2
  <2> DEFINE d == Advance(c, 2, n)
  <2>7. TakeWord(p, c) = d
    BY <2>1, <2>6, WordRead DEF h
  <2>8. d \in Cursors /\ d.at = c.at + 2 /\ d.got = <<n>>
    <3>1. n \in Values
      BY <2>1 DEF Values
    <3>2. d \in Cursors
      BY <3>1, AdvanceType
    <3>3. d.at = c.at + 2 /\ d.got = Append(c.got, n)
      BY DEF Advance
    <3>4. Append(c.got, n) = <<n>>
      OBVIOUS
    <3> QED
      BY <3>2, <3>3, <3>4
  <2> HIDE DEF d
  <2>9. Last(d.got) = n /\ d.at # 0
    BY <1>0, <2>8 DEF Last
  <2>10. TakeItems(p, r.task, k, c) = TakeFloats(p, d, Len(vs))
    BY <1>3, <2>1, <2>7, <2>9 DEF TakeItems, TakeMatrix
  <2>11. TakeFloats(p, d, Len(vs)) = Advance(d, 2 * Len(vs), vs)
    BY <2>1, <2>2, <2>6, <2>8, FloatsRead DEF f
  <2> DEFINE z == 2 * Len(vs)
  <2>12. d.at + z = c.at + (2 + z)
    <3>1. z \in Nat /\ c.at \in Nat /\ d.at = c.at + 2
      BY <1>0, <2>2, <2>8
    <3> HIDE DEF z
    <3> DEFINE i == c.at
    <3>2. i \in Nat /\ (i + 2) + z = i + (2 + z)
      <4> HIDE DEF i
      <4>1. i \in Nat
        BY <3>1 DEF i
      <4> QED
        BY <3>1, <4>1
    <3> QED
      BY <3>1, <3>2
  <2>13. Append(<<n>>, vs) = <<n, vs>>
    BY TwoAppended
  <2>14. Advance(d, z, vs) = [at |-> c.at + (2 + z), got |-> <<n, vs>>]
    <3>1. d.at + z = c.at + (2 + z) /\ Append(d.got, vs) = <<n, vs>>
      BY <2>8, <2>12, <2>13
    <3> HIDE DEF z, d
    <3> QED
      BY <3>1 DEF Advance
  <2>15. TakeItems(p, r.task, k, c) = [at |-> c.at + Len(h \o f), got |-> <<n, vs>>]
    BY <2>5, <2>10, <2>11, <2>14
  <2> QED
    BY <2>1, <2>5, <2>15 DEF k
<1> QED
  BY <1>0, <1>1, <1>2, <1>3

LEMMA EncodeShape ==
    ASSUME NEW r, Frameable(r)
    PROVE  EncodeRequest(r) = Opening(r.task, r.model, CountOf(r)) \o BodyOf(r)
<1>0. r.task \in {"embed", "rerank", "evaluate"}
  BY DEF Frameable, TaskNames
<1>1. CASE r.task = "embed"
  BY <1>1 DEF EncodeRequest, EncodeEmbed, CountOf, BodyOf, PutStrs
<1>2. CASE r.task = "rerank"
  BY <1>2 DEF EncodeRequest, EncodeRerank, CountOf, BodyOf, PutPairs
<1>3. CASE r.task = "evaluate"
  <2>1. r.n \in Nat /\ r.n < WordMod /\ Len(r.items) \in Nat /\ Len(r.items) < WordMod
        /\ WordMod \in Nat \ {0} /\ WordMod \in Nat
    BY <1>3, UnitsAreNumbers DEF Frameable
  <2>2. r.n % WordMod = r.n /\ Len(r.items) % WordMod = Len(r.items)
    BY <2>1, DivisionSmall
  <2>3. EncodeRequest(r) = EncodeEvaluate(r.model, r.n, r.items)
    BY <1>3 DEF EncodeRequest
  <2>4. EncodeEvaluate(r.model, r.n, r.items) = Opening("evaluate", r.model, CountOf(r)) \o Word(r.n) \o Floats(r.items)
    BY <1>3, <2>2 DEF EncodeEvaluate, CountOf
  <2>5. Opening("evaluate", r.model, CountOf(r)) \in Seq(Units) /\ Word(r.n) \in Seq(Units) /\ Floats(r.items) \in Seq(Units)
    <3>1. r.items \in Seq(Words) /\ r.model \in Seq(Units) /\ CountOf(r) \in Nat
      BY <1>3, CountType DEF Frameable, Strs
    <3>2. r.items \in Seq(Nat)
      BY <3>1, UnitsAreNumbers, WiderSeq
    <3>3. ProtocolVersion \in Units /\ Code("evaluate") \in Units
      BY CodeOf, UnitsAreNumbers DEF ProtocolVersion
    <3>4. PutStr(r.model) \in Seq(Units) /\ Word(CountOf(r)) \in Seq(Units)
      BY <3>1, StrType, WordType
    <3>5. Opening("evaluate", r.model, CountOf(r)) \in Seq(Units)
      BY <3>3, <3>4 DEF Opening
    <3> QED
      BY <2>1, <3>2, <3>5, WordType, FloatsType
  <2> DEFINE o == Opening("evaluate", r.model, CountOf(r))
             h == Word(r.n)
             f == Floats(r.items)
  <2>6. o \o h \o f = o \o (h \o f)
    <3> HIDE DEF o, h, f
    <3> QED
      BY <2>5 DEF o, h, f
  <2>7. BodyOf(r) = h \o f
    BY <1>3 DEF BodyOf
  <2> QED
    BY <1>3, <2>3, <2>4, <2>6, <2>7
<1> QED
  BY <1>0, <1>1, <1>2, <1>3

\* decode_request gives back what encode_embed, encode_rerank and
\* encode_evaluate were given: any texts, pairs and rows, of any lengths that a
\* u32 counts, come out of a frame as they went in (protocol lib.rs:64-180).
THEOREM RequestRead ==
    ASSUME NEW r, Frameable(r)
    PROVE  DecodeRequest(EncodeRequest(r)) = r /\ EncodeRequest(r) \in Seq(Units) /\ Len(EncodeRequest(r)) >= 6
<1> DEFINE p == EncodeRequest(r)
           k == CountOf(r)
           o == Opening(r.task, r.model, k)
           b == BodyOf(r)
           h == OpeningOf(p)
           c == [h EXCEPT !.got = <<>>]
           e == TakeItems(p, r.task, k, c)
<1>1. r.task \in {"embed", "rerank", "evaluate"} /\ r.model \in Strs /\ k \in Nat /\ k < WordMod
  BY CountType DEF Frameable, TaskNames
<1>2. o \in Seq(Units) /\ b \in Seq(Units) /\ Len(o) = Len(r.model) + 6 /\ Len(r.model) \in Nat
  <2>1. b \in Seq(Units)
    <3>1. CASE r.task = "embed"
      BY <3>1, StrsAreTexts DEF Frameable, BodyOf
    <3>2. CASE r.task = "rerank"
      BY <3>2, SidesAreStrs, StrsAreTexts DEF Frameable, BodyOf
    <3>3. CASE r.task = "evaluate"
      <4>1. r.items \in Seq(Nat) /\ r.n \in Nat
        BY <3>3, UnitsAreNumbers, WiderSeq DEF Frameable
      <4>2. Word(r.n) \in Seq(Units) /\ Floats(r.items) \in Seq(Units)
        BY <4>1, WordType, FloatsType
      <4>3. b = Word(r.n) \o Floats(r.items)
        BY <3>3 DEF BodyOf
      <4> HIDE DEF b
      <4> QED
        BY <4>2, <4>3, ConcatLength
    <3> QED
      BY <1>1, <3>1, <3>2, <3>3
  <2>2. o \in Seq(Units) /\ Len(o) = Len(r.model) + 6
    <3>1. ProtocolVersion \in Units /\ Code(r.task) \in Units /\ r.model \in Seq(Units)
      BY <1>1, CodeOf, UnitsAreNumbers DEF ProtocolVersion, Strs
    <3> DEFINE s == PutStr(r.model)
               w == Word(k)
               v == <<ProtocolVersion, Code(r.task)>>
    <3>2. s \in Seq(Units) /\ Len(s) = 2 + Len(r.model) /\ w \in Seq(Units) /\ Len(w) = 2
      BY <1>1, <3>1, StrType, WordType
    <3>3. v \in Seq(Units) /\ Len(v) = 2
      BY <3>1
    <3>4. o = (v \o s) \o w
      BY DEF Opening
    <3> HIDE DEF o, v, s, w
    <3> DEFINE x == v \o s
               len == Len(r.model)
    <3>5. x \in Seq(Units) /\ Len(x) = Len(v) + Len(s)
      BY <3>2, <3>3, ConcatLength
    <3>6. x \o w \in Seq(Units) /\ Len(x \o w) = Len(x) + Len(w)
      <4> HIDE DEF x
      <4> QED
        BY <3>2, <3>5, ConcatLength
    <3>7. o \in Seq(Units) /\ Len(o) = Len(x) + Len(w)
      BY <3>4, <3>6
    <3>8. len \in Nat
      BY <3>1
    <3>9. Len(o) = len + 6
      <4>1. Len(x) = 2 + (2 + len) /\ Len(o) = Len(x) + 2
        BY <3>2, <3>3, <3>5, <3>7
      <4> HIDE DEF x, len
      <4> QED
        BY <3>8, <4>1
    <3> QED
      BY <3>7, <3>9
  <2> QED
    BY <1>1, <2>1, <2>2 DEF Strs
<1>3. p = o \o b
  BY EncodeShape
<1> HIDE DEF p, o, b, k
<1>4. p \in Seq(Units) /\ p \in Seq(Nat) /\ Len(p) = Len(o) + Len(b) /\ o \in Seq(Nat) /\ b \in Seq(Nat)
      /\ Len(b) \in Nat
  BY <1>2, <1>3, ConcatLength, Numbers
<1>5. Stands(p, 1, o) /\ Stands(p, 1 + Len(o), b)
  BY <1>3, <1>4, StandsWhole, StandsConcat
<1>6. h = [at |-> Len(o) + 1, got |-> <<ProtocolVersion, Code(r.task), r.model, k>>]
  BY <1>1, <1>4, <1>5, OpeningRead DEF o
<1>7. c \in Cursors /\ c.got = <<>> /\ c.at = 1 + Len(o)
  <2>1. c = [at |-> Len(o) + 1, got |-> <<>>]
    BY <1>6
  <2> HIDE DEF c
  <2>2. Len(o) + 1 \in Nat /\ <<>> \in Seq(Values) /\ Len(o) + 1 = 1 + Len(o)
    BY <1>2
  <2> QED
    BY <2>1, <2>2 DEF Cursors
<1> HIDE DEF c
<1>8. e = [at |-> c.at + Len(b), got |-> GotOf(r)]
  BY <1>4, <1>5, <1>7, BodyRead DEF b, k
<1>9. AtEnd(p, e)
  <2>1. c.at + Len(b) = Len(p) + 1
    BY <1>2, <1>4, <1>7
  <2> QED
    BY <1>8, <2>1 DEF AtEnd
<1>10. h.at # 0 /\ h.got[1] = ProtocolVersion /\ h.got[2] = Code(r.task) /\ h.got[3] = r.model /\ h.got[4] = k
  BY <1>2, <1>6
<1>11. Code(r.task) \in 0..2 /\ Tasks[Code(r.task) + 1] = r.task
  BY <1>1, CodeOf
<1>12. DecodeRequest(p) = DecodeRest(p, h)
  BY DEF DecodeRequest, OpeningOf
<1> HIDE DEF h, e
<1>13. DecodeRest(p, h) = Decoded(p, r.task, r.model, e)
  BY <1>10, <1>11 DEF DecodeRest, e, c
<1>14. Decoded(p, r.task, r.model, e) = r
  <2>0. e.got = GotOf(r)
    BY <1>8
  <2>1. CASE r.task = "embed"
    BY <1>9, <2>0, <2>1 DEF Decoded, GotOf, Frameable
  <2>2. CASE r.task = "rerank"
    <3>1. Pairs(FlattenSeq(r.items)) = r.items
      BY <2>2, SidesAreStrs DEF Frameable
    <3> QED
      BY <1>9, <2>0, <2>2, <3>1 DEF Decoded, GotOf, Frameable
  <2>3. CASE r.task = "evaluate"
    BY <1>9, <2>0, <2>3 DEF Decoded, GotOf, Frameable
  <2> QED
    BY <1>1, <2>1, <2>2, <2>3
<1>15. Len(p) >= 6
  BY <1>2, <1>4
<1> QED
  BY <1>4, <1>12, <1>13, <1>14, <1>15 DEF p

-----------------------------------------------------------------------------
\* What decodes at all.

\* A request as DecodeRequest leaves it.
Requested(r) ==
    /\ r = [task |-> r.task, model |-> r.model, n |-> r.n, items |-> r.items]
    /\ r.task \in TaskNames /\ r.model \in Seq(Units) /\ r.n \in Nat
    /\ r.task = "embed" => r.items \in Seq(Seq(Units))
    /\ r.task = "rerank" => r.items \in Seq(Seq(Units) \X Seq(Units))
    /\ r.task = "evaluate" => /\ r.items \in Seq(Nat)
                              /\ \E k \in Nat : Len(r.items) = k * r.n

LEMMA TaskOf == \A k \in 0..2 : Tasks[k + 1] \in TaskNames
<1>1. ASSUME NEW k \in 0..2 PROVE Tasks[k + 1] \in TaskNames
  <2>1. k = 0 \/ k = 1 \/ k = 2
    OBVIOUS
  <2>2. Tasks[0 + 1] = "embed" /\ Tasks[1 + 1] = "rerank" /\ Tasks[2 + 1] = "evaluate"
    BY DEF Tasks
  <2> QED
    BY <2>1, <2>2 DEF TaskNames
<1> QED
  BY <1>1

LEMMA PairsType ==
    ASSUME NEW ss \in Seq(Seq(Units)), NEW n \in Nat, Len(ss) = 2 * n
    PROVE  Pairs(ss) \in Seq(Seq(Units) \X Seq(Units))
<1>1. Len(ss) \div 2 = n
  BY DivisionTells
<1>2. \A i \in 1..n : 2 * i - 1 \in 1..Len(ss) /\ 2 * i \in 1..Len(ss)
  OBVIOUS
<1> DEFINE t == [i \in 1..n |-> <<ss[2 * i - 1], ss[2 * i]>>]
<1>3. Pairs(ss) = t
  BY <1>1 DEF Pairs
<1>4. ASSUME NEW i \in 1..n PROVE <<ss[2 * i - 1], ss[2 * i]>> \in Seq(Units) \X Seq(Units)
  <2>1. ss[2 * i - 1] \in Seq(Units) /\ ss[2 * i] \in Seq(Units)
    BY <1>2
  <2> QED
    BY <2>1
<1>5. t \in Seq(Seq(Units) \X Seq(Units))
  <2>1. t = [i \in 1..n |-> t[i]] /\ \A i \in 1..n : t[i] \in Seq(Units) \X Seq(Units)
    BY <1>4
  <2> HIDE DEF t
  <2> QED
    BY <2>1, TypeOfSeq
<1> QED
  BY <1>3, <1>5

\* A payload that decodes is a request of this version, and no longer payload
\* begins with it: decode_request takes what is there, all of it, or refuses
\* (Cursor::take and Cursor::finish).
THEOREM DecodesWhole ==
    ASSUME NEW p \in Seq(Units), DecodeRequest(p) # Malformed
    PROVE  /\ Requested(DecodeRequest(p))
           /\ Len(p) >= 2 /\ p[1] = ProtocolVersion /\ p[2] \in 0..2
           /\ \A w \in Seq(Units) : Begins(p, w) /\ Len(w) > Len(p) => DecodeRequest(w) = Malformed
<1> DEFINE h == OpeningOf(p)
           task == Tasks[h.got[2] + 1]
           c == [h EXCEPT !.got = <<>>]
           e == TakeItems(p, task, h.got[4], c)
<1>1. OpeningTaken(p, h)
  BY OpeningFollows
<1>2. DecodeRequest(p) = DecodeRest(p, h)
  BY DEF DecodeRequest, OpeningOf
<1>3. h.at # 0 /\ h.got[1] = ProtocolVersion /\ h.got[2] \in 0..2
  BY <1>2 DEF DecodeRest
<1>4. DecodeRequest(p) = Decoded(p, task, h.got[3], e)
  BY <1>2, <1>3 DEF DecodeRest
<1>5. /\ Follows(p, Start, h) /\ Len(p) >= 2 /\ h.got[1] = p[1] /\ h.got[2] = p[2]
      /\ h.got[3] \in Seq(Units) /\ h.got[4] \in Nat
      /\ \A w \in Seq(Nat) : Begins(p, w) => OpeningOf(w) = h
  BY <1>1, <1>3 DEF OpeningTaken
<1>6. task \in TaskNames
  BY <1>3, TaskOf
<1>7. c \in Cursors /\ Follows(p, c, c) /\ c.got = <<>>
  <2>1. h \in Cursors /\ h.at <= Len(p) + 1
    BY <1>3, <1>5 DEF Follows, Broken
  <2>2. c = [at |-> h.at, got |-> <<>>]
    BY <2>1 DEF Cursors
  <2> HIDE DEF c, h
  <2>3. c \in Cursors /\ c.at = h.at /\ c.got = <<>>
    BY <2>1, <2>2 DEF Cursors
  <2> QED
    BY <1>3, <2>1, <2>3 DEF Follows, Cursors
<1> HIDE DEF c, task
<1>8. ItemsTaken(p, task, h.got[4], c, e)
  <2> HIDE DEF h
  <2> QED
    BY <1>5, <1>6, <1>7, ItemsFollow
<1>9. AtEnd(p, e)
  BY <1>4 DEF Decoded
<1>10. e.at # 0 /\ e.at = Len(p) + 1
  BY <1>9 DEF AtEnd
<1> HIDE DEF e
<1>11. /\ task # "evaluate" =>
             /\ e.got \in Seq(Seq(Units))
             /\ Len(e.got) = IF task = "rerank" THEN 2 * h.got[4] ELSE h.got[4]
       /\ task = "evaluate" =>
             e.got[1] \in Nat /\ e.got[2] \in Seq(Nat) /\ Len(e.got[2]) = h.got[4] * e.got[1]
       /\ \A w \in Seq(Nat) : Begins(p, w) => TakeItems(w, task, h.got[4], c) = e
  BY <1>8, <1>10 DEF ItemsTaken
<1> DEFINE r == Decoded(p, task, h.got[3], e)
<1>12. Requested(r)
  <2> HIDE DEF h
  <2>1. CASE task = "embed"
    <3>1. r = [task |-> "embed", model |-> h.got[3], n |-> 0, items |-> e.got]
      BY <1>9, <2>1 DEF Decoded
    <3> HIDE DEF r
    <3> QED
      BY <1>5, <1>11, <2>1, <3>1 DEF Requested, TaskNames
  <2>2. CASE task = "rerank"
    <3>1. r = [task |-> "rerank", model |-> h.got[3], n |-> 0, items |-> Pairs(e.got)]
      BY <1>9, <2>2 DEF Decoded
    <3>2. e.got \in Seq(Seq(Units)) /\ Len(e.got) = 2 * h.got[4]
      BY <1>11, <2>2
    <3>3. Pairs(e.got) \in Seq(Seq(Units) \X Seq(Units))
      BY <1>5, <3>2, PairsType
    <3> HIDE DEF r
    <3> QED
      BY <1>5, <3>1, <3>3 DEF Requested, TaskNames
  <2>3. CASE task = "evaluate"
    <3>1. r = [task |-> "evaluate", model |-> h.got[3], n |-> e.got[1], items |-> e.got[2]]
      BY <1>9, <2>3 DEF Decoded
    <3>2. e.got[1] \in Nat /\ e.got[2] \in Seq(Nat) /\ Len(e.got[2]) = h.got[4] * e.got[1]
      BY <1>11, <2>3
    <3>3. \E k \in Nat : Len(e.got[2]) = k * e.got[1]
      BY <1>5, <3>2
    <3> HIDE DEF r
    <3> QED
      BY <1>5, <3>1, <3>2, <3>3 DEF Requested, TaskNames
  <2> QED
    BY <1>6, <2>1, <2>2, <2>3 DEF TaskNames
<1>13. ASSUME NEW w \in Seq(Units), Begins(p, w), Len(w) > Len(p) PROVE DecodeRequest(w) = Malformed
  <2>1. w \in Seq(Nat)
    BY Numbers
  <2>2. OpeningOf(w) = h
    BY <1>5, <1>13, <2>1
  <2>3. TakeItems(w, task, h.got[4], c) = e
    BY <1>11, <1>13, <2>1
  <2>4. DecodeRequest(w) = DecodeRest(w, h)
    BY <2>2 DEF DecodeRequest, OpeningOf
  <2> HIDE DEF h
  <2>5. DecodeRest(w, h) = Decoded(w, task, h.got[3], e)
    BY <1>3, <2>3 DEF DecodeRest, task, c
  <2>6. ~AtEnd(w, e)
    BY <1>10, <1>13 DEF AtEnd
  <2> QED
    BY <2>4, <2>5, <2>6 DEF Decoded
<1> QED
  BY <1>3, <1>4, <1>5, <1>12, <1>13

\* A request cut anywhere before its end is not taken for a shorter one, whatever
\* it asks: decode_request answers "frame truncated" (protocol lib.rs:271-276).
THEOREM CutRefused ==
    ASSUME NEW r, Frameable(r), r # Malformed,
           NEW p \in Seq(Units), Begins(p, EncodeRequest(r)), Len(p) < Len(EncodeRequest(r))
    PROVE  DecodeRequest(p) = Malformed
<1>1. EncodeRequest(r) \in Seq(Units) /\ DecodeRequest(EncodeRequest(r)) = r
  BY RequestRead
<1>2. Len(EncodeRequest(r)) > Len(p)
  <2> DEFINE w == EncodeRequest(r)
  <2>1. w \in Seq(Units) /\ Len(p) < Len(w)
    BY <1>1
  <2> HIDE DEF w
  <2>2. Len(w) > Len(p)
    BY <2>1
  <2> QED
    BY <2>2 DEF w
<1> QED
  BY <1>1, <1>2, DecodesWhole

-----------------------------------------------------------------------------
\* Numbers in groups.

\* One group, and those behind it.
Groups(n, f) == IF n < Radix THEN <<n>> ELSE <<Radix + (n % Radix)>> \o f[n \div Radix]

LEMMA RadixType ==
    /\ Radix \in Nat \ {0} /\ Radix \in Nat /\ Radix >= 2 /\ 2 * Radix <= Base
    /\ \A x \in 0..(Radix - 1) : x \in Units /\ Radix + x \in Units /\ (Radix + x) % Radix = x /\ x % Radix = x
<1>1. Base \in Nat /\ Base >= 4
  BY BaseAssumption
<1>2. Base = 2 * (Base \div 2) + (Base % 2) /\ Base % 2 \in 0..1 /\ Base \div 2 \in Nat
  BY <1>1, Division
<1>3. Radix \in Nat /\ Radix >= 2 /\ 2 * Radix <= Base
  BY <1>1, <1>2 DEF Radix
<1>4. ASSUME NEW x \in 0..(Radix - 1)
      PROVE  x \in Units /\ Radix + x \in Units /\ (Radix + x) % Radix = x /\ x % Radix = x
  <2>1. Radix + x \in Nat /\ x < Radix /\ Radix + x = Radix * 1 + x /\ x \in Nat
    BY <1>3
  <2>2. (Radix + x) % Radix = x
    BY <1>3, <2>1, DivisionTells
  <2>3. x % Radix = x
    BY <1>3, <2>1, DivisionSmall
  <2> QED
    BY <1>1, <1>3, <2>1, <2>2, <2>3, UnitsAreNumbers
<1> QED
  BY <1>3, <1>4

LEMMA GroupsType ==
    ASSUME NEW n \in Nat, NEW f \in [Nat -> Seq(Units)]
    PROVE  Groups(n, f) \in Seq(Units)
<1>1. CASE n < Radix
  <2>1. n \in Units
    BY <1>1, RadixType
  <2> QED
    BY <1>1, <2>1 DEF Groups
<1>2. CASE ~(n < Radix)
  <2> DEFINE u == <<Radix + (n % Radix)>>
             x == f[n \div Radix]
  <2>1. n % Radix \in 0..(Radix - 1) /\ n \div Radix \in Nat
    BY RadixType, Division
  <2>2. Radix + (n % Radix) \in Units
    BY <2>1, RadixType
  <2>3. u \in Seq(Units) /\ x \in Seq(Units)
    BY <2>1, <2>2
  <2>4. Groups(n, f) = u \o x
    BY <1>2 DEF Groups
  <2> HIDE DEF u, x
  <2> QED
    BY <2>3, <2>4, ConcatLength
<1> QED
  BY <1>1, <1>2

LEMMA HalvedLess ==
    ASSUME NEW n \in Nat, ~(n < Radix)
    PROVE  n \div Radix \in 0..(n - 1) /\ n \div Radix \in Nat
<1> DEFINE q == n \div Radix
           x == n % Radix
           m == Radix
<1>1. m \in Nat /\ m >= 2
  BY RadixType
<1>2. n = m * q + x /\ x \in 0..(m - 1) /\ q \in Nat
  BY RadixType, Division
<1>3. n >= m
  BY <1>1
<1> HIDE DEF q, x, m
<1>4. 2 * q <= m * q
  BY <1>1, <1>2, TimesMonotonic
<1>5. q <= n - 1
  BY <1>1, <1>2, <1>3, <1>4
<1> QED
  BY <1>2, <1>5 DEF q

LEMMA VarUintGroups ==
    /\ VarUint \in [Nat -> Seq(Units)]
    /\ \A n \in Nat : VarUint[n] = Groups(n, VarUint)
<1> DEFINE S == Seq(Units)
           F == [z \in Nat \X [Nat -> S] |-> Groups(z[1], z[2])]
           G(f) == f = [n \in Nat |-> Groups(n, f)]
<1>1. Descends(S, F)
  <2>1. \A n \in Nat : \A f \in [Nat -> S] : F[<<n, f>>] = Groups(n, f) /\ Groups(n, f) \in S
    BY GroupsType
  <2>2. F \in [Nat \X [Nat -> S] -> S]
    BY GroupsType
  <2>3. ASSUME NEW n \in Nat, NEW f \in [Nat -> S], NEW g \in [Nat -> S], \A m \in 0..(n - 1) : f[m] = g[m]
        PROVE  Groups(n, f) = Groups(n, g)
    <3>1. CASE n < Radix
      BY <3>1 DEF Groups
    <3>2. CASE ~(n < Radix)
      <4>1. f[n \div Radix] = g[n \div Radix]
        BY <2>3, <3>2, HalvedLess
      <4> QED
        BY <4>1 DEF Groups
    <3> QED
      BY <3>1, <3>2
  <2>4. ASSUME NEW n \in Nat, NEW f \in [Nat -> S], NEW g \in [Nat -> S], \A m \in 0..(n - 1) : f[m] = g[m]
        PROVE  F[<<n, f>>] = F[<<n, g>>]
    <3>1. F[<<n, f>>] = Groups(n, f) /\ F[<<n, g>>] = Groups(n, g)
      BY <2>1
    <3>2. Groups(n, f) = Groups(n, g)
      BY <2>3, <2>4
    <3> HIDE DEF F
    <3> QED
      BY <3>1, <3>2
  <2> HIDE DEF F, S
  <2> QED
    BY <2>2, <2>4 DEF Descends
<1>2. <<>> \in S
  OBVIOUS
<1>3. \E f \in [Nat -> S] : \A n \in Nat : f[n] = F[<<n, f>>]
  <2> HIDE DEF S, F
  <2> QED
    BY <1>1, <1>2, Descent
<1>4. \E f : G(f)
  <2>1. PICK f \in [Nat -> S] : \A n \in Nat : f[n] = F[<<n, f>>]
    BY <1>3
  <2>2. \A n \in Nat : F[<<n, f>>] = Groups(n, f)
    OBVIOUS
  <2>3. \A n \in Nat : f[n] = Groups(n, f)
    BY <2>1, <2>2
  <2>4. f = [n \in Nat |-> f[n]]
    OBVIOUS
  <2> QED
    BY <2>3, <2>4
<1>5. VarUint = CHOOSE f : G(f)
  BY Zenon DEF VarUint, Groups
<1>6. G(VarUint)
  BY <1>4, <1>5, Zenon
<1>7. \A n \in Nat : VarUint[n] = Groups(n, VarUint)
  BY <1>6
<1>8. ASSUME NEW n \in Nat PROVE VarUint[n] \in Seq(Units)
  <2> DEFINE N == {k \in Nat : VarUint[k] \in Seq(Units)}
  <2>1. ASSUME NEW k \in Nat, \A j \in Nat : j < k => j \in N PROVE k \in N
    <3>1. CASE k < Radix
      <4>1. k \in Units
        BY <3>1, RadixType
      <4>2. VarUint[k] = <<k>>
        BY <1>7, <3>1 DEF Groups
      <4>3. <<k>> \in Seq(Units)
        BY <4>1
      <4> QED
        BY <4>2, <4>3
    <3>2. CASE ~(k < Radix)
      <4> DEFINE u == <<Radix + (k % Radix)>>
                 x == VarUint[k \div Radix]
      <4>1. k \div Radix \in N
        BY <2>1, <3>2, HalvedLess
      <4>2. Radix + (k % Radix) \in Units
        BY RadixType, Division
      <4>3. u \in Seq(Units) /\ x \in Seq(Units)
        BY <4>1, <4>2
      <4>4. VarUint[k] = u \o x
        BY <1>7, <3>2 DEF Groups
      <4> HIDE DEF u, x
      <4>5. VarUint[k] \in Seq(Units)
        BY <4>3, <4>4, ConcatLength
      <4> QED
        BY <4>5
    <3> QED
      BY <3>1, <3>2
  <2> HIDE DEF N
  <2>2. \A k \in Nat : k \in N
    BY <2>1, StrongInduction
  <2> QED
    BY <2>2 DEF N
<1> QED
  BY <1>6, <1>7, <1>8

\* The groups that end before e: each one in front adds its own digit.
LEMMA GroupedStep ==
    ASSUME NEW p \in Seq(Nat), NEW e \in 1..(Len(p) + 1)
    PROVE  /\ Grouped(p, e - 0, 0) = 0
           /\ \A n \in Nat : n < e => Grouped(p, e - n, n) \in Nat
           /\ \A n \in Nat :
                 n + 1 < e =>
                    Grouped(p, e - (n + 1), n + 1) = Grouped(p, e - n, n) * Radix + (p[e - (n + 1)] % Radix)
<1> DEFINE digit(k) == p[e - k] % Radix
           F == [z \in Nat \X Nat |-> IF z[1] < e /\ z[1] # 0 THEN z[2] * Radix + digit(z[1]) ELSE 0]
           G(f, n) == f = [j \in 0..n |-> IF j = 0 THEN 0 ELSE f[j - 1] * Radix + (p[(e - n) + n - j] % Radix)]
           v == [n \in Nat |-> IF n < e THEN Grouped(p, e - n, n) ELSE (CHOOSE f : Computes(f, Nat, 0, F, n))[n]]
<1>0. Radix \in Nat \ {0} /\ Radix \in Nat /\ e \in Nat /\ Len(p) \in Nat
  BY RadixType
<1>1. \A k \in 1..(e - 1) : digit(k) \in Nat
  <2>1. ASSUME NEW k \in 1..(e - 1) PROVE digit(k) \in Nat
    <3>1. e - k \in 1..Len(p)
      BY <1>0
    <3> DEFINE x == p[e - k]
    <3>2. x \in Nat
      BY <3>1
    <3> HIDE DEF x
    <3>3. x % Radix \in Nat
      BY <1>0, <3>2, Division
    <3> QED
      BY <3>3 DEF x
  <2> QED
    BY <2>1
<1> HIDE DEF digit
<1>2. \A k \in Nat, d \in Nat : k < e /\ k # 0 => d * Radix + digit(k) \in Nat
  <2>1. ASSUME NEW k \in Nat, NEW d \in Nat, k < e, k # 0 PROVE d * Radix + digit(k) \in Nat
    <3>1. digit(k) \in Nat
      BY <1>0, <1>1, <2>1
    <3>2. d * Radix \in Nat
      BY <1>0
    <3> QED
      BY <3>1, <3>2
  <2> QED
    BY <2>1
<1>3. Iterates(Nat, 0, F)
  BY <1>2 DEF Iterates
<1>4. \A k \in Nat, d \in Nat : k < e /\ k # 0 => F[<<k, d>>] = d * Radix + digit(k)
  OBVIOUS
<1> HIDE DEF F
<1>5. ASSUME NEW n \in Nat, n < e PROVE \A j \in 1..n : p[(e - n) + n - j] % Radix = digit(j)
  <2>1. \A j \in 1..n : (e - n) + n - j = e - j
    BY <1>0
  <2> QED
    BY <2>1 DEF digit
<1>6. ASSUME NEW n \in Nat, n < e, NEW f, G(f, n) PROVE Computes(f, Nat, 0, F, n)
  <2> DEFINE h == [j \in 0..n |-> IF j = 0 THEN 0 ELSE f[j - 1] * Radix + (p[(e - n) + n - j] % Radix)]
  <2>1. f = h /\ h = [k \in 0..n |-> h[k]] /\ h[0] = 0
        /\ \A k \in 1..n : h[k] = f[k - 1] * Radix + (p[(e - n) + n - k] % Radix)
    <3>1. f = h
      BY <1>6, Zenon
    <3> DEFINE x(k) == f[k - 1] * Radix + (p[(e - n) + n - k] % Radix)
    <3>2. h = [j \in 0..n |-> IF j = 0 THEN 0 ELSE x(j)]
      BY Zenon
    <3> HIDE DEF x, h
    <3>3. h = [k \in 0..n |-> h[k]] /\ h[0] = 0 /\ \A k \in 1..n : h[k] = x(k)
      BY <3>2
    <3> QED
      BY <3>1, <3>3 DEF x
  <2> HIDE DEF h
  <2>2. f = [k \in 0..n |-> f[k]] /\ f[0] = 0 /\ \A k \in 1..n : f[k] = f[k - 1] * Radix + digit(k)
    BY <1>5, <1>6, <2>1
  <2>3. \A k \in 1..n : f[k - 1] \in Nat => f[k] = F[<<k, f[k - 1]>>]
    <3>1. ASSUME NEW k \in 1..n, f[k - 1] \in Nat PROVE f[k] = F[<<k, f[k - 1]>>]
      <4>1. k \in Nat /\ k < e /\ k # 0
        BY <1>0, <1>6
      <4>2. F[<<k, f[k - 1]>>] = f[k - 1] * Radix + digit(k)
        BY <1>4, <3>1, <4>1
      <4> QED
        BY <2>2, <4>2
    <3> QED
      BY <3>1
  <2> QED
    BY <1>3, <2>2, <2>3, Computed
<1>7. ASSUME NEW n \in Nat, n < e, NEW f, Computes(f, Nat, 0, F, n) PROVE G(f, n)
  <2> DEFINE h == [j \in 0..n |-> IF j = 0 THEN 0 ELSE f[j - 1] * Radix + (p[(e - n) + n - j] % Radix)]
  <2>1. f \in [0..n -> Nat] /\ f[0] = 0 /\ \A k \in 1..n : f[k] = F[<<k, f[k - 1]>>]
    BY <1>7 DEF Computes
  <2>2. ASSUME NEW k \in 0..n PROVE f[k] = h[k]
    <3>1. CASE k # 0
      <4>1. k - 1 \in 0..n /\ k \in 1..n /\ k \in Nat /\ k < e
        BY <1>0, <1>7, <3>1
      <4>2. f[k - 1] \in Nat
        BY <2>1, <4>1
      <4>3. f[k] = f[k - 1] * Radix + digit(k)
        BY <1>4, <2>1, <3>1, <4>1, <4>2
      <4>4. h[k] = f[k - 1] * Radix + (p[(e - n) + n - k] % Radix)
        BY <3>1
      <4>5. p[(e - n) + n - k] % Radix = digit(k)
        BY <1>5, <1>7, <4>1
      <4> HIDE DEF h
      <4> QED
        BY <4>3, <4>4, <4>5
    <3> QED
      BY <2>1, <3>1
  <2>3. h = [k \in 0..n |-> h[k]] /\ f = [k \in 0..n |-> f[k]]
    BY <2>1
  <2> HIDE DEF h
  <2>4. f = h
    BY <2>2, <2>3
  <2> QED
    BY <2>4 DEF h
<1>8. ASSUME NEW n \in Nat PROVE \E f : Computes(f, Nat, 0, F, n) /\ v[n] = f[n]
  <2>0. \E f : Computes(f, Nat, 0, F, n)
    BY <1>3, Recursion
  <2>1. CASE n < e
    <3> DEFINE g == CHOOSE f : G(f, n)
    <3>1. \E f : G(f, n)
      BY <1>7, <2>0, <2>1
    <3>2. G(g, n)
      BY <3>1, Zenon
    <3>3. Grouped(p, e - n, n) = g[n]
      BY Zenon DEF Grouped
    <3>4. v[n] = g[n]
      BY <2>1, <3>3
    <3> HIDE DEF G, g, v
    <3> QED
      BY <1>6, <2>1, <3>2, <3>4
  <2>2. CASE ~(n < e)
    <3> DEFINE g == CHOOSE f : Computes(f, Nat, 0, F, n)
    <3>1. Computes(g, Nat, 0, F, n)
      BY <2>0, Zenon
    <3>2. v[n] = g[n]
      BY <2>2
    <3> HIDE DEF g, v
    <3> QED
      BY <3>1, <3>2
  <2> QED
    BY <2>1, <2>2
<1>9. \A n \in Nat : n < e => v[n] = Grouped(p, e - n, n)
  OBVIOUS
<1> HIDE DEF v, G
<1>10. v[0] = 0 /\ \A n \in Nat : v[n] \in Nat /\ v[n + 1] = F[<<n + 1, v[n]>>]
  BY <1>3, <1>8, Computation
<1>11. Grouped(p, e - 0, 0) = 0
  BY <1>0, <1>9, <1>10
<1>12. ASSUME NEW n \in Nat, n + 1 < e
       PROVE  Grouped(p, e - (n + 1), n + 1) = Grouped(p, e - n, n) * Radix + (p[e - (n + 1)] % Radix)
  <2>1. n + 1 \in Nat /\ n < e /\ n + 1 # 0
    BY <1>0, <1>12
  <2>2. v[n] \in Nat /\ v[n + 1] = F[<<n + 1, v[n]>>]
    BY <1>10
  <2>3. F[<<n + 1, v[n]>>] = v[n] * Radix + digit(n + 1)
    BY <1>4, <1>12, <2>1, <2>2
  <2>4. v[n] = Grouped(p, e - n, n) /\ v[n + 1] = Grouped(p, e - (n + 1), n + 1)
    BY <1>9, <1>12, <2>1
  <2> QED
    BY <2>2, <2>3, <2>4 DEF digit
<1>13. ASSUME NEW n \in Nat, n < e PROVE Grouped(p, e - n, n) \in Nat
  BY <1>9, <1>10, <1>13
<1> QED
  BY <1>11, <1>12, <1>13

LEMMA GroupedValue ==
    ASSUME NEW p \in Seq(Nat), NEW i \in Nat \ {0}, NEW k \in Nat, i + k <= Len(p) + 1
    PROVE  /\ Grouped(p, i, k) \in Nat
           /\ k = 0 => Grouped(p, i, k) = 0
           /\ k # 0 => Grouped(p, i, k) = Grouped(p, i + 1, k - 1) * Radix + (p[i] % Radix)
<1> DEFINE e == i + k
<1>1. e \in 1..(Len(p) + 1) /\ k < e /\ e - k = i /\ (k = 0 => e - 0 = i)
  OBVIOUS
<1>2. k # 0 => k - 1 \in Nat /\ (k - 1) + 1 = k /\ (k - 1) + 1 < e /\ e - (k - 1) = i + 1
  OBVIOUS
<1> HIDE DEF e
<1>3. Grouped(p, e - 0, 0) = 0 /\ (\A n \in Nat : n < e => Grouped(p, e - n, n) \in Nat)
  BY <1>1, GroupedStep
<1>4. \A n \in Nat : n + 1 < e =>
         Grouped(p, e - (n + 1), n + 1) = Grouped(p, e - n, n) * Radix + (p[e - (n + 1)] % Radix)
  BY <1>1, GroupedStep
<1>5. Grouped(p, i, k) \in Nat
  <2>1. Grouped(p, e - k, k) \in Nat
    BY <1>1, <1>3
  <2> QED
    BY <1>1, <2>1
<1>6. k = 0 => Grouped(p, i, k) = 0
  BY <1>1, <1>3
<1>7. ASSUME k # 0 PROVE Grouped(p, i, k) = Grouped(p, i + 1, k - 1) * Radix + (p[i] % Radix)
  <2> DEFINE n == k - 1
  <2>1. n \in Nat /\ n + 1 = k /\ n + 1 < e /\ e - n = i + 1
    BY <1>2, <1>7
  <2> HIDE DEF n
  <2>2. Grouped(p, e - (n + 1), n + 1) = Grouped(p, e - n, n) * Radix + (p[e - (n + 1)] % Radix)
    BY <1>4, <2>1
  <2>3. e - (n + 1) = i
    BY <1>1, <2>1
  <2> QED
    BY <2>1, <2>2, <2>3 DEF n
<1> QED
  BY <1>5, <1>6, <1>7

\* The groups of n at i end where the first one without the bit is, and hold n.
GroupsAt(p, i, n) ==
    LET k == Len(VarUint[n])
    IN  /\ k \in Nat \ {0} /\ i + k <= Len(p) + 1
        /\ p[i + k - 1] < Radix
        /\ \A j \in 1..(k - 1) : ~(p[i + j - 1] < Radix)
        /\ Grouped(p, i, k) = n

LEMMA GroupsRead ==
    ASSUME NEW p \in Seq(Nat)
    PROVE  \A n \in Nat : \A i \in Nat \ {0} : Stands(p, i, VarUint[n]) => GroupsAt(p, i, n)
<1> DEFINE N == {n \in Nat : \A i \in Nat \ {0} : Stands(p, i, VarUint[n]) => GroupsAt(p, i, n)}
<1>1. ASSUME NEW n \in Nat, \A m \in Nat : m < n => m \in N PROVE n \in N
  <2> SUFFICES ASSUME NEW i \in Nat \ {0}, Stands(p, i, VarUint[n]) PROVE GroupsAt(p, i, n)
    OBVIOUS
  <2>0. Radix \in Nat \ {0} /\ Radix \in Nat /\ Len(p) \in Nat
    BY RadixType
  <2>1. CASE n < Radix
    <3>1. VarUint[n] = <<n>> /\ Len(<<n>>) = 1 /\ <<n>>[1] = n
      BY <2>1, VarUintGroups DEF Groups
    <3>2. i + 1 <= Len(p) + 1 /\ p[i] = n
      BY <3>1 DEF Stands
    <3>3. n % Radix = n
      BY <2>0, <2>1, DivisionSmall
    <3>4. Grouped(p, i + 1, 0) = 0
      BY <3>2, GroupedValue
    <3>5. Grouped(p, i, 1) = Grouped(p, i + 1, 1 - 1) * Radix + (p[i] % Radix)
      BY <3>2, GroupedValue
    <3>6. Grouped(p, i, 1) = n
      <4>1. 1 - 1 = 0 /\ 0 * Radix + n = n
        BY <2>0
      <4> QED
        BY <3>2, <3>3, <3>4, <3>5, <4>1
    <3>7. i + 1 - 1 = i
      OBVIOUS
    <3> QED
      BY <2>1, <3>1, <3>2, <3>6, <3>7 DEF GroupsAt
  <2>2. CASE ~(n < Radix)
    <3> DEFINE q == n \div Radix
               x == n % Radix
               u == <<Radix + x>>
               g == VarUint[q]
               k == Len(g)
    <3>1. q \in Nat /\ q < n /\ x \in 0..(Radix - 1) /\ n = Radix * q + x
      <4>1. q \in 0..(n - 1) /\ q \in Nat
        BY <2>2, HalvedLess
      <4>2. n = Radix * q + x /\ x \in 0..(Radix - 1)
        BY <2>0, Division
      <4> HIDE DEF q, x
      <4> QED
        BY <4>1, <4>2
    <3>2. VarUint[n] = u \o g /\ g \in Seq(Units)
      BY <2>2, <3>1, VarUintGroups DEF Groups
    <3>3. u \in Seq(Nat) /\ Len(u) = 1 /\ u[1] = Radix + x /\ g \in Seq(Nat)
      BY <2>0, <3>1, <3>2, Numbers
    <3>4. (Radix + x) % Radix = x
      BY <3>1, RadixType
    <3>5. q \in N
      BY <1>1, <3>1
    <3> HIDE DEF q, x, u, g
    <3>6. Stands(p, i, u) /\ Stands(p, i + Len(u), g) /\ Len(u \o g) = Len(u) + Len(g)
      BY <3>2, <3>3, StandsConcat, ConcatLength
    <3>7. p[i] = Radix + x
      <4>1. 1 \in 1..Len(u) /\ i + 1 - 1 = i
        BY <3>3
      <4> QED
        BY <3>3, <3>6, <4>1 DEF Stands
    <3>8. GroupsAt(p, i + 1, q)
      BY <3>3, <3>5, <3>6 DEF g
    <3>9. /\ k \in Nat \ {0} /\ (i + 1) + k <= Len(p) + 1 /\ p[(i + 1) + k - 1] < Radix
          /\ \A j \in 1..(k - 1) : ~(p[(i + 1) + j - 1] < Radix)
          /\ Grouped(p, i + 1, k) = q
      BY <3>8 DEF GroupsAt, g
    <3>10. Len(VarUint[n]) = k + 1
      BY <3>2, <3>3, <3>6, <3>9
    <3> HIDE DEF k
    <3>11. k + 1 \in Nat \ {0} /\ i + (k + 1) <= Len(p) + 1 /\ p[i + (k + 1) - 1] < Radix
      <4>1. i + (k + 1) <= Len(p) + 1 /\ i + (k + 1) - 1 = (i + 1) + k - 1
        BY <2>0, <3>9
      <4> QED
        BY <3>9, <4>1
    <3>12. \A j \in 1..((k + 1) - 1) : ~(p[i + j - 1] < Radix)
      <4> SUFFICES ASSUME NEW j \in 1..((k + 1) - 1) PROVE ~(p[i + j - 1] < Radix)
        OBVIOUS
      <4>1. CASE j = 1
        <5>1. i + j - 1 = i /\ ~(Radix + x < Radix)
          BY <2>0, <3>1, <4>1
        <5> QED
          BY <3>7, <5>1
      <4>2. CASE j # 1
        <5>1. j - 1 \in 1..(k - 1) /\ (i + 1) + (j - 1) - 1 = i + j - 1
          BY <3>9, <4>2
        <5> QED
          BY <3>9, <5>1
      <4> QED
        BY <4>1, <4>2
    <3>13. Grouped(p, i, k + 1) = n
      <4>1. Grouped(p, i, k + 1) = Grouped(p, i + 1, (k + 1) - 1) * Radix + (p[i] % Radix)
        BY <3>9, <3>11, GroupedValue
      <4>2. (k + 1) - 1 = k
        BY <3>9
      <4>3. Grouped(p, i, k + 1) = q * Radix + x
        BY <3>4, <3>7, <3>9, <4>1, <4>2
      <4>4. q * Radix + x = n
        BY <2>0, <3>1
      <4> QED
        BY <4>3, <4>4
    <3> QED
      BY <3>10, <3>11, <3>12, <3>13 DEF GroupsAt
  <2> QED
    BY <2>1, <2>2
<1> HIDE DEF N
<1>2. \A n \in Nat : n \in N
  BY <1>1, StrongInduction
<1> QED
  BY <1>2 DEF N

LEMMA GroupedAgrees ==
    ASSUME NEW p \in Seq(Nat), NEW w \in Seq(Nat), Begins(p, w)
    PROVE  \A k \in Nat : \A i \in Nat \ {0} : i + k <= Len(p) + 1 => Grouped(w, i, k) = Grouped(p, i, k)
<1> DEFINE N == {k \in Nat : \A i \in Nat \ {0} : i + k <= Len(p) + 1 => Grouped(w, i, k) = Grouped(p, i, k)}
<1>0. Len(p) \in Nat /\ Len(w) \in Nat /\ Len(p) <= Len(w)
  BY DEF Begins
<1>1. 0 \in N
  <2>1. ASSUME NEW i \in Nat \ {0}, i + 0 <= Len(p) + 1 PROVE Grouped(w, i, 0) = Grouped(p, i, 0)
    <3>1. i + 0 <= Len(w) + 1
      BY <1>0, <2>1
    <3> QED
      BY <2>1, <3>1, GroupedValue
  <2> QED
    BY <2>1
<1>2. ASSUME NEW k \in Nat, k \in N PROVE k + 1 \in N
  <2>1. ASSUME NEW i \in Nat \ {0}, i + (k + 1) <= Len(p) + 1 PROVE Grouped(w, i, k + 1) = Grouped(p, i, k + 1)
    <3>1. /\ i + (k + 1) <= Len(w) + 1 /\ i + 1 \in Nat \ {0} /\ (i + 1) + k <= Len(p) + 1
          /\ i \in 1..Len(p) /\ k + 1 # 0 /\ k + 1 \in Nat /\ (k + 1) - 1 = k
      BY <1>0, <2>1
    <3>2. Grouped(p, i, k + 1) = Grouped(p, i + 1, (k + 1) - 1) * Radix + (p[i] % Radix)
      BY <2>1, <3>1, GroupedValue
    <3>3. Grouped(w, i, k + 1) = Grouped(w, i + 1, (k + 1) - 1) * Radix + (w[i] % Radix)
      BY <3>1, GroupedValue
    <3>4. Grouped(w, i + 1, k) = Grouped(p, i + 1, k) /\ w[i] = p[i]
      BY <1>2, <3>1 DEF Begins
    <3> QED
      BY <3>1, <3>2, <3>3, <3>4
  <2> QED
    BY <2>1
<1> HIDE DEF N
<1>3. \A k \in Nat : k \in N
  BY <1>1, <1>2, Induction
<1> QED
  BY <1>3 DEF N

\* Where a number in groups may end.
Ends(p, c) == {k \in 1..MaxGroups : Has(p, c, k) /\ p[c.at + k - 1] < Radix}

LEMMA EndFound ==
    ASSUME NEW p, NEW c, NEW k \in Ends(p, c), \A j \in Ends(p, c) : k <= j
    PROVE  TakeVarUint(p, c) = Advance(c, k, Grouped(p, c.at, k))
<1> DEFINE last == Ends(p, c)
           i == CHOOSE i \in last : \A j \in last : i <= j
<1>1. last # {} /\ i \in last /\ \A j \in last : i <= j
  BY Zenon
<1>2. i = k
  <2>1. i \in Nat /\ k \in Nat /\ i <= k /\ k <= i
    BY <1>1 DEF Ends
  <2> QED
    BY <2>1
<1>3. TakeVarUint(p, c) = IF last = {} THEN Broken ELSE Advance(c, i, Grouped(p, c.at, i))
  BY Zenon DEF TakeVarUint, Ends
<1> QED
  BY <1>1, <1>2, <1>3

LEMMA NoEnd ==
    ASSUME NEW p, NEW c, Ends(p, c) = {}
    PROVE  TakeVarUint(p, c) = Broken
BY DEF TakeVarUint, Ends

LEMMA VarRead ==
    ASSUME NEW p \in Seq(Nat), NEW c \in Cursors, NEW n \in Nat, Len(VarUint[n]) <= MaxGroups,
           Stands(p, c.at, VarUint[n])
    PROVE  TakeVarUint(p, c) = Advance(c, Len(VarUint[n]), n)
<1> DEFINE k == Len(VarUint[n])
<1>1. c.at \in Nat \ {0}
  BY DEF Stands
<1>2. GroupsAt(p, c.at, n)
  BY <1>1, GroupsRead
<1>3. /\ k \in Nat \ {0} /\ c.at + k <= Len(p) + 1
      /\ p[c.at + k - 1] < Radix
      /\ \A j \in 1..(k - 1) : ~(p[c.at + j - 1] < Radix)
      /\ Grouped(p, c.at, k) = n
  BY <1>2 DEF GroupsAt
<1>4. k <= MaxGroups /\ MaxGroups \in Nat
  BY RowAssumption
<1> HIDE DEF k
<1>5. k \in Ends(p, c)
  <2>1. k \in 1..MaxGroups /\ c.at + k - 1 <= Len(p)
    BY <1>1, <1>3, <1>4
  <2> QED
    BY <1>1, <1>3, <2>1 DEF Ends, Has
<1>6. ASSUME NEW j \in Ends(p, c) PROVE k <= j
  <2>1. j \in 1..MaxGroups /\ p[c.at + j - 1] < Radix
    BY DEF Ends
  <2>2. j \notin 1..(k - 1)
    BY <1>3, <2>1
  <2> QED
    BY <1>3, <1>4, <2>1, <2>2
<1> QED
  BY <1>3, <1>5, <1>6, EndFound DEF k

\* What TakeVarUint leaves, d, when it succeeds.
AddsNumber(p, c, d) == \E k \in Nat, n \in Nat : k # 0 /\ Has(p, c, k) /\ d = Advance(c, k, n)

LEMMA VarFollows ==
    ASSUME NEW p \in Seq(Nat), NEW c \in Cursors
    PROVE  /\ Follows(p, c, TakeVarUint(p, c))
           /\ TakeVarUint(p, c).at # 0 =>
                 /\ c.at # 0
                 /\ AddsNumber(p, c, TakeVarUint(p, c))
                 /\ \A w \in Seq(Nat) : Begins(p, w) => TakeVarUint(w, c) = TakeVarUint(p, c)
<1>0. MaxGroups \in Nat /\ c.at \in Nat /\ Len(p) \in Nat
  BY RowAssumption DEF Cursors
<1>1. CASE Ends(p, c) = {}
  BY <1>1, NoEnd, BrokenFollows
<1>2. CASE Ends(p, c) # {}
  <2>1. Ends(p, c) \in SUBSET Nat
    BY DEF Ends
  <2>2. PICK k \in Ends(p, c) : \A j \in Ends(p, c) : k <= j
    BY <1>2, <2>1, LeastNumber
  <2> DEFINE n == Grouped(p, c.at, k)
  <2>3. TakeVarUint(p, c) = Advance(c, k, n)
    BY <2>2, EndFound
  <2>4. k \in 1..MaxGroups /\ Has(p, c, k) /\ p[c.at + k - 1] < Radix /\ k \in Nat /\ k # 0
    BY <1>0, <2>2 DEF Ends
  <2>5. c.at \in Nat \ {0} /\ c.at + k <= Len(p) + 1 /\ c.at # 0
    BY <1>0, <2>4 DEF Has
  <2>6. n \in Nat
    BY <2>4, <2>5, GroupedValue
  <2>7. ASSUME NEW w \in Seq(Nat), Begins(p, w) PROVE TakeVarUint(w, c) = Advance(c, k, n)
    <3>1. Has(w, c, k) /\ Len(w) \in Nat
      BY <2>4, <2>7, HasMore
    <3>2. \A j \in 1..k : w[c.at + j - 1] = p[c.at + j - 1] /\ (Has(w, c, j) => Has(p, c, j))
      <4>1. ASSUME NEW j \in 1..k PROVE w[c.at + j - 1] = p[c.at + j - 1] /\ (Has(w, c, j) => Has(p, c, j))
        <5>1. c.at + j - 1 \in 1..Len(p) /\ c.at + j - 1 <= Len(p)
          BY <1>0, <2>4, <2>5
        <5> QED
          BY <2>5, <2>7, <5>1 DEF Has, Begins
      <4> QED
        BY <4>1
    <3>3. k \in Ends(w, c)
      <4>1. k \in 1..k
        BY <2>4
      <4> QED
        BY <2>4, <3>1, <3>2, <4>1 DEF Ends
    <3>4. ASSUME NEW j \in Ends(w, c) PROVE k <= j
      <4>1. CASE j \in 1..k
        <5>1. j \in Ends(p, c)
          BY <3>2, <4>1 DEF Ends
        <5> QED
          BY <2>2, <5>1
      <4>2. CASE j \notin 1..k
        BY <1>0, <2>4, <4>2 DEF Ends
      <4> QED
        BY <4>1, <4>2
    <3>5. TakeVarUint(w, c) = Advance(c, k, Grouped(w, c.at, k))
      BY <3>3, <3>4, EndFound
    <3>6. Grouped(w, c.at, k) = n
      BY <2>4, <2>5, <2>7, GroupedAgrees
    <3> QED
      BY <3>5, <3>6
  <2> HIDE DEF n
  <2>8. Follows(p, c, Advance(c, k, n)) /\ Advance(c, k, n).at # 0
    BY <2>4, <2>6, AdvanceFollows DEF Values
  <2>9. AddsNumber(p, c, Advance(c, k, n))
    BY <2>4, <2>6 DEF AddsNumber
  <2> QED
    BY <2>3, <2>5, <2>7, <2>8, <2>9
<1> QED
  BY <1>1, <1>2

-----------------------------------------------------------------------------
\* A field of a row.

LEMMA LossyType ==
    ASSUME NEW s
    PROVE  /\ s \in Seq(Nat) => Lossy(s) \in Seq(Nat)
           /\ s \in Seq(Units) => Lossy(s) \in Seq(Units) /\ IsText(Lossy(s))
<1> DEFINE x(i) == IF s[i] \in NotText THEN Replacement ELSE <<s[i]>>
           xs == [i \in 1..Len(s) |-> x(i)]
<1>0. Replacement \in Seq(Units \ NotText) /\ Units \subseteq Nat
  BY RowAssumption, UnitsAreNumbers
<1>1. ASSUME s \in Seq(Nat) PROVE Lossy(s) \in Seq(Nat)
  <2>1. Replacement \in Seq(Nat)
    <3>1. Units \ NotText \subseteq Nat
      BY <1>0
    <3> QED
      BY <1>0, <3>1, WiderSeq
  <2>2. \A i \in 1..Len(s) : s[i] \in Nat
    BY <1>1
  <2>3. \A i \in 1..Len(s) : x(i) \in Seq(Nat)
    BY <2>1, <2>2
  <2>4. DOMAIN s = 1..Len(s) /\ Len(s) \in Nat
    BY <1>1
  <2>5. Lossy(s) = FlattenSeq(xs)
    BY <2>4 DEF Lossy
  <2> HIDE DEF x
  <2>6. xs \in Seq(Seq(Nat))
    BY <2>3, <2>4
  <2> HIDE DEF xs
  <2> QED
    BY <2>5, <2>6, FlattenType
<1>2. ASSUME s \in Seq(Units) PROVE Lossy(s) \in Seq(Units \ NotText)
  <2>2. \A i \in 1..Len(s) : s[i] \in Units
    BY <1>2
  <2>3. ASSUME NEW i \in 1..Len(s) PROVE x(i) \in Seq(Units \ NotText)
    <3>1. CASE s[i] \in NotText
      BY <1>0, <3>1
    <3>2. CASE s[i] \notin NotText
      <4> DEFINE y == s[i]
      <4>1. y \in Units \ NotText
        BY <2>2, <3>2
      <4> HIDE DEF y
      <4>2. <<y>> \in Seq(Units \ NotText)
        BY <4>1
      <4> QED
        BY <3>2, <4>2 DEF y
    <3> QED
      BY <3>1, <3>2
  <2>4. DOMAIN s = 1..Len(s) /\ Len(s) \in Nat
    BY <1>2
  <2>5. Lossy(s) = FlattenSeq(xs)
    BY <2>4 DEF Lossy
  <2> HIDE DEF x
  <2>6. xs \in Seq(Seq(Units \ NotText))
    BY <2>3, <2>4
  <2> HIDE DEF xs
  <2> QED
    BY <2>5, <2>6, FlattenType
<1>3. ASSUME NEW t \in Seq(Units \ NotText) PROVE t \in Seq(Units) /\ IsText(t)
  <2>1. \A i \in DOMAIN t : t[i] \in Units \ NotText
    OBVIOUS
  <2>2. t \in Seq(Units)
    <3>1. Units \ NotText \subseteq Units
      OBVIOUS
    <3> QED
      BY <3>1, WiderSeq
  <2> QED
    BY <2>1, <2>2 DEF IsText
<1> QED
  BY <1>1, <1>2, <1>3

LEMMA LossyAdvance ==
    ASSUME NEW c \in Cursors, NEW n \in Nat, NEW s \in Seq(Nat), c.at # 0
    PROVE  LossyLast(Advance(c, n, s)) = Advance(c, n, Lossy(s))
<1> DEFINE d == Advance(c, n, s)
           g == c.got
           t == Append(g, s)
<1>1. d = [at |-> c.at + n, got |-> t] /\ d.at = c.at + n /\ d.got = t /\ c.at \in Nat /\ g \in Seq(Values)
  BY DEF Advance, Cursors
<1>2. d.at # 0
  BY <1>1
<1>3. s \in Values
  BY DEF Values
<1>4. Front(t) = g /\ Last(t) = s
  <2> HIDE DEF g
  <2> QED
    BY <1>1, <1>3 DEF Front, Last
<1> DEFINE a == c.at + n
<1>7. d = [at |-> a, got |-> t]
  BY <1>1
<1> HIDE DEF t, a
<1> DEFINE x == Append(Front(d.got), Lossy(Last(d.got)))
<1>5. [d EXCEPT !.got = x] = [at |-> a, got |-> Append(Front(t), Lossy(Last(t)))]
  <2>1. x = Append(Front(t), Lossy(Last(t)))
    BY <1>1, Zenon
  <2> HIDE DEF d, x
  <2>2. [d EXCEPT !.got = x] = [at |-> a, got |-> x]
    BY <1>7
  <2> QED
    BY <2>1, <2>2, Zenon
<1>6. LossyLast(d) = [d EXCEPT !.got = x]
  <2> HIDE DEF d
  <2> QED
    BY <1>2, Zenon DEF LossyLast
<1> HIDE DEF d
<1> QED
  BY <1>4, <1>5, <1>6 DEF Advance, d, a

\* How d is left when a field was read.
AddsField(c, d) == \E k \in Nat : \E v \in Values : d = Advance(c, k, v)

\* d = T(p, c) is a read of one field.
FieldTaken(p, c, d) ==
    /\ Follows(p, c, d)
    /\ d.at # 0 => c.at # 0 /\ AddsField(c, d)

AddsUnits(p, c, d) ==
    \E k \in Nat : \E s \in Seq(Nat) : d = Advance(c, k, s) /\ (p \in Seq(Units) => s \in Seq(Units))

AddsFloats(c, d) == \E k \in Nat : \E s \in Seq(Nat) : d = Advance(c, k, s)

LEMMA SizedFollow ==
    ASSUME NEW p \in Seq(Nat), NEW c \in Cursors
    PROVE  LET d == TakeVarUint(p, c)
           IN  /\ FieldTaken(p, c, SizedUnits(p, d)) /\ FieldTaken(p, c, SizedFloats(p, d))
               /\ SizedUnits(p, d).at # 0 =>
                     /\ \A w \in Seq(Nat) : Begins(p, w) => SizedUnits(w, TakeVarUint(w, c)) = SizedUnits(p, d)
                     /\ AddsUnits(p, c, SizedUnits(p, d))
               /\ SizedFloats(p, d).at # 0 =>
                     /\ \A w \in Seq(Nat) : Begins(p, w) => SizedFloats(w, TakeVarUint(w, c)) = SizedFloats(p, d)
                     /\ AddsFloats(c, SizedFloats(p, d))
<1> DEFINE d == TakeVarUint(p, c)
           u == SizedUnits(p, d)
           f == SizedFloats(p, d)
<1>1. CASE d.at = 0
  <2>1. d = Broken
    BY <1>1, VarFollows DEF Follows
  <2>2. u = Broken /\ f = Broken
    BY <2>1, SizedBroken
  <2> QED
    BY <2>2, BrokenFollows DEF FieldTaken
<1>2. CASE d.at # 0
  <2>1. c.at # 0 /\ Follows(p, c, d) /\ AddsNumber(p, c, d) /\ \A w \in Seq(Nat) : Begins(p, w) => TakeVarUint(w, c) = d
    BY <1>2, VarFollows
  <2>2. PICK k \in Nat, n \in Nat : d = Advance(c, k, n)
    BY <2>1 DEF AddsNumber
  <2> DEFINE g == Moved(c, k)
  <2>3. g \in Cursors /\ g.at = d.at /\ g.at = c.at + k /\ g.got = c.got /\ c.at \in Nat
    BY <2>2, MovedType DEF Advance, Cursors
  <2>4. \A m \in Nat : \A v : Advance(g, m, v) = Advance(c, k + m, v)
    BY MovedType
  <2>5. \A w : SizedUnits(w, d) = TakeUnits(w, g, n) /\ SizedFloats(w, d) = TakeFloats(w, g, n)
    BY <2>1, <2>2, SizedAfter
  <2> HIDE DEF d, g, u, f
  <2>6. u = TakeUnits(p, g, n) /\ f = TakeFloats(p, g, n)
    BY <2>5 DEF u, f
  <2>7. /\ Follows(p, g, u)
        /\ u.at # 0 => \A w \in Seq(Nat) : Begins(p, w) => TakeUnits(w, g, n) = u
    BY <2>3, <2>6, UnitsFollow
  <2>8. /\ Follows(p, g, f)
        /\ f.at # 0 => \A w \in Seq(Nat) : Begins(p, w) => TakeFloats(w, g, n) = f
    BY <2>3, <2>6, FloatsFollow
  <2>9. Follows(p, c, u) /\ Follows(p, c, f)
    BY <2>1, <2>3, <2>7, <2>8 DEF Follows, Cursors
  <2>10. ASSUME u.at # 0
         PROVE  /\ \A w \in Seq(Nat) : Begins(p, w) => SizedUnits(w, TakeVarUint(w, c)) = u
                /\ AddsUnits(p, c, u)
    <3>1. \A w \in Seq(Nat) : Begins(p, w) => SizedUnits(w, TakeVarUint(w, c)) = u
      BY <2>1, <2>5, <2>7, <2>10
    <3> DEFINE s == SubSeq(p, g.at, g.at + n - 1)
    <3>2. u = Advance(g, n, s) /\ s \in Seq(Nat) /\ (p \in Seq(Units) => s \in Seq(Units))
      BY <2>3, <2>6, <2>10, UnitsRead
    <3> HIDE DEF s
    <3>3. u = Advance(c, k + n, s) /\ k + n \in Nat
      BY <2>4, <3>2
    <3>4. AddsUnits(p, c, u)
      BY <3>2, <3>3 DEF AddsUnits
    <3> QED
      BY <3>1, <3>4
  <2>11. ASSUME f.at # 0
         PROVE  /\ \A w \in Seq(Nat) : Begins(p, w) => SizedFloats(w, TakeVarUint(w, c)) = f
                /\ AddsFloats(c, f)
    <3>1. \A w \in Seq(Nat) : Begins(p, w) => SizedFloats(w, TakeVarUint(w, c)) = f
      BY <2>1, <2>5, <2>8, <2>11
    <3> DEFINE s == FloatsAt(p, g.at, n)
               m == 2 * n
    <3>2. f = Advance(g, m, s) /\ s \in Seq(Nat) /\ m \in Nat
      BY <2>3, <2>6, <2>11, FloatsRead
    <3> HIDE DEF s, m
    <3>3. f = Advance(c, k + m, s) /\ k + m \in Nat
      BY <2>4, <3>2
    <3>4. AddsFloats(c, f)
      BY <3>2, <3>3 DEF AddsFloats
    <3> QED
      BY <3>1, <3>4
  <2>12. (u.at # 0 => AddsField(c, u)) /\ (f.at # 0 => AddsField(c, f))
    BY <2>10, <2>11 DEF AddsUnits, AddsFloats, AddsField, Values
  <2>13. FieldTaken(p, c, u) /\ FieldTaken(p, c, f)
    BY <2>1, <2>9, <2>12 DEF FieldTaken
  <2> QED
    BY <2>10, <2>11, <2>13 DEF d, u, f
<1> QED
  BY <1>1, <1>2

LEMMA RowStringFollows ==
    ASSUME NEW p \in Seq(Nat), NEW c \in Cursors
    PROVE  /\ FieldTaken(p, c, TakeRowString(p, c))
           /\ TakeRowString(p, c).at # 0 =>
                 /\ \A w \in Seq(Nat) : Begins(p, w) => TakeRowString(w, c) = TakeRowString(p, c)
                 /\ AddsUnits(p, c, TakeRowString(p, c))
<1> DEFINE u == SizedUnits(p, TakeVarUint(p, c))
           e == TakeRowString(p, c)
<1>1. e = LossyLast(u) /\ \A w : TakeRowString(w, c) = LossyLast(SizedUnits(w, TakeVarUint(w, c)))
  BY DEF TakeRowString, SizedUnits
<1>2. /\ FieldTaken(p, c, u)
      /\ u.at # 0 =>
            /\ \A w \in Seq(Nat) : Begins(p, w) => SizedUnits(w, TakeVarUint(w, c)) = u
            /\ AddsUnits(p, c, u)
  BY SizedFollow
<1> HIDE DEF u, e
<1>3. CASE u.at = 0
  <2>1. e = Broken
    BY <1>1, <1>3 DEF LossyLast
  <2> QED
    BY <2>1, BrokenFollows DEF FieldTaken, e
<1>4. CASE u.at # 0
  <2>1. PICK k \in Nat, s \in Seq(Nat) : u = Advance(c, k, s) /\ (p \in Seq(Units) => s \in Seq(Units))
    BY <1>2, <1>4 DEF AddsUnits
  <2>2. c.at # 0 /\ Follows(p, c, u) /\ u.at = c.at + k
    BY <1>2, <1>4, <2>1 DEF FieldTaken, Advance
  <2>3. e = Advance(c, k, Lossy(s))
    BY <1>1, <2>1, <2>2, LossyAdvance
  <2>4. Lossy(s) \in Values
    BY LossyType DEF Values
  <2>5. e \in Cursors /\ e.at = u.at
    BY <2>2, <2>3, <2>4, AdvanceType
  <2>6. Follows(p, c, e)
    BY <1>4, <2>2, <2>5 DEF Follows, Broken
  <2>7. AddsField(c, e)
    BY <2>3, <2>4 DEF AddsField
  <2>8. \A w \in Seq(Nat) : Begins(p, w) => TakeRowString(w, c) = e
    BY <1>1, <1>2, <1>4
  <2>9. AddsUnits(p, c, e)
    <3>1. Lossy(s) \in Seq(Nat) /\ (p \in Seq(Units) => Lossy(s) \in Seq(Units))
      BY <2>1, LossyType
    <3> QED
      BY <2>3, <3>1 DEF AddsUnits
  <2> QED
    BY <2>2, <2>6, <2>7, <2>8, <2>9 DEF FieldTaken, e
<1> QED
  BY <1>3, <1>4

LEMMA RowArrayFollows ==
    ASSUME NEW p \in Seq(Nat), NEW c \in Cursors
    PROVE  /\ FieldTaken(p, c, TakeRowArray(p, c))
           /\ TakeRowArray(p, c).at # 0 =>
                 /\ \A w \in Seq(Nat) : Begins(p, w) => TakeRowArray(w, c) = TakeRowArray(p, c)
                 /\ AddsFloats(c, TakeRowArray(p, c))
<1>1. \A w : TakeRowArray(w, c) = SizedFloats(w, TakeVarUint(w, c))
  BY DEF TakeRowArray, SizedFloats
<1> QED
  BY <1>1, SizedFollow

LEMMA CountHeld ==
    ASSUME NEW n \in Nat, n < WordMod
    PROVE  /\ Len(VarUint[n]) <= MaxGroups /\ Len(VarUint[n]) \in Nat \ {0}
           /\ VarUint[n] \in Seq(Units) /\ VarUint[n] \in Seq(Nat)
<1>1. Len(VarUint[n]) <= MaxGroups
  <2>1. n \in Words
    BY UnitsAreNumbers
  <2> QED
    BY <2>1, GroupsAssumption
<1>2. VarUint[n] \in Seq(Units)
  BY VarUintGroups
<1>3. VarUint[n] \in Seq(Nat)
  BY <1>2, Numbers
<1>4. GroupsAt(VarUint[n], 1, n)
  BY <1>3, StandsWhole, GroupsRead
<1>5. Len(VarUint[n]) \in Nat \ {0}
  BY <1>4 DEF GroupsAt
<1> QED
  BY <1>1, <1>2, <1>3, <1>5

LEMMA RowStringType ==
    ASSUME NEW s \in Seq(Units)
    PROVE  RowString(s) \in Seq(Units) /\ Len(RowString(s)) = Len(VarUint[Len(s)]) + Len(s)
<1> DEFINE h == VarUint[Len(s)]
<1>1. h \in Seq(Units)
  BY VarUintGroups
<1>2. RowString(s) = h \o s
  BY DEF RowString
<1> HIDE DEF h
<1>3. h \o s \in Seq(Units) /\ Len(h \o s) = Len(h) + Len(s)
  BY <1>1, ConcatLength
<1> QED
  BY <1>2, <1>3 DEF h

LEMMA RowArrayType ==
    ASSUME NEW vs \in Seq(Nat)
    PROVE  RowArray(vs) \in Seq(Units) /\ Len(RowArray(vs)) = Len(VarUint[Len(vs)]) + 2 * Len(vs)
<1> DEFINE h == VarUint[Len(vs)]
           f == Floats(vs)
<1>1. h \in Seq(Units)
  BY VarUintGroups
<1>2. f \in Seq(Units) /\ Len(f) = 2 * Len(vs)
  BY FloatsType
<1>3. RowArray(vs) = h \o f
  BY DEF RowArray
<1> HIDE DEF h, f
<1>4. h \o f \in Seq(Units) /\ Len(h \o f) = Len(h) + Len(f)
  BY <1>1, <1>2, ConcatLength
<1> QED
  BY <1>2, <1>3, <1>4 DEF h

LEMMA RowStringRead ==
    ASSUME NEW p \in Seq(Nat), NEW c \in Cursors, NEW s \in Seq(Units), Len(s) < WordMod,
           Stands(p, c.at, RowString(s))
    PROVE  TakeRowString(p, c) = Advance(c, Len(RowString(s)), Lossy(s))
<1> DEFINE n == Len(s)
           h == VarUint[n]
           k == Len(h)
           g == Moved(c, k)
<1>1. n \in Nat /\ h \in Seq(Nat) /\ k \in Nat /\ k <= MaxGroups /\ s \in Seq(Nat)
  BY CountHeld, Numbers
<1>2. Stands(p, c.at, h \o s)
  BY DEF RowString
<1>3. Stands(p, c.at, h) /\ Stands(p, c.at + k, s)
  <2> HIDE DEF h
  <2> QED
    BY <1>1, <1>2, StandsConcat
<1>4. c.at # 0
  BY <1>3 DEF Stands
<1>5. TakeVarUint(p, c) = Advance(c, k, n)
  <2>1. Len(VarUint[n]) <= MaxGroups
    BY <1>1
  <2> HIDE DEF n
  <2> QED
    BY <1>1, <1>3, <2>1, VarRead
<1>6. Len(RowString(s)) = k + n
  BY RowStringType
<1> HIDE DEF n, h, k
<1>7. g \in Cursors /\ g.at = c.at + k /\ \A m \in Nat : \A v : Advance(g, m, v) = Advance(c, k + m, v)
  BY <1>1, MovedType
<1> HIDE DEF g
<1>8. TakeUnits(p, g, n) = Advance(g, n, s)
  BY <1>1, <1>3, <1>7, UnitsRead DEF n
<1>9. SizedUnits(p, TakeVarUint(p, c)) = Advance(c, k + n, s)
  <2>1. SizedUnits(p, Advance(c, k, n)) = TakeUnits(p, g, n)
    BY <1>1, <1>4, SizedAfter DEF g
  <2> QED
    BY <1>1, <1>5, <1>7, <1>8, <2>1
<1>10. TakeRowString(p, c) = LossyLast(SizedUnits(p, TakeVarUint(p, c)))
  BY DEF TakeRowString, SizedUnits
<1>11. k + n \in Nat
  BY <1>1
<1>12. LossyLast(Advance(c, k + n, s)) = Advance(c, k + n, Lossy(s))
  BY <1>1, <1>4, <1>11, LossyAdvance
<1> QED
  BY <1>6, <1>9, <1>10, <1>12

LEMMA RowArrayRead ==
    ASSUME NEW p \in Seq(Nat), NEW c \in Cursors, NEW vs \in Seq(Words), Len(vs) < WordMod,
           Stands(p, c.at, RowArray(vs))
    PROVE  TakeRowArray(p, c) = Advance(c, Len(RowArray(vs)), vs)
<1> DEFINE n == Len(vs)
           h == VarUint[n]
           k == Len(h)
           f == Floats(vs)
           g == Moved(c, k)
<1>1. n \in Nat /\ h \in Seq(Nat) /\ k \in Nat /\ k <= MaxGroups
  BY CountHeld
<1>0. vs \in Seq(Nat)
  BY UnitsAreNumbers, WiderSeq
<1>13. f \in Seq(Nat)
  BY <1>0, FloatsType
<1>2. Stands(p, c.at, h \o f)
  BY DEF RowArray
<1>3. Stands(p, c.at, h) /\ Stands(p, c.at + k, f)
  <2> HIDE DEF h, f
  <2> QED
    BY <1>1, <1>2, <1>13, StandsConcat
<1>4. c.at # 0
  BY <1>3 DEF Stands
<1>5. TakeVarUint(p, c) = Advance(c, k, n)
  <2>1. Len(VarUint[n]) <= MaxGroups
    BY <1>1
  <2> HIDE DEF n
  <2> QED
    BY <1>1, <1>3, <2>1, VarRead
<1>6. Len(RowArray(vs)) = k + 2 * n
  BY <1>0, RowArrayType
<1> DEFINE m == 2 * n
<1>14. m \in Nat
  BY <1>1
<1> HIDE DEF n, h, k, f, m
<1>7. g \in Cursors /\ g.at = c.at + k /\ \A i \in Nat : \A v : Advance(g, i, v) = Advance(c, k + i, v)
  BY <1>1, MovedType
<1> HIDE DEF g
<1>8. TakeFloats(p, g, n) = Advance(g, m, vs)
  BY <1>1, <1>3, <1>7, FloatsRead DEF n, m, f
<1>9. SizedFloats(p, TakeVarUint(p, c)) = Advance(c, k + m, vs)
  <2>1. SizedFloats(p, Advance(c, k, n)) = TakeFloats(p, g, n)
    BY <1>1, <1>4, SizedAfter DEF g
  <2> QED
    BY <1>5, <1>7, <1>8, <1>14, <2>1
<1>10. TakeRowArray(p, c) = SizedFloats(p, TakeVarUint(p, c))
  BY DEF TakeRowArray, SizedFloats
<1> QED
  BY <1>6, <1>9, <1>10 DEF m

-----------------------------------------------------------------------------
\* Rows.

LEMMA RowFollows ==
    ASSUME NEW task \in TaskNames, NEW p \in Seq(Nat), NEW c \in Cursors
    PROVE  /\ Follows(p, c, TakeRow(task, p, c))
           /\ TakeRow(task, p, c).at # 0 =>
                 /\ c.at # 0
                 /\ \A w \in Seq(Nat) : Begins(p, w) => TakeRow(task, w, c) = TakeRow(task, p, c)
<1> DEFINE d == TakeRowString(p, c)
           e == TakeRowString(p, d)
           f == TakeRowString(p, e)
           a == TakeRowArray(p, d)
<1>1. /\ Follows(p, c, d) /\ d \in Cursors
      /\ d.at # 0 => c.at # 0 /\ \A w \in Seq(Nat) : Begins(p, w) => TakeRowString(w, c) = d
  BY RowStringFollows DEF FieldTaken, Follows
<1>2. /\ Follows(p, d, e) /\ e \in Cursors
      /\ e.at # 0 => d.at # 0 /\ \A w \in Seq(Nat) : Begins(p, w) => TakeRowString(w, d) = e
  <2> HIDE DEF d
  <2> QED
    BY <1>1, RowStringFollows DEF FieldTaken, Follows
<1>3. /\ Follows(p, e, f) /\ f \in Cursors
      /\ f.at # 0 => e.at # 0 /\ \A w \in Seq(Nat) : Begins(p, w) => TakeRowString(w, e) = f
  <2> HIDE DEF e
  <2> QED
    BY <1>2, RowStringFollows DEF FieldTaken, Follows
<1>4. /\ Follows(p, d, a) /\ a \in Cursors
      /\ a.at # 0 => d.at # 0 /\ \A w \in Seq(Nat) : Begins(p, w) => TakeRowArray(w, d) = a
  <2> HIDE DEF d
  <2> QED
    BY <1>1, RowArrayFollows DEF FieldTaken, Follows
<1>5. CASE task = "embed"
  <2>1. TakeRow(task, p, c) = e /\ \A w : TakeRow(task, w, c) = TakeRowString(w, TakeRowString(w, c))
    BY <1>5 DEF TakeRow
  <2> HIDE DEF d, e
  <2>2. Follows(p, c, e)
    BY <1>1, <1>2, FollowsTransitive
  <2>3. e.at # 0 => c.at # 0 /\ \A w \in Seq(Nat) : Begins(p, w) => TakeRow(task, w, c) = e
    BY <1>1, <1>2, <2>1
  <2> QED
    BY <2>1, <2>2, <2>3
<1>6. CASE task = "rerank"
  <2>1. /\ TakeRow(task, p, c) = f
        /\ \A w : TakeRow(task, w, c) = TakeRowString(w, TakeRowString(w, TakeRowString(w, c)))
    BY <1>6 DEF TakeRow
  <2> HIDE DEF d, e, f
  <2>2. Follows(p, c, e)
    BY <1>1, <1>2, FollowsTransitive
  <2>3. Follows(p, c, f)
    BY <1>3, <2>2, FollowsTransitive
  <2>4. f.at # 0 => c.at # 0 /\ \A w \in Seq(Nat) : Begins(p, w) => TakeRow(task, w, c) = f
    BY <1>1, <1>2, <1>3, <2>1
  <2> QED
    BY <2>1, <2>3, <2>4
<1>7. CASE task = "evaluate"
  <2>1. TakeRow(task, p, c) = a /\ \A w : TakeRow(task, w, c) = TakeRowArray(w, TakeRowString(w, c))
    BY <1>7 DEF TakeRow
  <2> HIDE DEF d, a
  <2>2. Follows(p, c, a)
    BY <1>1, <1>4, FollowsTransitive
  <2>3. a.at # 0 => c.at # 0 /\ \A w \in Seq(Nat) : Begins(p, w) => TakeRow(task, w, c) = a
    BY <1>1, <1>4, <2>1
  <2> QED
    BY <2>1, <2>2, <2>3
<1> QED
  BY <1>5, <1>6, <1>7 DEF TaskNames

LEMMA RowsStep ==
    ASSUME NEW task \in TaskNames, NEW p \in Seq(Nat), NEW c \in Cursors
    PROVE  /\ TakeRows(task, p, 0, c) = c
           /\ \A n \in Nat : /\ TakeRows(task, p, n, c) \in Cursors
                             /\ TakeRows(task, p, n + 1, c) = TakeRow(task, p, TakeRows(task, p, n, c))
<1> DEFINE F == [z \in Nat \X Cursors |-> TakeRow(task, p, z[2])]
           G(f, n) == f = [k \in 0..n |-> IF k = 0 THEN c ELSE TakeRow(task, p, f[k - 1])]
           v == [n \in Nat |-> TakeRows(task, p, n, c)]
<1>1. \A d \in Cursors : TakeRow(task, p, d) \in Cursors
  BY RowFollows DEF Follows
<1>2. Iterates(Cursors, c, F)
  BY <1>1 DEF Iterates
<1>3. \A k \in Nat, d \in Cursors : F[<<k, d>>] = TakeRow(task, p, d)
  OBVIOUS
<1> HIDE DEF F
<1>4. ASSUME NEW n \in Nat, NEW f, G(f, n) PROVE Computes(f, Cursors, c, F, n)
  <2> DEFINE h == [k \in 0..n |-> IF k = 0 THEN c ELSE TakeRow(task, p, f[k - 1])]
  <2>1. f = h /\ h = [k \in 0..n |-> h[k]] /\ h[0] = c /\ \A k \in 1..n : h[k] = TakeRow(task, p, f[k - 1])
    BY <1>4
  <2> HIDE DEF h
  <2>2. f = [k \in 0..n |-> f[k]] /\ f[0] = c /\ \A k \in 1..n : f[k] = TakeRow(task, p, f[k - 1])
    BY <2>1
  <2>3. ASSUME NEW k \in 1..n, f[k - 1] \in Cursors PROVE f[k] = F[<<k, f[k - 1]>>]
    <3>1. F[<<k, f[k - 1]>>] = TakeRow(task, p, f[k - 1])
      BY <1>3, <2>3
    <3> QED
      BY <2>2, <3>1, Zenon
  <2> QED
    BY <1>2, <2>2, <2>3, Computed
<1>5. ASSUME NEW n \in Nat, NEW f, Computes(f, Cursors, c, F, n) PROVE G(f, n)
  <2> DEFINE h == [k \in 0..n |-> IF k = 0 THEN c ELSE TakeRow(task, p, f[k - 1])]
  <2>1. f \in [0..n -> Cursors] /\ f[0] = c /\ \A k \in 1..n : f[k] = F[<<k, f[k - 1]>>]
    BY <1>5 DEF Computes
  <2>2. ASSUME NEW k \in 0..n PROVE f[k] = h[k]
    <3>1. CASE k # 0
      <4>1. k - 1 \in 0..n /\ k \in 1..n /\ k \in Nat
        BY <3>1
      <4>2. f[k - 1] \in Cursors
        BY <2>1, <4>1
      <4>3. f[k] = TakeRow(task, p, f[k - 1])
        BY <1>3, <2>1, <4>1, <4>2
      <4> QED
        BY <3>1, <4>3
    <3> QED
      BY <2>1, <3>1
  <2>3. h = [k \in 0..n |-> h[k]] /\ f = [k \in 0..n |-> f[k]]
    BY <2>1
  <2> HIDE DEF h
  <2>4. f = h
    BY <2>2, <2>3
  <2> QED
    BY <2>4 DEF h
<1>6. ASSUME NEW n \in Nat PROVE \E f : Computes(f, Cursors, c, F, n) /\ v[n] = f[n]
  <2> DEFINE g == CHOOSE f : G(f, n)
  <2>1. \E f : Computes(f, Cursors, c, F, n)
    BY <1>2, Recursion
  <2>2. \E f : G(f, n)
    BY <1>5, <2>1
  <2>3. G(g, n)
    BY <2>2, Zenon
  <2>4. TakeRows(task, p, n, c) = g[n]
    BY Zenon DEF TakeRows
  <2> HIDE DEF G, g
  <2> QED
    BY <1>4, <2>3, <2>4
<1> HIDE DEF v, G
<1>7. v[0] = c /\ \A n \in Nat : v[n] \in Cursors /\ v[n + 1] = F[<<n + 1, v[n]>>]
  BY <1>2, <1>6, Computation
<1>8. \A n \in Nat : v[n] = TakeRows(task, p, n, c) /\ n + 1 \in Nat
  BY DEF v
<1> QED
  BY <1>3, <1>7, <1>8

LEMMA RowArraysStep ==
    ASSUME NEW p \in Seq(Nat), NEW c \in Cursors
    PROVE  /\ TakeRowArrays(p, 0, c) = c
           /\ \A n \in Nat : /\ TakeRowArrays(p, n, c) \in Cursors
                             /\ TakeRowArrays(p, n + 1, c) = TakeRowArray(p, TakeRowArrays(p, n, c))
<1> DEFINE F == [z \in Nat \X Cursors |-> TakeRowArray(p, z[2])]
           G(f, n) == f = [k \in 0..n |-> IF k = 0 THEN c ELSE TakeRowArray(p, f[k - 1])]
           v == [n \in Nat |-> TakeRowArrays(p, n, c)]
<1>1. \A d \in Cursors : TakeRowArray(p, d) \in Cursors
  BY RowArrayFollows DEF Follows, FieldTaken
<1>2. Iterates(Cursors, c, F)
  BY <1>1 DEF Iterates
<1>3. \A k \in Nat, d \in Cursors : F[<<k, d>>] = TakeRowArray(p, d)
  OBVIOUS
<1> HIDE DEF F
<1>4. ASSUME NEW n \in Nat, NEW f, G(f, n) PROVE Computes(f, Cursors, c, F, n)
  <2> DEFINE h == [k \in 0..n |-> IF k = 0 THEN c ELSE TakeRowArray(p, f[k - 1])]
  <2>1. f = h /\ h = [k \in 0..n |-> h[k]] /\ h[0] = c /\ \A k \in 1..n : h[k] = TakeRowArray(p, f[k - 1])
    BY <1>4
  <2> HIDE DEF h
  <2>2. f = [k \in 0..n |-> f[k]] /\ f[0] = c /\ \A k \in 1..n : f[k] = TakeRowArray(p, f[k - 1])
    BY <2>1
  <2>3. ASSUME NEW k \in 1..n, f[k - 1] \in Cursors PROVE f[k] = F[<<k, f[k - 1]>>]
    <3>1. F[<<k, f[k - 1]>>] = TakeRowArray(p, f[k - 1])
      BY <1>3, <2>3
    <3> QED
      BY <2>2, <3>1, Zenon
  <2> QED
    BY <1>2, <2>2, <2>3, Computed
<1>5. ASSUME NEW n \in Nat, NEW f, Computes(f, Cursors, c, F, n) PROVE G(f, n)
  <2> DEFINE h == [k \in 0..n |-> IF k = 0 THEN c ELSE TakeRowArray(p, f[k - 1])]
  <2>1. f \in [0..n -> Cursors] /\ f[0] = c /\ \A k \in 1..n : f[k] = F[<<k, f[k - 1]>>]
    BY <1>5 DEF Computes
  <2>2. ASSUME NEW k \in 0..n PROVE f[k] = h[k]
    <3>1. CASE k # 0
      <4>1. k - 1 \in 0..n /\ k \in 1..n /\ k \in Nat
        BY <3>1
      <4>2. f[k - 1] \in Cursors
        BY <2>1, <4>1
      <4>3. f[k] = TakeRowArray(p, f[k - 1])
        BY <1>3, <2>1, <4>1, <4>2
      <4> QED
        BY <3>1, <4>3
    <3> QED
      BY <2>1, <3>1
  <2>3. h = [k \in 0..n |-> h[k]] /\ f = [k \in 0..n |-> f[k]]
    BY <2>1
  <2> HIDE DEF h
  <2>4. f = h
    BY <2>2, <2>3
  <2> QED
    BY <2>4 DEF h
<1>6. ASSUME NEW n \in Nat PROVE \E f : Computes(f, Cursors, c, F, n) /\ v[n] = f[n]
  <2> DEFINE g == CHOOSE f : G(f, n)
  <2>1. \E f : Computes(f, Cursors, c, F, n)
    BY <1>2, Recursion
  <2>2. \E f : G(f, n)
    BY <1>5, <2>1
  <2>3. G(g, n)
    BY <2>2, Zenon
  <2>4. TakeRowArrays(p, n, c) = g[n]
    BY Zenon DEF TakeRowArrays
  <2> HIDE DEF G, g
  <2> QED
    BY <1>4, <2>3, <2>4
<1> HIDE DEF v, G
<1>7. v[0] = c /\ \A n \in Nat : v[n] \in Cursors /\ v[n + 1] = F[<<n + 1, v[n]>>]
  BY <1>2, <1>6, Computation
<1>8. \A n \in Nat : v[n] = TakeRowArrays(p, n, c) /\ n + 1 \in Nat
  BY DEF v
<1> QED
  BY <1>3, <1>7, <1>8

\* The items a row holds.
RowText == {s \in Seq(Units) : Len(s) < WordMod}

RowItems(task) ==
    CASE task = "embed"    -> RowText
      [] task = "rerank"   -> RowText \X RowText
      [] task = "evaluate" -> {vs \in Seq(Words) : Len(vs) < WordMod}

LEMMA ReadValues ==
    ASSUME NEW s \in RowText
    PROVE  /\ s \in Seq(Units) /\ Len(s) < WordMod /\ Lossy(s) \in Values
           /\ RowString(s) \in Seq(Units) /\ RowString(s) \in Seq(Nat) /\ Len(RowString(s)) \in Nat
<1>1. s \in Seq(Units) /\ Len(s) < WordMod
  BY DEF RowText
<1>2. Lossy(s) \in Seq(Nat)
  <2>1. s \in Seq(Nat)
    BY <1>1, Numbers
  <2> QED
    BY <2>1, LossyType
<1>3. RowString(s) \in Seq(Units)
  BY <1>1, RowStringType
<1>4. RowString(s) \in Seq(Nat)
  BY <1>3, Numbers
<1>5. Len(RowString(s)) \in Nat
  BY <1>3
<1> QED
  BY <1>1, <1>2, <1>3, <1>4, <1>5 DEF Values

LEMMA ReadFloats ==
    ASSUME NEW vs \in Seq(Words)
    PROVE  /\ vs \in Values /\ RowArray(vs) \in Seq(Units) /\ RowArray(vs) \in Seq(Nat)
           /\ Len(RowArray(vs)) \in Nat
<1>1. vs \in Seq(Nat)
  BY UnitsAreNumbers, WiderSeq
<1>2. RowArray(vs) \in Seq(Units)
  BY <1>1, RowArrayType
<1>3. RowArray(vs) \in Seq(Nat)
  BY <1>2, Numbers
<1>4. Len(RowArray(vs)) \in Nat
  BY <1>2
<1> QED
  BY <1>1, <1>2, <1>3, <1>4 DEF Values

\* g has the values of h, and behind them x, y and z.
Behind2(g, h, x, y) ==
    /\ Len(h) = Len(g) + 2
    /\ \A j \in 1..Len(g) : h[j] = g[j]
    /\ h[Len(g) + 1] = x /\ h[Len(g) + 2] = y

Behind3(g, h, x, y, z) ==
    /\ Len(h) = Len(g) + 3
    /\ \A j \in 1..Len(g) : h[j] = g[j]
    /\ h[Len(g) + 1] = x /\ h[Len(g) + 2] = y /\ h[Len(g) + 3] = z

LEMMA AppendedBehind ==
    ASSUME NEW g \in Seq(Values), NEW x \in Values, NEW y \in Values, NEW z \in Values
    PROVE  /\ Behind2(g, Append(Append(g, x), y), x, y)
           /\ Behind3(g, Append(Append(Append(g, x), y), z), x, y, z)
<1> DEFINE a == Append(g, x)
           b == Append(a, y)
           c == Append(b, z)
           n == Len(g)
<1>0. n \in Nat
  OBVIOUS
<1>1. a \in Seq(Values) /\ Len(a) = n + 1 /\ a[n + 1] = x /\ \A j \in 1..n : a[j] = g[j]
  BY AppendProperties
<1> HIDE DEF a
<1>2. b \in Seq(Values) /\ Len(b) = Len(a) + 1 /\ b[Len(a) + 1] = y /\ \A j \in 1..Len(a) : b[j] = a[j]
  BY <1>1, AppendProperties
<1> HIDE DEF b
<1>3. c \in Seq(Values) /\ Len(c) = Len(b) + 1 /\ c[Len(b) + 1] = z /\ \A j \in 1..Len(b) : c[j] = b[j]
  BY <1>2, AppendProperties
<1> HIDE DEF c, n
<1>4. Len(b) = n + 2 /\ b[n + 2] = y /\ b[n + 1] = x /\ \A j \in 1..n : b[j] = g[j]
  BY <1>0, <1>1, <1>2
<1>5. Len(c) = n + 3 /\ c[n + 3] = z /\ c[n + 2] = y /\ c[n + 1] = x /\ \A j \in 1..n : c[j] = g[j]
  BY <1>0, <1>3, <1>4
<1> QED
  BY <1>4, <1>5 DEF a, b, c, n, Behind2, Behind3

\* How reading a row of this model and item leaves off.
RowLeft(task, model, item, c, d) ==
    /\ d \in Cursors
    /\ d.at = c.at + Len(RowOf(task, model, item))
    /\ task = "rerank" => Behind3(c.got, d.got, Lossy(model), Lossy(item[1]), Lossy(item[2]))
    /\ task # "rerank" => Behind2(c.got, d.got, Lossy(model), Legible(task, item))

LEMMA RowType ==
    ASSUME NEW task \in TaskNames, NEW model \in RowText, NEW item \in RowItems(task)
    PROVE  RowOf(task, model, item) \in Seq(Units)
<1>0. RowString(model) \in Seq(Units)
  BY ReadValues
<1>1. CASE task = "embed"
  <2>1. item \in RowText /\ RowOf(task, model, item) = RowString(model) \o RowString(item)
    BY <1>1 DEF RowItems, RowOf
  <2>2. RowString(item) \in Seq(Units)
    BY <2>1, ReadValues
  <2> QED
    BY <1>0, <2>1, <2>2, ConcatLength
<1>2. CASE task = "rerank"
  <2>1. /\ item[1] \in RowText /\ item[2] \in RowText
        /\ RowOf(task, model, item) = RowString(model) \o (RowString(item[1]) \o RowString(item[2]))
    BY <1>2 DEF RowItems, RowOf
  <2> DEFINE a == RowString(item[1])
             b == RowString(item[2])
             x == a \o b
  <2>2. a \in Seq(Units) /\ b \in Seq(Units)
    BY <2>1, ReadValues
  <2>3. x \in Seq(Units)
    <3> HIDE DEF a, b
    <3> QED
      BY <2>2, ConcatLength
  <2> HIDE DEF x
  <2>4. RowString(model) \o x \in Seq(Units)
    BY <1>0, <2>3, ConcatLength
  <2> QED
    BY <2>1, <2>4 DEF x
<1>3. CASE task = "evaluate"
  <2>1. item \in Seq(Words) /\ RowOf(task, model, item) = RowString(model) \o RowArray(item)
    BY <1>3 DEF RowItems, RowOf
  <2>2. RowArray(item) \in Seq(Units)
    BY <2>1, ReadFloats
  <2> QED
    BY <1>0, <2>1, <2>2, ConcatLength
<1> QED
  BY <1>1, <1>2, <1>3 DEF TaskNames

LEMMA FieldRead ==
    ASSUME NEW p \in Seq(Nat), NEW c \in Cursors, NEW s \in RowText, Stands(p, c.at, RowString(s))
    PROVE  /\ TakeRowString(p, c) \in Cursors
           /\ TakeRowString(p, c).at = c.at + Len(RowString(s))
           /\ TakeRowString(p, c).got = Append(c.got, Lossy(s))
<1>1. TakeRowString(p, c) = Advance(c, Len(RowString(s)), Lossy(s))
  BY ReadValues, RowStringRead
<1> DEFINE k == Len(RowString(s))
           v == Lossy(s)
<1>2. k \in Nat /\ v \in Values
  BY ReadValues
<1> HIDE DEF k, v
<1>3. /\ Advance(c, k, v) \in Cursors /\ Advance(c, k, v).at = c.at + k
      /\ Advance(c, k, v).got = Append(c.got, v)
  BY <1>2, AdvanceType
<1> QED
  BY <1>1, <1>3, Zenon DEF k, v

LEMMA RowRead ==
    ASSUME NEW task \in TaskNames, NEW model \in RowText, NEW item \in RowItems(task),
           NEW p \in Seq(Nat), NEW c \in Cursors, Stands(p, c.at, RowOf(task, model, item))
    PROVE  RowLeft(task, model, item, c, TakeRow(task, p, c))
<1> DEFINE a == RowString(model)
           d == TakeRowString(p, c)
<1>0. a \in Seq(Nat) /\ Len(a) \in Nat /\ c.at \in Nat /\ c.got \in Seq(Values)
      /\ a \in Seq(Units) /\ Lossy(model) \in Values
  BY ReadValues DEF Cursors
<1>1. CASE task = "embed"
  <2> DEFINE b == RowString(item)
  <2>1. item \in RowText /\ RowOf(task, model, item) = a \o b
    BY <1>1 DEF RowItems, RowOf
  <2>2. b \in Seq(Nat) /\ b \in Seq(Units) /\ Len(b) \in Nat /\ Lossy(item) \in Values
    BY <2>1, ReadValues
  <2> HIDE DEF a, b
  <2>3. Stands(p, c.at, a) /\ Stands(p, c.at + Len(a), b) /\ Len(a \o b) = Len(a) + Len(b)
    <3>1. Stands(p, c.at, a \o b)
      BY <2>1
    <3> QED
      BY <1>0, <2>2, <3>1, StandsConcat, ConcatLength
  <2>4. d \in Cursors /\ d.at = c.at + Len(a) /\ d.got = Append(c.got, Lossy(model))
    BY <2>3, FieldRead DEF a
  <2> HIDE DEF d
  <2> DEFINE e == TakeRowString(p, d)
  <2>5. e \in Cursors /\ e.at = d.at + Len(b) /\ e.got = Append(d.got, Lossy(item))
    BY <2>1, <2>3, <2>4, FieldRead DEF b
  <2>6. TakeRow(task, p, c) = e
    BY <1>1 DEF TakeRow, d
  <2>7. e.at = c.at + Len(a \o b)
    <3> HIDE DEF e
    <3> QED
      BY <1>0, <2>2, <2>3, <2>4, <2>5
  <2>8. Behind2(c.got, e.got, Lossy(model), Lossy(item))
    BY <1>0, <2>2, <2>4, <2>5, AppendedBehind
  <2> HIDE DEF e
  <2>9. Legible(task, item) = Lossy(item)
    BY <1>1 DEF Legible
  <2> QED
    BY <1>1, <2>1, <2>5, <2>6, <2>7, <2>8, <2>9 DEF RowLeft
<1>2. CASE task = "rerank"
  <2> DEFINE x == item[1]
             y == item[2]
             b == RowString(x)
             z == RowString(y)
             bz == b \o z
  <2>1. x \in RowText /\ y \in RowText /\ RowOf(task, model, item) = a \o bz
    BY <1>2 DEF RowItems, RowOf
  <2>2. /\ b \in Seq(Nat) /\ b \in Seq(Units) /\ Len(b) \in Nat /\ Lossy(x) \in Values
        /\ z \in Seq(Nat) /\ z \in Seq(Units) /\ Len(z) \in Nat /\ Lossy(y) \in Values
    <3> HIDE DEF x, y
    <3> QED
      BY <2>1, ReadValues
  <2> HIDE DEF a, b, z
  <2>3. bz \in Seq(Units) /\ bz \in Seq(Nat) /\ Len(bz) = Len(b) + Len(z)
    <3>1. bz \in Seq(Units) /\ Len(bz) = Len(b) + Len(z)
      BY <2>2, ConcatLength
    <3> HIDE DEF bz
    <3> QED
      BY <3>1, Numbers
  <2> HIDE DEF bz
  <2>4. Stands(p, c.at, a) /\ Stands(p, c.at + Len(a), bz) /\ Len(a \o bz) = Len(a) + Len(bz)
    <3>1. Stands(p, c.at, a \o bz)
      BY <2>1
    <3> QED
      BY <1>0, <2>3, <3>1, StandsConcat, ConcatLength
  <2>5. Stands(p, c.at + Len(a), b) /\ Stands(p, c.at + Len(a) + Len(b), z)
    <3> DEFINE i == c.at + Len(a)
    <3>1. Stands(p, i, b \o z)
      BY <2>4 DEF bz
    <3> HIDE DEF i
    <3>2. Stands(p, i, b) /\ Stands(p, i + Len(b), z)
      BY <2>2, <3>1, StandsConcat
    <3> QED
      BY <3>2 DEF i
  <2>6. d \in Cursors /\ d.at = c.at + Len(a) /\ d.got = Append(c.got, Lossy(model))
    BY <2>4, FieldRead DEF a
  <2> HIDE DEF d
  <2> DEFINE e == TakeRowString(p, d)
  <2>7. e \in Cursors /\ e.at = d.at + Len(b) /\ e.got = Append(d.got, Lossy(x))
    BY <2>1, <2>5, <2>6, FieldRead DEF b
  <2> HIDE DEF e
  <2> DEFINE f == TakeRowString(p, e)
  <2>8. f \in Cursors /\ f.at = e.at + Len(z) /\ f.got = Append(e.got, Lossy(y))
    <3>1. e.at = c.at + Len(a) + Len(b)
      BY <2>6, <2>7
    <3>2. e \in Cursors /\ y \in RowText /\ Stands(p, e.at, z)
      BY <2>1, <2>5, <2>7, <3>1
    <3> HIDE DEF y
    <3> QED
      BY <3>2, FieldRead DEF z
  <2>9. TakeRow(task, p, c) = f
    BY <1>2 DEF TakeRow, d, e
  <2> HIDE DEF f
  <2>10. f.at = c.at + Len(a \o bz)
    BY <1>0, <2>2, <2>3, <2>4, <2>6, <2>7, <2>8
  <2>11. Behind3(c.got, f.got, Lossy(model), Lossy(x), Lossy(y))
    <3>1. f.got = Append(Append(Append(c.got, Lossy(model)), Lossy(x)), Lossy(y))
      BY <2>6, <2>7, <2>8
    <3> QED
      BY <1>0, <2>2, <3>1, AppendedBehind
  <2> QED
    BY <1>2, <2>1, <2>8, <2>9, <2>10, <2>11 DEF RowLeft
<1>3. CASE task = "evaluate"
  <2> DEFINE b == RowArray(item)
  <2>1. item \in Seq(Words) /\ Len(item) < WordMod /\ RowOf(task, model, item) = a \o b
    BY <1>3 DEF RowItems, RowOf
  <2>2. b \in Seq(Nat) /\ b \in Seq(Units) /\ Len(b) \in Nat /\ item \in Values
    BY <2>1, ReadFloats
  <2> HIDE DEF a, b
  <2>3. Stands(p, c.at, a) /\ Stands(p, c.at + Len(a), b) /\ Len(a \o b) = Len(a) + Len(b)
    <3>1. Stands(p, c.at, a \o b)
      BY <2>1
    <3> QED
      BY <1>0, <2>2, <3>1, StandsConcat, ConcatLength
  <2>4. d \in Cursors /\ d.at = c.at + Len(a) /\ d.got = Append(c.got, Lossy(model))
    BY <2>3, FieldRead DEF a
  <2> HIDE DEF d
  <2> DEFINE e == TakeRowArray(p, d)
  <2>5. e = Advance(d, Len(b), item)
    BY <2>1, <2>3, <2>4, RowArrayRead DEF b
  <2>10. e \in Cursors /\ e.at = d.at + Len(b) /\ e.got = Append(d.got, item)
    <3> DEFINE k == Len(b)
    <3>1. k \in Nat /\ item \in Values /\ d \in Cursors
      BY <2>2, <2>4
    <3> HIDE DEF k
    <3>2. /\ Advance(d, k, item) \in Cursors /\ Advance(d, k, item).at = d.at + k
          /\ Advance(d, k, item).got = Append(d.got, item)
      BY <3>1, AdvanceType
    <3> QED
      BY <2>5, <3>2, Zenon DEF k
  <2>6. TakeRow(task, p, c) = e
    BY <1>3 DEF TakeRow, d
  <2>7. e.at = c.at + Len(a \o b)
    <3> HIDE DEF e
    <3> QED
      BY <1>0, <2>2, <2>3, <2>4, <2>10
  <2>8. Behind2(c.got, e.got, Lossy(model), item)
    BY <1>0, <2>2, <2>4, <2>10, AppendedBehind
  <2> HIDE DEF e
  <2>9. Legible(task, item) = item
    BY <1>3 DEF Legible
  <2> QED
    BY <1>3, <2>1, <2>10, <2>6, <2>7, <2>8, <2>9 DEF RowLeft
<1> QED
  BY <1>1, <1>2, <1>3 DEF TaskNames

RowsWritten(task, model, items) == [i \in DOMAIN items |-> RowOf(task, model, items[i])]

LEMMA RowsType ==
    ASSUME NEW task \in TaskNames, NEW model \in RowText, NEW items \in Seq(RowItems(task))
    PROVE  /\ RowsWritten(task, model, items) \in Seq(Seq(Units)) /\ Len(RowsWritten(task, model, items)) = Len(items)
           /\ FlattenSeq(RowsWritten(task, model, items)) \in Seq(Units)
           /\ FlattenSeq(RowsWritten(task, model, items)) \in Seq(Nat)
           /\ \A x \in RowItems(task) :
                 Extends(RowsWritten(task, model, Append(items, x)), RowsWritten(task, model, items), RowOf(task, model, x))
<1> DEFINE n == Len(items)
           T == RowItems(task)
           ps == RowsWritten(task, model, items)
<1>1. n \in Nat /\ DOMAIN items = 1..n /\ \A i \in 1..n : items[i] \in T
  OBVIOUS
<1>2. ps = [i \in 1..n |-> RowOf(task, model, items[i])]
  BY <1>1 DEF RowsWritten
<1>3. \A x \in T : RowOf(task, model, x) \in Seq(Units)
  BY RowType
<1> HIDE DEF T, n
<1>4. Numbered(ps, n) /\ \A i \in 1..n : ps[i] = RowOf(task, model, items[i])
  BY <1>2 DEF Numbered
<1> HIDE DEF ps
<1>5. \A i \in 1..n : ps[i] \in Seq(Units)
  BY <1>1, <1>3, <1>4
<1>6. ps \in Seq(Seq(Units)) /\ FlattenSeq(ps) \in Seq(Units)
  BY <1>1, <1>4, <1>5, FlattenMore
<1>7. FlattenSeq(ps) \in Seq(Nat)
  BY <1>6, Numbers
<1>8. Len(ps) = n
  BY <1>1, <1>4, <1>6 DEF Numbered
<1>9. ASSUME NEW x \in T PROVE Extends(RowsWritten(task, model, Append(items, x)), ps, RowOf(task, model, x))
  <2> DEFINE tt == Append(items, x)
             qs == RowsWritten(task, model, tt)
  <2>1. DOMAIN tt = 1..(n + 1) /\ tt[n + 1] = x /\ \A i \in 1..n : tt[i] = items[i]
    BY DEF n, T
  <2> HIDE DEF tt
  <2>2. qs = [i \in 1..(n + 1) |-> RowOf(task, model, tt[i])]
    BY <2>1 DEF RowsWritten
  <2>3. Numbered(qs, n + 1) /\ \A i \in 1..(n + 1) : qs[i] = RowOf(task, model, tt[i])
    BY <2>2 DEF Numbered
  <2> HIDE DEF qs
  <2>4. qs[n + 1] = RowOf(task, model, x) /\ \A i \in 1..n : qs[i] = ps[i]
    BY <1>1, <1>4, <2>1, <2>3
  <2>5. qs[n + 1] \in Seq(Units)
    BY <1>3, <2>4
  <2>6. Extends(qs, ps, qs[n + 1])
    BY <1>1, <1>4, <1>5, <2>3, <2>4, <2>5, FlattenMore
  <2> QED
    BY <2>4, <2>6 DEF qs, tt
<1> QED
  BY <1>6, <1>7, <1>8, <1>9 DEF ps, n, T

LEMMA RowsFollow ==
    ASSUME NEW task \in TaskNames, NEW p \in Seq(Nat), NEW c \in Cursors, Follows(p, c, c)
    PROVE  \A n \in Nat :
              /\ Follows(p, c, TakeRows(task, p, n, c))
              /\ TakeRows(task, p, n, c).at # 0 =>
                    \A w \in Seq(Nat) : Begins(p, w) => TakeRows(task, w, n, c) = TakeRows(task, p, n, c)
<1> DEFINE Goal(n) ==
              /\ Follows(p, c, TakeRows(task, p, n, c))
              /\ TakeRows(task, p, n, c).at # 0 =>
                    \A w \in Seq(Nat) : Begins(p, w) => TakeRows(task, w, n, c) = TakeRows(task, p, n, c)
           N == {n \in Nat : Goal(n)}
<1>1. 0 \in N
  <2>1. TakeRows(task, p, 0, c) = c /\ \A w \in Seq(Nat) : TakeRows(task, w, 0, c) = c
    BY RowsStep
  <2> QED
    BY <2>1
<1>2. ASSUME NEW n \in Nat, n \in N PROVE n + 1 \in N
  <2> DEFINE d == TakeRows(task, p, n, c)
             e == TakeRows(task, p, n + 1, c)
  <2>1. /\ d \in Cursors /\ e = TakeRow(task, p, d)
        /\ \A w \in Seq(Nat) : TakeRows(task, w, n + 1, c) = TakeRow(task, w, TakeRows(task, w, n, c))
    BY RowsStep
  <2>2. Follows(p, c, d) /\ (d.at # 0 => \A w \in Seq(Nat) : Begins(p, w) => TakeRows(task, w, n, c) = d)
    BY <1>2
  <2> HIDE DEF d, e
  <2>3. /\ Follows(p, d, e)
        /\ e.at # 0 => d.at # 0 /\ \A w \in Seq(Nat) : Begins(p, w) => TakeRow(task, w, d) = e
    BY <2>1, RowFollows
  <2>4. Follows(p, c, e)
    BY <2>2, <2>3, FollowsTransitive
  <2>5. e.at # 0 => \A w \in Seq(Nat) : Begins(p, w) => TakeRows(task, w, n + 1, c) = e
    BY <2>1, <2>2, <2>3
  <2>6. Goal(n + 1)
    BY <2>4, <2>5 DEF e
  <2> HIDE DEF Goal
  <2> QED
    BY <2>6
<1> HIDE DEF N
<1>3. \A n \in Nat : n \in N
  BY <1>1, <1>2, Induction
<1> QED
  BY <1>3 DEF N

\* The fields of the rows read, by their places.
GotRows(task, model, items, g) ==
    /\ task = "rerank" =>
          /\ Len(g) = 3 * Len(items)
          /\ \A i \in 1..Len(items) :
                g[3 * i - 2] = Lossy(model) /\ g[3 * i - 1] = Lossy(items[i][1]) /\ g[3 * i] = Lossy(items[i][2])
    /\ task # "rerank" =>
          /\ Len(g) = 2 * Len(items)
          /\ \A i \in 1..Len(items) : g[2 * i - 1] = Lossy(model) /\ g[2 * i] = Legible(task, items[i])

LEMMA GotMore ==
    ASSUME NEW task \in TaskNames, NEW model, NEW items \in Seq(RowItems(task)), NEW x \in RowItems(task),
           NEW g, NEW h, GotRows(task, model, items, g),
           task = "rerank" => Behind3(g, h, Lossy(model), Lossy(x[1]), Lossy(x[2])),
           task # "rerank" => Behind2(g, h, Lossy(model), Legible(task, x))
    PROVE  GotRows(task, model, Append(items, x), h)
<1> DEFINE tt == Append(items, x)
           n == Len(items)
           T == RowItems(task)
<1>1. n \in Nat /\ Len(tt) = n + 1 /\ tt[n + 1] = x /\ \A i \in 1..n : tt[i] = items[i]
  <2>1. items \in Seq(T) /\ x \in T
    OBVIOUS
  <2> HIDE DEF T
  <2> QED
    BY <2>1, AppendProperties
<1> HIDE DEF tt
<1>2. CASE task = "rerank"
  <2>1. /\ Len(g) = 3 * n
        /\ \A i \in 1..n :
              g[3 * i - 2] = Lossy(model) /\ g[3 * i - 1] = Lossy(items[i][1]) /\ g[3 * i] = Lossy(items[i][2])
        /\ Len(h) = Len(g) + 3 /\ \A j \in 1..Len(g) : h[j] = g[j]
        /\ h[Len(g) + 1] = Lossy(model) /\ h[Len(g) + 2] = Lossy(x[1]) /\ h[Len(g) + 3] = Lossy(x[2])
    BY <1>2 DEF GotRows, Behind3
  <2> HIDE DEF n
  <2>2. ASSUME NEW i \in 1..(n + 1)
        PROVE  h[3 * i - 2] = Lossy(model) /\ h[3 * i - 1] = Lossy(tt[i][1]) /\ h[3 * i] = Lossy(tt[i][2])
    <3>1. CASE i = n + 1
      <4>1. 3 * i - 2 = Len(g) + 1 /\ 3 * i - 1 = Len(g) + 2 /\ 3 * i = Len(g) + 3
        BY <1>1, <2>1, <3>1
      <4> QED
        BY <1>1, <2>1, <3>1, <4>1
    <3>2. CASE i # n + 1
      <4>2. i \in Nat /\ 1 <= i /\ i <= n /\ n \in Nat
        BY <1>1, <3>2
      <4>3. Len(g) = 3 * n
        BY <2>1
      <4>1. i \in 1..n /\ 3 * i - 2 \in 1..Len(g) /\ 3 * i - 1 \in 1..Len(g) /\ 3 * i \in 1..Len(g)
        BY <4>2, <4>3
      <4> QED
        BY <1>1, <2>1, <4>1
    <3> QED
      BY <3>1, <3>2
  <2>3. Len(h) = 3 * (n + 1)
    BY <1>1, <2>1
  <2> QED
    BY <1>1, <1>2, <2>2, <2>3 DEF GotRows, tt
<1>3. CASE task # "rerank"
  <2>1. /\ Len(g) = 2 * n
        /\ \A i \in 1..n : g[2 * i - 1] = Lossy(model) /\ g[2 * i] = Legible(task, items[i])
        /\ Len(h) = Len(g) + 2 /\ \A j \in 1..Len(g) : h[j] = g[j]
        /\ h[Len(g) + 1] = Lossy(model) /\ h[Len(g) + 2] = Legible(task, x)
    BY <1>3 DEF GotRows, Behind2
  <2> HIDE DEF n
  <2>2. ASSUME NEW i \in 1..(n + 1)
        PROVE  h[2 * i - 1] = Lossy(model) /\ h[2 * i] = Legible(task, tt[i])
    <3>1. CASE i = n + 1
      <4>1. 2 * i - 1 = Len(g) + 1 /\ 2 * i = Len(g) + 2
        BY <1>1, <2>1, <3>1
      <4> QED
        BY <1>1, <2>1, <3>1, <4>1
    <3>2. CASE i # n + 1
      <4>2. i \in Nat /\ 1 <= i /\ i <= n /\ n \in Nat
        BY <1>1, <3>2
      <4>3. Len(g) = 2 * n
        BY <2>1
      <4>1. i \in 1..n /\ 2 * i - 1 \in 1..Len(g) /\ 2 * i \in 1..Len(g)
        BY <4>2, <4>3
      <4> QED
        BY <1>1, <2>1, <4>1
    <3> QED
      BY <3>1, <3>2
  <2>3. Len(h) = 2 * (n + 1)
    BY <1>1, <2>1
  <2> QED
    BY <1>1, <1>3, <2>2, <2>3 DEF GotRows, tt
<1> QED
  BY <1>2, <1>3

LEMMA RowsRead ==
    ASSUME NEW task \in TaskNames, NEW model \in RowText, NEW p \in Seq(Nat), NEW c \in Cursors, c.got = <<>>
    PROVE  \A items \in Seq(RowItems(task)) :
              Stands(p, c.at, FlattenSeq(RowsWritten(task, model, items))) =>
                 /\ TakeRows(task, p, Len(items), c).at = c.at + Len(FlattenSeq(RowsWritten(task, model, items)))
                 /\ GotRows(task, model, items, TakeRows(task, p, Len(items), c).got)
<1> DEFINE T == RowItems(task)
           all(items) == FlattenSeq(RowsWritten(task, model, items))
           Goal(items) == /\ TakeRows(task, p, Len(items), c).at = c.at + Len(all(items))
                          /\ GotRows(task, model, items, TakeRows(task, p, Len(items), c).got)
           P == {items \in Seq(T) : Stands(p, c.at, all(items)) => Goal(items)}
<1>0. c.at \in Nat
  BY DEF Cursors
<1>1. <<>> \in P
  <2>1. <<>> \in Seq(T) /\ Len(<<>>) = 0
    OBVIOUS
  <2>2. RowsWritten(task, model, <<>>) = <<>>
    BY DEF RowsWritten
  <2>3. all(<<>>) = <<>>
    BY <2>2, FlattenNothing
  <2>4. TakeRows(task, p, 0, c) = c
    BY RowsStep
  <2>5. GotRows(task, model, <<>>, c.got)
    BY DEF GotRows
  <2>6. c.at = c.at + 0
    BY <1>0
  <2>7. Goal(<<>>)
    BY <2>1, <2>3, <2>4, <2>5, <2>6
  <2> HIDE DEF Goal
  <2> QED
    BY <2>1, <2>7
<1>2. ASSUME NEW items \in Seq(T), NEW x \in T, items \in P PROVE Append(items, x) \in P
  <2> DEFINE tt == Append(items, x)
             n == Len(items)
             a == all(items)
             b == RowOf(task, model, x)
             s == all(tt)
  <2>1. n \in Nat /\ tt \in Seq(T) /\ Len(tt) = n + 1
    <3> HIDE DEF T
    <3> QED
      BY AppendProperties
  <2>2. a \in Seq(Nat) /\ a \in Seq(Units) /\ Extends(RowsWritten(task, model, tt), RowsWritten(task, model, items), b)
    BY RowsType
  <2>3. b \in Seq(Units) /\ b \in Seq(Nat) /\ Len(b) \in Nat
    <3>1. b \in Seq(Units)
      BY RowType
    <3> HIDE DEF b
    <3> QED
      BY <3>1, Numbers
  <2>4. s = a \o b
    BY <2>2, Zenon DEF Extends
  <2> HIDE DEF s, a, b
  <2>5. Len(s) = Len(a) + Len(b) /\ Len(a) \in Nat
    BY <2>2, <2>3, <2>4, ConcatLength
  <2>6. ASSUME Stands(p, c.at, s) PROVE Goal(tt)
    <3> DEFINE d == TakeRows(task, p, n, c)
               e == TakeRows(task, p, n + 1, c)
    <3>1. Stands(p, c.at, a) /\ Stands(p, c.at + Len(a), b)
      <4>1. Stands(p, c.at, a \o b)
        BY <2>4, <2>6
      <4> QED
        BY <2>2, <2>3, <4>1, StandsConcat
    <3>2. d.at = c.at + Len(a) /\ GotRows(task, model, items, d.got)
      BY <1>2, <3>1 DEF a
    <3>3. d \in Cursors /\ e = TakeRow(task, p, d)
      BY <2>1, RowsStep
    <3> HIDE DEF d, e
    <3>4. RowLeft(task, model, x, d, e)
      BY <3>1, <3>2, <3>3, RowRead DEF b
    <3>5. e.at = d.at + Len(b)
      BY <3>4 DEF RowLeft, b
    <3>6. /\ task = "rerank" => Behind3(d.got, e.got, Lossy(model), Lossy(x[1]), Lossy(x[2]))
          /\ task # "rerank" => Behind2(d.got, e.got, Lossy(model), Legible(task, x))
      BY <3>4 DEF RowLeft
    <3> DEFINE dg == d.got
               eg == e.got
    <3>7. /\ GotRows(task, model, items, dg)
          /\ task = "rerank" => Behind3(dg, eg, Lossy(model), Lossy(x[1]), Lossy(x[2]))
          /\ task # "rerank" => Behind2(dg, eg, Lossy(model), Legible(task, x))
      BY <3>2, <3>6
    <3> HIDE DEF dg, eg
    <3>8. GotRows(task, model, tt, eg)
      BY <3>7, GotMore
    <3>9. e.at = c.at + Len(s)
      BY <1>0, <2>3, <2>5, <3>2, <3>5
    <3> QED
      BY <2>1, <3>8, <3>9 DEF e, eg, s
  <2> HIDE DEF Goal
  <2> QED
    BY <2>1, <2>6 DEF s
<1> HIDE DEF P, T
<1>3. \A items \in Seq(T) : items \in P
  BY <1>1, <1>2, SeqInduction
<1> QED
  BY <1>3 DEF P, T

\* The rows ClickHouse wrote, as the client reads them.
RowsAsRead(task, model, items) == [i \in 1..Len(items) |-> <<Lossy(model), Legible(task, items[i])>>]

LEMMA BlockType ==
    ASSUME NEW task \in TaskNames, NEW model \in RowText, NEW items \in Seq(RowItems(task))
    PROVE  LET b == Block(RowsWritten(task, model, items))
               h == VarUint[Len(items)]
               f == FlattenSeq(RowsWritten(task, model, items))
           IN  /\ b = h \o f /\ b \in Seq(Units) /\ b \in Seq(Nat)
               /\ h \in Seq(Units) /\ h \in Seq(Nat) /\ f \in Seq(Nat)
               /\ Len(h) \in Nat /\ Len(f) \in Nat /\ Len(b) = Len(h) + Len(f)
<1> DEFINE b == Block(RowsWritten(task, model, items))
           h == VarUint[Len(items)]
           f == FlattenSeq(RowsWritten(task, model, items))
<1>1. b = h \o f
  BY RowsType DEF Block
<1>2. f \in Seq(Units) /\ f \in Seq(Nat)
  BY RowsType
<1>3. h \in Seq(Units)
  BY VarUintGroups
<1> HIDE DEF b, h, f
<1>4. h \in Seq(Nat)
  BY <1>3, Numbers
<1>5. b \in Seq(Units) /\ Len(b) = Len(h) + Len(f) /\ Len(h) \in Nat /\ Len(f) \in Nat
  BY <1>1, <1>2, <1>3, ConcatLength
<1>6. b \in Seq(Nat)
  BY <1>5, Numbers
<1> QED
  BY <1>1, <1>2, <1>3, <1>4, <1>5, <1>6 DEF b, h, f

\* A block is read whole as the rows written, and a part of it not at all.
BlockReads(task, model, items, b) ==
    /\ ReadBlock(task, b) = RowsAsRead(task, model, items)
    /\ \A p \in Seq(Nat) : Begins(p, b) /\ Len(p) < Len(b) => ReadBlock(task, p) = Malformed

\* The block ClickHouse writes is read back by read_block as its rows, with what
\* is not text replaced, and a pipe that ends before the block does is an error:
\* no row is guessed at (bridge-client main.rs:206-217, 384-444).
THEOREM BlockRead ==
    ASSUME NEW task \in TaskNames, NEW model \in RowText, NEW items \in Seq(RowItems(task)), Len(items) < WordMod
    PROVE  BlockReads(task, model, items, Block(RowsWritten(task, model, items)))
<1> DEFINE b == Block(RowsWritten(task, model, items))
           h == VarUint[Len(items)]
           f == FlattenSeq(RowsWritten(task, model, items))
           n == Len(items)
           v == TakeVarUint(b, Start)
           c == [v EXCEPT !.got = <<>>]
           d == TakeRows(task, b, n, c)
<1>1. /\ b = h \o f /\ b \in Seq(Nat) /\ h \in Seq(Nat) /\ f \in Seq(Nat)
      /\ Len(h) \in Nat /\ Len(f) \in Nat /\ Len(b) = Len(h) + Len(f)
  BY BlockType
<1>2. n \in Nat /\ n < WordMod /\ Len(h) <= MaxGroups
  BY CountHeld
<1> HIDE DEF b, h, f
<1>3. Stands(b, 1, h) /\ Stands(b, 1 + Len(h), f)
  <2>1. Stands(b, 1, b)
    BY <1>1, StandsWhole
  <2>2. Stands(b, 1, h \o f)
    BY <1>1, <2>1
  <2> QED
    BY <1>1, <2>2, StandsConcat
<1>4. Start \in Cursors /\ Start.at = 1 /\ Start.got = <<>>
  BY BrokenType DEF Start
<1>5. v = Advance(Start, Len(h), n)
  <2> HIDE DEF n
  <2>1. Stands(b, Start.at, VarUint[n]) /\ Len(VarUint[n]) <= MaxGroups
    BY <1>2, <1>3, <1>4 DEF h, n
  <2>2. TakeVarUint(b, Start) = Advance(Start, Len(VarUint[n]), n)
    BY <1>1, <1>2, <1>4, <2>1, VarRead
  <2> QED
    BY <2>2 DEF h, n
<1>6. v.at = 1 + Len(h) /\ v.at # 0 /\ v.got[1] = n /\ v = [at |-> v.at, got |-> v.got]
  <2>1. v = [at |-> 1 + Len(h), got |-> Append(<<>>, n)]
    BY <1>4, <1>5 DEF Advance
  <2>2. Append(<<>>, n)[1] = n
    BY <1>2
  <2> HIDE DEF v, n
  <2> QED
    BY <1>1, <2>1, <2>2
<1> HIDE DEF v
<1>7. c \in Cursors /\ c.at = 1 + Len(h) /\ c.got = <<>>
  <2>1. c = [at |-> v.at, got |-> <<>>]
    BY <1>6
  <2> HIDE DEF c
  <2> QED
    BY <1>1, <1>6, <2>1 DEF Cursors
<1> HIDE DEF c
<1>8. d.at = c.at + Len(f) /\ GotRows(task, model, items, d.got)
  BY <1>1, <1>3, <1>7, RowsRead DEF f
<1> HIDE DEF d
<1>9. ReadBlock(task, b) = AsRows(task, n, d.got)
  <2>1. ReadBlock(task, b) = ReadRest(task, b, v)
    BY DEF ReadBlock, v
  <2>2. d = TakeRows(task, b, v.got[1], [v EXCEPT !.got = <<>>])
    BY <1>6 DEF d, c
  <2>3. ReadRest(task, b, v) = Rows(task, n, d)
    BY <1>6, <2>2 DEF ReadRest
  <2>4. d.at # 0
    BY <1>1, <1>7, <1>8
  <2> QED
    BY <2>1, <2>3, <2>4 DEF Rows
<1>10. AsRows(task, n, d.got) = RowsAsRead(task, model, items)
  <2> DEFINE g == d.got
  <2>1. GotRows(task, model, items, g)
    BY <1>8
  <2> HIDE DEF g
  <2>2. CASE task = "rerank"
    <3>1. \A i \in 1..n : g[3 * i - 2] = Lossy(model) /\ g[3 * i - 1] = Lossy(items[i][1]) /\ g[3 * i] = Lossy(items[i][2])
      BY <2>1, <2>2 DEF GotRows
    <3>2. \A i \in 1..n : Legible(task, items[i]) = <<Lossy(items[i][1]), Lossy(items[i][2])>>
      BY <2>2 DEF Legible
    <3>3. \A i \in 1..n : <<g[3 * i - 2], <<g[3 * i - 1], g[3 * i]>>>> = <<Lossy(model), Legible(task, items[i])>>
      BY <3>1, <3>2
    <3>4. AsRows(task, n, g) = [i \in 1..n |-> <<g[3 * i - 2], <<g[3 * i - 1], g[3 * i]>>>>]
      BY <2>2 DEF AsRows
    <3> QED
      BY <3>3, <3>4 DEF RowsAsRead, g
  <2>3. CASE task # "rerank"
    <3>1. \A i \in 1..n : g[2 * i - 1] = Lossy(model) /\ g[2 * i] = Legible(task, items[i])
      BY <2>1, <2>3 DEF GotRows
    <3>4. AsRows(task, n, g) = [i \in 1..n |-> <<g[2 * i - 1], g[2 * i]>>]
      BY <2>3 DEF AsRows
    <3> QED
      BY <3>1, <3>4 DEF RowsAsRead, g
  <2> QED
    BY <2>2, <2>3
<1>11. ASSUME NEW p \in Seq(Nat), Begins(p, b), Len(p) < Len(b), ReadBlock(task, p) # Malformed PROVE FALSE
  <2> DEFINE x == TakeVarUint(p, Start)
             e == TakeRows(task, p, x.got[1], [x EXCEPT !.got = <<>>])
  <2>1. ReadBlock(task, p) = ReadRest(task, p, x)
    BY DEF ReadBlock
  <2>2. x.at # 0
    BY <1>11, <2>1 DEF ReadRest
  <2>3. ReadRest(task, p, x) = Rows(task, x.got[1], e)
    BY <2>2 DEF ReadRest
  <2>4. e.at # 0
    BY <1>11, <2>1, <2>3 DEF Rows
  <2>5. Follows(p, Start, x) /\ v = x
    BY <1>1, <1>4, <1>11, <2>2, VarFollows DEF v
  <2>6. e = TakeRows(task, p, n, c)
    <3>1. x.got[1] = n /\ [x EXCEPT !.got = <<>>] = c
      BY <1>6, <2>5 DEF c
    <3> QED
      BY <3>1
  <2> HIDE DEF e, x
  <2>7. Follows(p, c, c)
    BY <1>6, <1>7, <2>2, <2>5 DEF Follows, Cursors, Broken
  <2>8. Follows(p, c, e) /\ TakeRows(task, b, n, c) = e
    <3> HIDE DEF n
    <3>1. n \in Nat /\ Begins(p, b) /\ b \in Seq(Nat)
      BY <1>1, <1>2, <1>11
    <3>2. /\ Follows(p, c, TakeRows(task, p, n, c))
          /\ TakeRows(task, p, n, c).at # 0 =>
                \A w \in Seq(Nat) : Begins(p, w) => TakeRows(task, w, n, c) = TakeRows(task, p, n, c)
      BY <1>7, <2>7, <3>1, RowsFollow
    <3> QED
      BY <2>4, <2>6, <3>1, <3>2
  <2>9. d = e
    BY <2>8 DEF d
  <2>10. e.at <= Len(p) + 1
    BY <2>4, <2>8 DEF Follows, Broken
  <2>11. e.at = 1 + Len(h) + Len(f)
    BY <1>7, <1>8, <2>9
  <2> QED
    BY <1>1, <1>11, <2>10, <2>11
<1> QED
  BY <1>9, <1>10, <1>11 DEF BlockReads, b

\* Decoding never shortens a text: a replacement is no shorter than what it replaces.
LEMMA LossyLonger ==
    ASSUME NEW s \in Seq(Units)
    PROVE  Len(s) <= Len(Lossy(s))
<1> DEFINE x(i) == IF s[i] \in NotText THEN Replacement ELSE <<s[i]>>
           xs == [i \in 1..Len(s) |-> x(i)]
<1>1. Replacement \in Seq(Units) /\ Len(Replacement) >= 1
  <2>1. Replacement \in Seq(Units \ NotText) /\ Replacement # <<>>
    BY RowAssumption
  <2>2. Units \ NotText \subseteq Units
    OBVIOUS
  <2>3. Replacement \in Seq(Units)
    BY <2>1, <2>2, WiderSeq
  <2> QED
    BY <2>1, <2>3
<1>2. \A i \in 1..Len(s) : s[i] \in Units
  OBVIOUS
<1>3. \A i \in 1..Len(s) : x(i) \in Seq(Units) /\ Len(x(i)) >= 1
  BY <1>1, <1>2
<1>4. DOMAIN s = 1..Len(s) /\ Len(s) \in Nat
  OBVIOUS
<1>5. Lossy(s) = FlattenSeq(xs)
  BY <1>4 DEF Lossy
<1> HIDE DEF x
<1>6. xs \in Seq(Seq(Units)) /\ Len(xs) = Len(s)
  BY <1>3, <1>4
<1>7. \A i \in 1..Len(xs) : Len(xs[i]) >= 1
  BY <1>3, <1>4, <1>6
<1> HIDE DEF xs
<1>8. Len(xs) <= Len(FlattenSeq(xs))
  BY <1>6, <1>7, FlattenLonger
<1> QED
  BY <1>5, <1>6, <1>8

-----------------------------------------------------------------------------
\* What a block of any bytes is read as.

\* Text is units, and the array of a feature row numbers.
SoftItem(task) ==
    CASE task = "embed"    -> Seq(Units)
      [] task = "rerank"   -> Seq(Units) \X Seq(Units)
      [] task = "evaluate" -> Seq(Nat)

\* One row was added to what was read.
AddsRow(task, g, h) ==
    /\ task = "rerank" => \E x, y, z \in Seq(Units) : Behind3(g, h, x, y, z)
    /\ task # "rerank" => \E x \in Seq(Units), y \in SoftItem(task) : Behind2(g, h, x, y)

GainsValue(c, d, s) == d.got = Append(c.got, s) /\ s \in Values

LEMMA GainsGot ==
    ASSUME NEW c \in Cursors, NEW k \in Nat, NEW s \in Seq(Nat)
    PROVE  GainsValue(c, Advance(c, k, s), s)
<1>1. s \in Values
  BY DEF Values
<1>2. Advance(c, k, s).got = Append(c.got, s)
  BY <1>1, AdvanceType
<1> QED
  BY <1>1, <1>2 DEF GainsValue

LEMMA RowAdds ==
    ASSUME NEW task \in TaskNames, NEW p \in Seq(Units), NEW c \in Cursors, TakeRow(task, p, c).at # 0
    PROVE  AddsRow(task, c.got, TakeRow(task, p, c).got)
<1> DEFINE d == TakeRowString(p, c)
           e == TakeRowString(p, d)
           f == TakeRowString(p, e)
           a == TakeRowArray(p, d)
<1>0. p \in Seq(Nat) /\ c.got \in Seq(Values)
  BY Numbers DEF Cursors
<1>1. /\ d \in Cursors
      /\ d.at # 0 => \E k \in Nat, s \in Seq(Units) : d = Advance(c, k, s) /\ s \in Seq(Nat)
  BY <1>0, RowStringFollows DEF FieldTaken, Follows, AddsUnits
<1>2. /\ e \in Cursors /\ (e.at # 0 => d.at # 0)
      /\ e.at # 0 => \E k \in Nat, s \in Seq(Units) : e = Advance(d, k, s) /\ s \in Seq(Nat)
  <2> HIDE DEF d
  <2> QED
    BY <1>0, <1>1, RowStringFollows DEF FieldTaken, Follows, AddsUnits
<1>3. /\ f \in Cursors /\ (f.at # 0 => e.at # 0)
      /\ f.at # 0 => \E k \in Nat, s \in Seq(Units) : f = Advance(e, k, s) /\ s \in Seq(Nat)
  <2> HIDE DEF e
  <2> QED
    BY <1>0, <1>2, RowStringFollows DEF FieldTaken, Follows, AddsUnits
<1>4. /\ a \in Cursors /\ (a.at # 0 => d.at # 0)
      /\ a.at # 0 => \E k \in Nat, s \in Seq(Nat) : a = Advance(d, k, s)
  <2> HIDE DEF d
  <2> QED
    BY <1>0, <1>1, RowArrayFollows DEF FieldTaken, Follows, AddsFloats
<1>5. CASE task = "embed"
  <2>1. TakeRow(task, p, c) = e
    BY <1>5 DEF TakeRow
  <2> HIDE DEF d, e
  <2>2. PICK k \in Nat, s \in Seq(Units) : d = Advance(c, k, s) /\ s \in Seq(Nat)
    BY <1>1, <1>2, <2>1
  <2>3. PICK l \in Nat, t \in Seq(Units) : e = Advance(d, l, t) /\ t \in Seq(Nat)
    BY <1>2, <2>1
  <2>7. GainsValue(c, d, s) /\ GainsValue(d, e, t)
    BY <1>1, <2>2, <2>3, GainsGot
  <2>4. e.got = Append(Append(c.got, s), t) /\ s \in Values /\ t \in Values
    BY <2>7, Zenon DEF GainsValue
  <2>5. Behind2(c.got, e.got, s, t)
    BY <1>0, <2>4, AppendedBehind
  <2>6. t \in SoftItem(task)
    BY <1>5 DEF SoftItem
  <2> QED
    BY <1>5, <2>1, <2>5, <2>6 DEF AddsRow
<1>6. CASE task = "rerank"
  <2>1. TakeRow(task, p, c) = f
    BY <1>6 DEF TakeRow
  <2> HIDE DEF d, e, f
  <2>2. PICK k \in Nat, s \in Seq(Units) : d = Advance(c, k, s) /\ s \in Seq(Nat)
    BY <1>1, <1>2, <1>3, <2>1
  <2>3. PICK l \in Nat, t \in Seq(Units) : e = Advance(d, l, t) /\ t \in Seq(Nat)
    BY <1>2, <1>3, <2>1
  <2>4. PICK m \in Nat, u \in Seq(Units) : f = Advance(e, m, u) /\ u \in Seq(Nat)
    BY <1>3, <2>1
  <2>5. d.got = Append(c.got, s) /\ s \in Values
    <3>1. GainsValue(c, d, s)
      BY <2>2, GainsGot
    <3> QED
      BY <3>1, Zenon DEF GainsValue
  <2>6. e.got = Append(d.got, t) /\ t \in Values
    <3>1. GainsValue(d, e, t)
      BY <1>1, <2>3, GainsGot
    <3> QED
      BY <3>1, Zenon DEF GainsValue
  <2>7. f.got = Append(e.got, u) /\ u \in Values
    <3>1. GainsValue(e, f, u)
      BY <1>2, <2>4, GainsGot
    <3> QED
      BY <3>1, Zenon DEF GainsValue
  <2>8. Behind3(c.got, f.got, s, t, u)
    BY <1>0, <2>5, <2>6, <2>7, AppendedBehind
  <2> QED
    BY <1>6, <2>1, <2>8 DEF AddsRow
<1>7. CASE task = "evaluate"
  <2>1. TakeRow(task, p, c) = a
    BY <1>7 DEF TakeRow
  <2> HIDE DEF d, a
  <2>2. PICK k \in Nat, s \in Seq(Units) : d = Advance(c, k, s) /\ s \in Seq(Nat)
    BY <1>1, <1>4, <2>1
  <2>3. PICK l \in Nat, t \in Seq(Nat) : a = Advance(d, l, t)
    BY <1>4, <2>1
  <2>7. GainsValue(c, d, s) /\ GainsValue(d, a, t)
    BY <1>1, <2>2, <2>3, GainsGot
  <2>4. a.got = Append(Append(c.got, s), t) /\ s \in Values /\ t \in Values
    BY <2>7, Zenon DEF GainsValue
  <2>5. Behind2(c.got, a.got, s, t)
    BY <1>0, <2>4, AppendedBehind
  <2>6. t \in SoftItem(task)
    BY <1>7 DEF SoftItem
  <2> QED
    BY <1>7, <2>1, <2>5, <2>6 DEF AddsRow
<1> QED
  BY <1>5, <1>6, <1>7 DEF TaskNames

\* What n rows of any contents leave.
HoldsRows(task, n, g) ==
    /\ task = "rerank" =>
          /\ Len(g) = 3 * n
          /\ \A i \in 1..n : g[3 * i - 2] \in Seq(Units) /\ g[3 * i - 1] \in Seq(Units) /\ g[3 * i] \in Seq(Units)
    /\ task # "rerank" =>
          /\ Len(g) = 2 * n
          /\ \A i \in 1..n : g[2 * i - 1] \in Seq(Units) /\ g[2 * i] \in SoftItem(task)

LEMMA HoldsMore ==
    ASSUME NEW task, NEW n \in Nat, NEW g, NEW h, HoldsRows(task, n, g), AddsRow(task, g, h)
    PROVE  HoldsRows(task, n + 1, h)
<1>1. CASE task = "rerank"
  <2>1. PICK x, y, z \in Seq(Units) : Behind3(g, h, x, y, z)
    BY <1>1 DEF AddsRow
  <2> DEFINE U == Seq(Units)
  <2>2. /\ Len(g) = 3 * n
        /\ \A i \in 1..n : g[3 * i - 2] \in U /\ g[3 * i - 1] \in U /\ g[3 * i] \in U
        /\ Len(h) = Len(g) + 3 /\ \A j \in 1..Len(g) : h[j] = g[j]
        /\ h[Len(g) + 1] \in U /\ h[Len(g) + 2] \in U /\ h[Len(g) + 3] \in U
    BY <1>1, <2>1 DEF HoldsRows, Behind3
  <2> HIDE DEF U
  <2>3. ASSUME NEW i \in 1..(n + 1) PROVE h[3 * i - 2] \in U /\ h[3 * i - 1] \in U /\ h[3 * i] \in U
    <3>1. CASE i = n + 1
      <4>1. 3 * i - 2 = Len(g) + 1 /\ 3 * i - 1 = Len(g) + 2 /\ 3 * i = Len(g) + 3
        BY <2>2, <3>1
      <4> QED
        BY <2>2, <4>1
    <3>2. CASE i # n + 1
      <4>2. i \in Nat /\ 1 <= i /\ i <= n /\ n \in Nat
        BY <3>2
      <4>3. Len(g) = 3 * n
        BY <2>2
      <4>1. i \in 1..n /\ 3 * i - 2 \in 1..Len(g) /\ 3 * i - 1 \in 1..Len(g) /\ 3 * i \in 1..Len(g)
        BY <4>2, <4>3
      <4> QED
        BY <2>2, <4>1
    <3> QED
      BY <3>1, <3>2
  <2>4. Len(h) = 3 * (n + 1)
    BY <2>2
  <2> QED
    BY <1>1, <2>3, <2>4 DEF HoldsRows, U
<1>2. CASE task # "rerank"
  <2> DEFINE U == Seq(Units)
             V == SoftItem(task)
  <2>1. PICK x \in U, y \in V : Behind2(g, h, x, y)
    BY <1>2 DEF AddsRow
  <2>2. /\ Len(g) = 2 * n
        /\ \A i \in 1..n : g[2 * i - 1] \in U /\ g[2 * i] \in V
        /\ Len(h) = Len(g) + 2 /\ \A j \in 1..Len(g) : h[j] = g[j]
        /\ h[Len(g) + 1] \in U /\ h[Len(g) + 2] \in V
    BY <1>2, <2>1 DEF HoldsRows, Behind2
  <2> HIDE DEF U, V
  <2>3. ASSUME NEW i \in 1..(n + 1) PROVE h[2 * i - 1] \in U /\ h[2 * i] \in V
    <3>1. CASE i = n + 1
      <4>1. 2 * i - 1 = Len(g) + 1 /\ 2 * i = Len(g) + 2
        BY <2>2, <3>1
      <4> QED
        BY <2>2, <4>1
    <3>2. CASE i # n + 1
      <4>2. i \in Nat /\ 1 <= i /\ i <= n /\ n \in Nat
        BY <3>2
      <4>3. Len(g) = 2 * n
        BY <2>2
      <4>1. i \in 1..n /\ 2 * i - 1 \in 1..Len(g) /\ 2 * i \in 1..Len(g)
        BY <4>2, <4>3
      <4> QED
        BY <2>2, <4>1
    <3> QED
      BY <3>1, <3>2
  <2>4. Len(h) = 2 * (n + 1)
    BY <2>2
  <2> QED
    BY <1>2, <2>3, <2>4 DEF HoldsRows, U, V
<1> QED
  BY <1>1, <1>2

LEMMA RowsAdd ==
    ASSUME NEW task \in TaskNames, NEW p \in Seq(Units), NEW c \in Cursors, c.got = <<>>
    PROVE  \A n \in Nat : TakeRows(task, p, n, c).at # 0 => HoldsRows(task, n, TakeRows(task, p, n, c).got)
<1> DEFINE N == {n \in Nat : TakeRows(task, p, n, c).at # 0 => HoldsRows(task, n, TakeRows(task, p, n, c).got)}
<1>0. p \in Seq(Nat)
  BY Numbers
<1>1. 0 \in N
  <2>1. TakeRows(task, p, 0, c) = c
    BY <1>0, RowsStep
  <2>2. HoldsRows(task, 0, <<>>)
    BY DEF HoldsRows
  <2> QED
    BY <2>1, <2>2
<1>2. ASSUME NEW n \in Nat, n \in N PROVE n + 1 \in N
  <2> DEFINE d == TakeRows(task, p, n, c)
             e == TakeRows(task, p, n + 1, c)
  <2>1. d \in Cursors /\ e = TakeRow(task, p, d)
    BY <1>0, RowsStep
  <2>2. d.at # 0 => HoldsRows(task, n, d.got)
    BY <1>2
  <2> HIDE DEF d, e
  <2>3. ASSUME e.at # 0 PROVE HoldsRows(task, n + 1, e.got)
    <3>1. d.at # 0
      BY <1>0, <2>1, <2>3, RowFollows
    <3>2. AddsRow(task, d.got, e.got)
      BY <2>1, <2>3, RowAdds
    <3> QED
      BY <2>2, <3>1, <3>2, HoldsMore
  <2> QED
    BY <2>3 DEF e
<1> HIDE DEF N
<1>3. \A n \in Nat : n \in N
  BY <1>1, <1>2, Induction
<1> QED
  BY <1>3 DEF N

\* A block reads as rows of texts and items, or not at all.
LEMMA ReadBlockType ==
    ASSUME NEW task \in TaskNames, NEW p \in Seq(Units), ReadBlock(task, p) # Malformed
    PROVE  ReadBlock(task, p) \in Seq(Seq(Units) \X SoftItem(task))
<1> DEFINE x == TakeVarUint(p, Start)
           c == [x EXCEPT !.got = <<>>]
           n == x.got[1]
           d == TakeRows(task, p, n, c)
           g == d.got
           R == Seq(Units) \X SoftItem(task)
<1>0. p \in Seq(Nat) /\ Start \in Cursors /\ Start.got = <<>>
  BY Numbers, BrokenType DEF Start
<1>1. ReadBlock(task, p) = ReadRest(task, p, x)
  BY DEF ReadBlock
<1>2. x.at # 0
  BY <1>1 DEF ReadRest
<1>3. ReadRest(task, p, x) = Rows(task, n, d)
  BY <1>2 DEF ReadRest
<1>4. d.at # 0 /\ ReadBlock(task, p) = AsRows(task, n, g)
  BY <1>1, <1>3 DEF Rows
<1>5. x \in Cursors /\ n \in Nat
  <2>1. x \in Cursors /\ AddsNumber(p, Start, x)
    BY <1>0, <1>2, VarFollows DEF Follows
  <2>2. PICK k \in Nat, m \in Nat : x = Advance(Start, k, m)
    BY <2>1 DEF AddsNumber
  <2>3. x.got = Append(<<>>, m)
    BY <1>0, <2>2 DEF Advance
  <2> HIDE DEF x
  <2>4. x.got[1] = m
    BY <2>3
  <2> QED
    BY <2>1, <2>4
<1> HIDE DEF x
<1>6. c \in Cursors /\ c.got = <<>>
  <2>1. x = [at |-> x.at, got |-> x.got] /\ x.at \in Nat
    BY <1>5 DEF Cursors
  <2>2. c = [at |-> x.at, got |-> <<>>]
    BY <2>1
  <2> HIDE DEF c
  <2> QED
    BY <2>1, <2>2 DEF Cursors
<1> HIDE DEF c, n
<1>7. HoldsRows(task, n, g)
  BY <1>4, <1>5, <1>6, RowsAdd
<1> HIDE DEF d
<1> HIDE DEF g
<1>8. CASE task = "rerank"
  <2> DEFINE f == [i \in 1..n |-> <<g[3 * i - 2], <<g[3 * i - 1], g[3 * i]>>>>]
  <2>1. \A i \in 1..n : g[3 * i - 2] \in Seq(Units) /\ g[3 * i - 1] \in Seq(Units) /\ g[3 * i] \in Seq(Units)
    BY <1>7, <1>8 DEF HoldsRows
  <2>2. \A i \in 1..n : <<g[3 * i - 2], <<g[3 * i - 1], g[3 * i]>>>> \in R
    BY <2>1, <1>8 DEF SoftItem
  <2> HIDE DEF R
  <2>3. f \in Seq(R)
    BY <1>5, <2>2
  <2>4. AsRows(task, n, g) = f
    BY <1>8 DEF AsRows
  <2> QED
    BY <1>4, <2>3, <2>4 DEF R
<1>9. CASE task # "rerank"
  <2> DEFINE f == [i \in 1..n |-> <<g[2 * i - 1], g[2 * i]>>]
  <2>1. \A i \in 1..n : g[2 * i - 1] \in Seq(Units) /\ g[2 * i] \in SoftItem(task)
    BY <1>7, <1>9 DEF HoldsRows
  <2>2. \A i \in 1..n : <<g[2 * i - 1], g[2 * i]>> \in R
    BY <2>1
  <2> HIDE DEF R
  <2>3. f \in Seq(R)
    BY <1>5, <2>2
  <2>4. AsRows(task, n, g) = f
    BY <1>9 DEF AsRows
  <2> QED
    BY <1>4, <2>3, <2>4 DEF R
<1> QED
  BY <1>8, <1>9

-----------------------------------------------------------------------------
\* What is written, countable or not, is made of units.

\* A request of any length.
Soft(r) ==
    /\ r.task \in TaskNames /\ r.model \in Seq(Units) /\ r.n \in Nat
    /\ r.task = "embed" => r.items \in Seq(Seq(Units))
    /\ r.task = "rerank" => r.items \in Seq(Seq(Units) \X Seq(Units))
    /\ r.task = "evaluate" => r.items \in Seq(Nat)

LEMMA OpeningType ==
    ASSUME NEW task \in TaskNames, NEW model \in Seq(Units), NEW count \in Nat
    PROVE  /\ Opening(task, model, count) \in Seq(Units) /\ Len(Opening(task, model, count)) = Len(model) + 6
           /\ Opening(task, model, count)[1] = ProtocolVersion /\ Opening(task, model, count)[2] = Code(task)
<1> DEFINE a == <<ProtocolVersion, Code(task)>>
           b == PutStr(model)
           d == Word(count)
           o == Opening(task, model, count)
<1>1. ProtocolVersion \in Units /\ Code(task) \in Units
  BY CodeOf, UnitsAreNumbers DEF ProtocolVersion, TaskNames
<1>2. a \in Seq(Units) /\ Len(a) = 2 /\ a[1] = ProtocolVersion /\ a[2] = Code(task)
  BY <1>1
<1>3. b \in Seq(Units) /\ Len(b) = 2 + Len(model) /\ Len(model) \in Nat
  BY StrType
<1>4. d \in Seq(Units) /\ Len(d) = 2
  BY WordType
<1>5. o = (a \o b) \o d
  BY DEF Opening
<1> HIDE DEF a, b, d, o
<1>6. a \o b \in Seq(Units) /\ Len(a \o b) = Len(a) + Len(b) /\ (a \o b)[1] = a[1] /\ (a \o b)[2] = a[2]
  <2>1. 1 \in 1..Len(a) /\ 2 \in 1..Len(a)
    BY <1>2
  <2> QED
    <3>1. \A k \in 1..Len(a) : (a \o b)[k] = a[k]
      BY <1>2, <1>3, ConcatAt
    <3>2. a \o b \in Seq(Units) /\ Len(a \o b) = Len(a) + Len(b)
      BY <1>2, <1>3, ConcatLength
    <3> QED
      BY <2>1, <3>1, <3>2
<1> DEFINE e == a \o b
<1> HIDE DEF e
<1>7. e \o d \in Seq(Units) /\ Len(e \o d) = Len(e) + Len(d) /\ (e \o d)[1] = e[1] /\ (e \o d)[2] = e[2]
  <2>1. e \in Seq(Units) /\ Len(e) >= 2 /\ Len(e) \in Nat
    BY <1>2, <1>3, <1>6 DEF e
  <2>2. 1 \in 1..Len(e) /\ 2 \in 1..Len(e)
    BY <2>1
  <2> QED
    <3>1. \A k \in 1..Len(e) : (e \o d)[k] = e[k]
      BY <1>4, <2>1, ConcatAt
    <3>2. e \o d \in Seq(Units) /\ Len(e \o d) = Len(e) + Len(d)
      BY <1>4, <2>1, ConcatLength
    <3> QED
      BY <2>2, <3>1, <3>2
<1> QED
  BY <1>2, <1>3, <1>4, <1>5, <1>6, <1>7 DEF e, o

LEMMA OpeningThen ==
    ASSUME NEW task \in TaskNames, NEW model \in Seq(Units), NEW count \in Nat, NEW b \in Seq(Units)
    PROVE  LET p == Opening(task, model, count) \o b
           IN  p \in Seq(Units) /\ Len(p) >= 6 /\ p[1] = ProtocolVersion /\ p[2] = Code(task)
<1> DEFINE o == Opening(task, model, count)
<1>1. o \in Seq(Units) /\ Len(o) >= 6 /\ o[1] = ProtocolVersion /\ o[2] = Code(task)
  <2>1. Len(model) \in Nat
    OBVIOUS
  <2>2. /\ o \in Seq(Units) /\ Len(o) = Len(model) + 6
        /\ o[1] = ProtocolVersion /\ o[2] = Code(task)
    BY OpeningType
  <2> QED
    BY <2>1, <2>2
<1> HIDE DEF o
<1>2. o \o b \in Seq(Units) /\ Len(o \o b) >= 6 /\ (o \o b)[1] = o[1] /\ (o \o b)[2] = o[2]
  <2>1. 1 \in 1..Len(o) /\ 2 \in 1..Len(o) /\ Len(o) \in Nat
    BY <1>1
  <2>2. Len(o \o b) = Len(o) + Len(b) /\ Len(b) \in Nat /\ o \o b \in Seq(Units)
    BY <1>1, ConcatLength
  <2> QED
    BY <1>1, <2>1, <2>2, ConcatAt
<1> QED
  BY <1>1, <1>2 DEF o

LEMMA RequestType ==
    ASSUME NEW r, Soft(r)
    PROVE  /\ EncodeRequest(r) \in Seq(Units) /\ Len(EncodeRequest(r)) >= 6
           /\ EncodeRequest(r)[1] = ProtocolVersion /\ EncodeRequest(r)[2] = Code(r.task)
<1>0. r.task \in TaskNames /\ r.model \in Seq(Units) /\ r.n \in Nat
  BY DEF Soft
<1>1. CASE r.task = "embed"
  <2>1. r.items \in Seq(Seq(Units))
    BY <1>1 DEF Soft
  <2>2. PutStrs(r.items) \in Seq(Units) /\ Len(r.items) \in Nat
    BY <2>1, PutStrsAppend
  <2>3. EncodeRequest(r) = Opening("embed", r.model, Len(r.items)) \o PutStrs(r.items)
    BY <1>1 DEF EncodeRequest, EncodeEmbed, PutStrs
  <2> QED
    BY <1>0, <1>1, <2>2, <2>3, OpeningThen
<1>2. CASE r.task = "rerank"
  <2>1. r.items \in Seq(Seq(Units) \X Seq(Units))
    BY <1>2 DEF Soft
  <2>2. PutPairs(r.items) \in Seq(Units) /\ Len(r.items) \in Nat
    BY <2>1, PutPairsAppend
  <2>3. EncodeRequest(r) = Opening("rerank", r.model, Len(r.items)) \o PutPairs(r.items)
    BY <1>2 DEF EncodeRequest, EncodeRerank, PutPairs
  <2> QED
    BY <1>0, <1>2, <2>2, <2>3, OpeningThen
<1>3. CASE r.task = "evaluate"
  <2> DEFINE n == r.n % WordMod
             l == Len(r.items) % WordMod
             k == IF n = 0 THEN 0 ELSE l \div n
             o == Opening("evaluate", r.model, k)
             h == Word(r.n)
             f == Floats(r.items)
  <2>1. r.items \in Seq(Nat)
    BY <1>3 DEF Soft
  <2>2. EncodeRequest(r) = (o \o h) \o f
    BY <1>3 DEF EncodeRequest, EncodeEvaluate
  <2>3. k \in Nat
    <3>1. n \in Nat /\ l \in Nat
      <4>1. Len(r.items) \in Nat /\ WordMod \in Nat \ {0}
        BY <2>1, UnitsAreNumbers
      <4>2. \A x \in Nat, y \in Nat \ {0} : x % y \in Nat
        OBVIOUS
      <4> QED
        BY <1>0, <4>1, <4>2
    <3> HIDE DEF n, l
    <3>2. n # 0 => l \div n \in Nat
      BY <3>1, Division
    <3> QED
      BY <3>2
  <2>4. h \in Seq(Units) /\ f \in Seq(Units)
    BY <1>0, <2>1, WordType, FloatsType
  <2> HIDE DEF k
  <2>5. o \in Seq(Units)
    BY <1>0, <1>3, <2>3, OpeningType
  <2>6. (o \o h) \o f = o \o (h \o f) /\ h \o f \in Seq(Units)
    <3> HIDE DEF o, h, f
    <3> QED
      BY <2>4, <2>5
  <2> DEFINE b == h \o f
  <2>7. b \in Seq(Units) /\ EncodeRequest(r) = o \o b
    BY <2>2, <2>6
  <2> HIDE DEF b
  <2> QED
    BY <1>0, <1>3, <2>3, <2>7, OpeningThen
<1> QED
  BY <1>0, <1>1, <1>2, <1>3 DEF TaskNames

\* A row and a block of any length.
LEMMA SoftRow ==
    ASSUME NEW task \in TaskNames, NEW model \in Seq(Units), NEW item \in SoftItem(task)
    PROVE  RowOf(task, model, item) \in Seq(Units)
<1> DEFINE m == RowString(model)
<1>1. m \in Seq(Units)
  BY RowStringType
<1>2. CASE task = "embed"
  <2>1. RowString(item) \in Seq(Units)
    BY <1>2, RowStringType DEF SoftItem
  <2>2. RowOf(task, model, item) = m \o RowString(item)
    BY <1>2 DEF RowOf
  <2> HIDE DEF m
  <2> QED
    BY <1>1, <2>1, <2>2
<1>3. CASE task = "rerank"
  <2>0. item[1] \in Seq(Units) /\ item[2] \in Seq(Units)
    BY <1>3 DEF SoftItem
  <2>1. RowString(item[1]) \in Seq(Units) /\ RowString(item[2]) \in Seq(Units)
    BY <2>0, RowStringType
  <2>2. RowOf(task, model, item) = m \o (RowString(item[1]) \o RowString(item[2]))
    BY <1>3 DEF RowOf
  <2> HIDE DEF m
  <2> QED
    BY <1>1, <2>1, <2>2
<1>4. CASE task = "evaluate"
  <2>1. RowArray(item) \in Seq(Units)
    BY <1>4, RowArrayType DEF SoftItem
  <2>2. RowOf(task, model, item) = m \o RowArray(item)
    BY <1>4 DEF RowOf
  <2> HIDE DEF m
  <2> QED
    BY <1>1, <2>1, <2>2
<1> QED
  BY <1>2, <1>3, <1>4 DEF TaskNames

LEMMA SoftBlock ==
    ASSUME NEW task \in TaskNames, NEW model \in Seq(Units), NEW items \in Seq(SoftItem(task))
    PROVE  Block(RowsWritten(task, model, items)) \in Seq(Units)
<1> DEFINE T == SoftItem(task)
           n == Len(items)
           rows == RowsWritten(task, model, items)
<1>1. n \in Nat /\ DOMAIN items = 1..n /\ \A i \in 1..n : items[i] \in T
  OBVIOUS
<1>2. rows = [i \in 1..n |-> RowOf(task, model, items[i])]
  BY <1>1 DEF RowsWritten
<1>3. \A i \in 1..n : RowOf(task, model, items[i]) \in Seq(Units)
  BY <1>1, SoftRow
<1> HIDE DEF n, T
<1>4. rows \in Seq(Seq(Units)) /\ Len(rows) = n
  BY <1>1, <1>2, <1>3
<1> HIDE DEF rows
<1>5. FlattenSeq(rows) \in Seq(Units)
  BY <1>4, FlattenType
<1>6. VarUint[Len(rows)] \in Seq(Units)
  BY <1>1, <1>4, VarUintGroups
<1> QED
  BY <1>5, <1>6 DEF Block, rows

-----------------------------------------------------------------------------
\* A response is decoded by its places: the status, the task, the dimension of
\* embeddings, the count and the values.

\* Where the values start, for the task with code k.
HeadLen(k) == IF k = 0 THEN 6 ELSE 4

Complete(x) ==
    /\ Len(x) >= 2 /\ x[1] = StatusOk /\ x[2] \in 0..2
    /\ Len(x) >= HeadLen(x[2])
    /\ Len(x) = HeadLen(x[2]) + 2 * WordAt(x, HeadLen(x[2]) - 1)

ResponseAt(x) ==
    LET h == HeadLen(x[2])
    IN  [task |-> Tasks[x[2] + 1], dim |-> IF x[2] = 0 THEN WordAt(x, 3) ELSE 0,
         floats |-> FloatsAt(x, h + 1, WordAt(x, h - 1))]

LEMMA WordTaken ==
    ASSUME NEW x \in Seq(Nat), NEW c \in Cursors, c.at # 0
    PROVE  /\ TakeWord(x, c) = IF c.at + 1 <= Len(x) THEN Advance(c, 2, WordAt(x, c.at)) ELSE Broken
           /\ c.at + 1 <= Len(x) => WordAt(x, c.at) \in Nat
<1>1. c.at \in Nat /\ c.at + 2 - 1 = c.at + 1
  BY DEF Cursors
<1>2. Has(x, c, 2) <=> c.at + 1 <= Len(x)
  BY <1>1 DEF Has
<1>3. ASSUME c.at + 1 <= Len(x) PROVE WordAt(x, c.at) \in Nat
  <2> DEFINE a == x[c.at]
             b == x[c.at + 1]
  <2>1. a \in Nat /\ b \in Nat /\ Base \in Nat /\ WordAt(x, c.at) = a + Base * b
    BY <1>1, <1>3, UnitsAreNumbers DEF WordAt
  <2> HIDE DEF a, b
  <2> QED
    BY <2>1
<1> QED
  BY <1>2, <1>3 DEF TakeWord

\* What follows the count is read when it is there, to the end.
LEMMA ValuesTaken ==
    ASSUME NEW x \in Seq(Nat), NEW c \in Cursors, c.at # 0, NEW k \in 0..2, NEW s, NEW d \in Nat, s \in Nat,
           c.got = <<s, k, d>>
    PROVE  LET e == SizedFloats(x, TakeWord(x, c))
           IN  DecodeFloats(x, e) =
                  IF c.at + 1 <= Len(x) /\ Len(x) = c.at + 1 + 2 * WordAt(x, c.at)
                  THEN [task |-> Tasks[k + 1], dim |-> d, floats |-> FloatsAt(x, c.at + 2, WordAt(x, c.at))]
                  ELSE Malformed
<1> DEFINE i == c.at
           w == TakeWord(x, c)
           n == WordAt(x, i)
           e == SizedFloats(x, w)
<1>0. i \in Nat \ {0} /\ Len(x) \in Nat
  BY DEF Cursors
<1>1. CASE ~(i + 1 <= Len(x))
  <2>1. w = Broken
    BY <1>1, WordTaken
  <2>2. e = Broken
    BY <2>1, SizedBroken
  <2> HIDE DEF e
  <2>3. DecodeFloats(x, e) = Malformed
    BY <1>0, <2>2 DEF DecodeFloats, AtEnd, Broken
  <2> QED
    BY <1>1, <2>3 DEF e
<1>2. CASE i + 1 <= Len(x)
  <2>1. w = Advance(c, 2, n) /\ n \in Nat
    BY <1>2, WordTaken
  <2> DEFINE g == Moved(c, 2)
  <2> HIDE DEF n, w
  <2>2. e = TakeFloats(x, g, n)
    <3> DEFINE two == 2
    <3>1. w = Advance(c, two, n) /\ two \in Nat
      BY <2>1
    <3> HIDE DEF two
    <3>2. SizedFloats(x, Advance(c, two, n)) = TakeFloats(x, Moved(c, two), n)
      BY <2>1, <3>1, SizedAfter
    <3> QED
      BY <3>1, <3>2 DEF two
  <2>3. g \in Cursors /\ g.at = i + 2 /\ g.got = <<s, k, d>>
    BY MovedType
  <2> HIDE DEF g, e
  <2>4. 2 * n \in Nat /\ (i + 2) + 2 * n - 1 = i + 1 + 2 * n
    BY <1>0, <2>1
  <2>5. Has(x, g, 2 * n) <=> i + 1 + 2 * n <= Len(x)
    BY <1>0, <2>3, <2>4 DEF Has
  <2>6. CASE ~Has(x, g, 2 * n)
    <3>1. e = Broken
      BY <2>2, <2>6 DEF TakeFloats
    <3>2. DecodeFloats(x, e) = Malformed
      BY <1>0, <3>1 DEF DecodeFloats, AtEnd, Broken
    <3>3. Len(x) # i + 1 + 2 * n
      BY <1>0, <2>1, <2>4, <2>5, <2>6
    <3> QED
      BY <3>2, <3>3 DEF e, w, n
  <2>7. CASE Has(x, g, 2 * n)
    <3> DEFINE f == FloatsAt(x, g.at, n)
    <3>1. e = [at |-> g.at + 2 * n, got |-> Append(g.got, f)]
      BY <2>2, <2>7 DEF TakeFloats, Advance, FloatsAt
    <3> HIDE DEF f
    <3>5. e.at = i + 2 + 2 * n
      BY <2>3, <3>1
    <3>2. AtEnd(x, e) <=> Len(x) = i + 1 + 2 * n
      <4> DEFINE m == 2 * n
                 l == Len(x)
      <4>2. m \in Nat /\ l \in Nat /\ i \in Nat /\ e.at = i + 2 + m
        BY <1>0, <2>4, <3>5
      <4> HIDE DEF i, m, l
      <4>3. i + 2 + m = l + 1 <=> l = i + 1 + m
        BY <4>2
      <4>1. e.at = l + 1 <=> l = i + 1 + m
        BY <4>2, <4>3
      <4> QED
        BY <4>1 DEF AtEnd, m, l
    <3>3. e.got[2] = k /\ e.got[3] = d /\ e.got[4] = f
      BY <2>3, <3>1
    <3>4. DecodeFloats(x, e) = IF Len(x) = i + 1 + 2 * n
                               THEN [task |-> Tasks[k + 1], dim |-> d, floats |-> f] ELSE Malformed
      BY <3>2, <3>3 DEF DecodeFloats
    <3> QED
      BY <1>2, <2>3, <3>4 DEF e, w, n, f
  <2> QED
    BY <2>6, <2>7
<1> QED
  BY <1>1, <1>2

LEMMA DecodeByPlace ==
    ASSUME NEW x \in Seq(Nat), ~(Len(x) >= 1 /\ x[1] = StatusError)
    PROVE  DecodeResponse(x) = IF Complete(x) THEN ResponseAt(x) ELSE Malformed
<1> DEFINE a == TakeUnit(x, Start)
           b == TakeUnit(x, a)
           k == x[2]
           s == x[1]
<1>0. Start \in Cursors /\ Start.at = 1 /\ Start.got = <<>> /\ Len(x) \in Nat
  BY BrokenType DEF Start
<1>1. DecodeResponse(x) = DecodeOk(x, b)
  BY <1>0 DEF DecodeResponse, Has
<1>2. CASE Len(x) < 2
  <2>1. b.at = 0
    <3>1. a = Broken \/ (a = Advance(Start, 1, x[1]))
      BY DEF TakeUnit, Start
    <3>2. a.at = 0 \/ a.at = 2
      BY <1>0, <3>1 DEF Broken, Advance
    <3> HIDE DEF a
    <3>3. ~Has(x, a, 1)
      BY <1>0, <1>2, <3>2 DEF Has
    <3> QED
      BY <3>3 DEF TakeUnit, Broken
  <2> QED
    BY <1>1, <1>2, <2>1 DEF DecodeOk, Complete
<1>3. CASE Len(x) >= 2
  <2>1. s \in Nat /\ k \in Nat /\ s \in Values /\ k \in Values
    BY <1>3 DEF Values
  <2>2. a = Advance(Start, 1, s)
    BY <1>0, <1>3 DEF TakeUnit, Has
  <2>3. a.at = 2 /\ a.got = <<s>> /\ a \in Cursors
    <3>1. a = [at |-> 2, got |-> Append(<<>>, s)]
      BY <1>0, <2>2 DEF Advance
    <3> HIDE DEF a, s
    <3>2. Append(<<>>, s) = <<s>> /\ <<s>> \in Seq(Values)
      BY <2>1
    <3> QED
      BY <3>1, <3>2 DEF Cursors
  <2> HIDE DEF a
  <2>4. b = Advance(a, 1, k)
    BY <1>3, <2>3 DEF TakeUnit, Has
  <2>5. b = [at |-> 3, got |-> <<s, k>>] /\ b.at = 3 /\ b.got = <<s, k>> /\ b \in Cursors
    <3>1. b = [at |-> 3, got |-> Append(<<s>>, k)]
      BY <2>3, <2>4 DEF Advance
    <3> HIDE DEF b, s, k
    <3>2. Append(<<s>>, k) = <<s, k>> /\ <<s, k>> \in Seq(Values)
      BY <2>1, TwoAppended
    <3> QED
      BY <3>1, <3>2 DEF Cursors
  <2> HIDE DEF b, s, k
  <2>6. b.at # 0 /\ b.got[1] = s /\ b.got[2] = k
    BY <2>5
  <2>7. CASE s # StatusOk \/ k \notin 0..2
    <3>1. ~Complete(x)
      BY <2>7 DEF Complete, s, k
    <3>2. DecodeOk(x, b) = Malformed
      BY <2>6, <2>7 DEF DecodeOk
    <3> QED
      BY <1>1, <3>1, <3>2
  <2>8. CASE s = StatusOk /\ k \in 0..2
    <3> DEFINE c == TakeDim(x, b)
               e == SizedFloats(x, TakeWord(x, c))
    <3>1. DecodeOk(x, b) = DecodeFloats(x, e)
      BY <2>6, <2>8 DEF DecodeOk, SizedFloats
    <3>2. Tasks[k + 1] = "embed" <=> k = 0
      <4>1. k = 0 \/ k = 1 \/ k = 2
        BY <2>8
      <4> QED
        BY <4>1 DEF Tasks
    <3>3. CASE k = 0 /\ Len(x) < 4
      <4>1. c = Broken
        BY <1>0, <2>5, <2>6, <3>2, <3>3, WordTaken DEF TakeDim
      <4>2. e = Broken
        <5>1. TakeWord(x, Broken) = Broken
          BY DEF TakeWord, Has, Broken
        <5> QED
          BY <4>1, <5>1, SizedBroken
      <4> HIDE DEF e
      <4>3. DecodeFloats(x, e) = Malformed
        BY <1>0, <4>2 DEF DecodeFloats, AtEnd, Broken
      <4>4. ~Complete(x)
        BY <1>0, <3>3 DEF Complete, HeadLen, k
      <4> QED
        BY <1>1, <3>1, <4>3, <4>4 DEF e
    <3>4. CASE ~(k = 0 /\ Len(x) < 4)
      <4> DEFINE d == IF k = 0 THEN WordAt(x, 3) ELSE 0
                 i == IF k = 0 THEN 5 ELSE 3
                 j == IF k = 0 THEN 2 ELSE 0
      <4>1. d \in Nat /\ c = Advance(b, j, d)
        <5>1. CASE k = 0
          <6>1. c = TakeWord(x, b)
            BY <2>6, <3>2, <5>1 DEF TakeDim
          <6>2. 3 + 1 <= Len(x)
            BY <1>0, <3>4, <5>1
          <6> QED
            BY <2>5, <2>6, <5>1, <6>1, <6>2, WordTaken
        <5>2. CASE k # 0
          BY <2>6, <3>2, <5>2 DEF TakeDim
        <5> QED
          BY <5>1, <5>2
      <4> HIDE DEF d, c
      <4>2. c.at = i /\ c.got = <<s, k, d>> /\ c \in Cursors
        <5>1. c = [at |-> 3 + j, got |-> Append(<<s, k>>, d)]
          BY <2>5, <4>1 DEF Advance
        <5>2. d \in Values
          BY <4>1 DEF Values
        <5>3. Append(<<s, k>>, d) = <<s, k, d>> /\ <<s, k, d>> \in Seq(Values)
          BY <2>1, <5>2, ThreeAppended
        <5> QED
          BY <5>1, <5>3 DEF Cursors
      <4> DEFINE n == WordAt(x, i)
      <4>3. DecodeFloats(x, e) =
               IF i + 1 <= Len(x) /\ Len(x) = i + 1 + 2 * n
               THEN [task |-> Tasks[k + 1], dim |-> d, floats |-> FloatsAt(x, i + 2, n)]
               ELSE Malformed
        <5>1. c.at # 0 /\ s \in Nat
          BY <2>1, <4>2
        <5> HIDE DEF i
        <5> QED
          BY <2>8, <4>1, <4>2, <5>1, ValuesTaken
      <4>4. HeadLen(k) = i + 1 /\ HeadLen(k) - 1 = i /\ HeadLen(k) + 1 = i + 2
        BY DEF HeadLen
      <4>5. Complete(x) <=> (i + 1 <= Len(x) /\ Len(x) = i + 1 + 2 * n)
        <5>1. Complete(x) <=> (Len(x) >= HeadLen(k) /\ Len(x) = HeadLen(k) + 2 * WordAt(x, HeadLen(k) - 1))
          BY <1>3, <2>8 DEF Complete, k, s
        <5> HIDE DEF i
        <5>2. Complete(x) <=> (Len(x) >= i + 1 /\ Len(x) = i + 1 + 2 * WordAt(x, i))
          BY <4>4, <5>1
        <5>3. Len(x) >= i + 1 <=> i + 1 <= Len(x)
          BY <1>0 DEF i
        <5> QED
          BY <5>2, <5>3
      <4>6. ResponseAt(x) = [task |-> Tasks[k + 1], dim |-> d, floats |-> FloatsAt(x, i + 2, n)]
        <5> HIDE DEF i
        <5> QED
          BY <4>4 DEF ResponseAt, k, d
      <4> QED
        BY <1>1, <3>1, <4>3, <4>5, <4>6
    <3> QED
      BY <3>3, <3>4
  <2> QED
    BY <2>7, <2>8
<1> QED
  BY <1>0, <1>2, <1>3

LEMMA WordStands ==
    ASSUME NEW p \in Seq(Nat), NEW i, NEW n \in Nat, Stands(p, i, Word(n))
    PROVE  WordAt(p, i) = n % WordMod
<1>1. Len(Word(n)) = 2 /\ Word(n)[1] + Base * Word(n)[2] = n % WordMod
  BY WordType
<1>2. i \in Nat /\ \A k \in 1..2 : p[i + k - 1] = Word(n)[k]
  BY <1>1 DEF Stands
<1>3. i + 1 - 1 = i /\ i + 2 - 1 = i + 1
  BY <1>2
<1>4. p[i] = Word(n)[1] /\ p[i + 1] = Word(n)[2]
  BY <1>2, <1>3
<1> QED
  BY <1>1, <1>4 DEF WordAt

LEMMA FloatsStand ==
    ASSUME NEW p \in Seq(Nat), NEW i, NEW vs \in Seq(Nat), Stands(p, i, Floats(vs)), NEW j \in 1..Len(vs)
    PROVE  WordAt(p, i + 2 * j - 2) = vs[j] % WordMod
<1> DEFINE f == Floats(vs)
           v == vs[j]
           w == Word(v)
           l == i + 2 * j - 2
<1>1. v \in Nat /\ j \in Nat /\ j >= 1 /\ j <= Len(vs) /\ Len(vs) \in Nat
  OBVIOUS
<1>2. Len(f) = 2 * Len(vs) /\ f[2 * j - 1] = w[1] /\ f[2 * j] = w[2]
  BY FloatsType
<1>3. w[1] + Base * w[2] = v % WordMod
  BY <1>1, WordType
<1>4. i \in Nat /\ \A k \in 1..Len(f) : p[i + k - 1] = f[k]
  BY DEF Stands
<1> HIDE DEF f, v, w
<1>5. 2 * j - 1 \in 1..Len(f) /\ 2 * j \in 1..Len(f)
  BY <1>1, <1>2
<1>6. i + (2 * j - 1) - 1 = l /\ i + 2 * j - 1 = l + 1
  BY <1>1, <1>4
<1> HIDE DEF l
<1>7. p[l] = w[1] /\ p[l + 1] = w[2]
  BY <1>2, <1>4, <1>5, <1>6
<1> QED
  BY <1>3, <1>7 DEF WordAt, l, v

\* A response of any size.
Answerable(r) ==
    /\ r = [task |-> r.task, dim |-> r.dim, floats |-> r.floats]
    /\ r.task \in TaskNames /\ r.dim \in Nat /\ r.floats \in Seq(Nat)
    /\ r.task # "embed" => r.dim = 0

LEMMA ResponsePlaces ==
    ASSUME NEW r, Answerable(r)
    PROVE  LET p == EncodeResponse(r)
               k == Code(r.task)
               h == HeadLen(k)
           IN  /\ p \in Seq(Units) /\ p \in Seq(Nat) /\ Len(p) = h + 2 * Len(r.floats)
               /\ p[1] = StatusOk /\ p[2] = k /\ k \in 0..2 /\ Tasks[k + 1] = r.task
               /\ (k = 0 <=> r.task = "embed") /\ (k = 0 => WordAt(p, 3) = r.dim % WordMod)
               /\ WordAt(p, h - 1) = Len(r.floats) % WordMod
               /\ \A i \in 1..Len(r.floats) : WordAt(p, h + 1 + 2 * i - 2) = r.floats[i] % WordMod
<1> DEFINE p == EncodeResponse(r)
           k == Code(r.task)
           h == HeadLen(k)
           n == Len(r.floats)
           a == <<StatusOk, k>>
           d == IF r.task = "embed" THEN Word(r.dim) ELSE <<>>
           w == Word(n)
           f == Floats(r.floats)
<1>0. r.task \in TaskNames /\ r.dim \in Nat /\ r.floats \in Seq(Nat) /\ n \in Nat
  BY DEF Answerable
<1>1. k \in 0..2 /\ Tasks[k + 1] = r.task /\ k \in Units /\ (k = 0 <=> r.task = "embed")
  <2>1. k \in 0..2 /\ Tasks[k + 1] = r.task /\ k \in Units
    BY <1>0, CodeOf DEF TaskNames
  <2>2. k = 0 \/ k = 1 \/ k = 2
    BY <2>1
  <2> HIDE DEF k
  <2>3. k = 0 <=> r.task = "embed"
    BY <2>1, <2>2 DEF Tasks
  <2> QED
    BY <2>1, <2>3
<1>2. p = ((a \o d) \o w) \o f
  <2>1. r # Error
    BY <1>0 DEF TaskNames, Error
  <2> QED
    BY <2>1 DEF EncodeResponse
<1>3. a \in Seq(Units) /\ Len(a) = 2 /\ a[1] = StatusOk /\ a[2] = k
  <2>1. StatusOk \in Units
    BY UnitsAreNumbers DEF StatusOk
  <2> HIDE DEF k
  <2> QED
    BY <1>1, <2>1
<1>4. d \in Seq(Units) /\ Len(d) = h - 4 /\ (k = 0 => d = Word(r.dim)) /\ h \in {4, 6}
  <2>1. CASE k = 0
    <3>1. h = 6
      BY <2>1 DEF HeadLen
    <3> HIDE DEF h, k
    <3>2. d = Word(r.dim)
      BY <1>1, <2>1
    <3> HIDE DEF d
    <3>3. Word(r.dim) \in Seq(Units) /\ Len(Word(r.dim)) = 2
      BY <1>0, WordType
    <3> QED
      BY <2>1, <3>1, <3>2, <3>3
  <2>2. CASE k # 0
    <3>1. h = 4
      BY <2>2 DEF HeadLen
    <3> HIDE DEF h, k
    <3> QED
      BY <1>0, <1>1, <2>2, <3>1
  <2> QED
    BY <2>1, <2>2
<1>5. w \in Seq(Units) /\ Len(w) = 2
  BY <1>0, WordType
<1>6. f \in Seq(Units) /\ Len(f) = 2 * n
  BY <1>0, FloatsType
<1> HIDE DEF k, h, n, a, d, w, f, p
<1> DEFINE x == a \o d
           y == x \o w
<1>7. x \in Seq(Units) /\ Len(x) = h - 2
  <2>1. x \in Seq(Units) /\ Len(x) = Len(a) + Len(d)
    BY <1>3, <1>4, ConcatLength
  <2> HIDE DEF x
  <2>2. 2 + (h - 4) = h - 2
    BY <1>4
  <2> QED
    BY <1>3, <1>4, <2>1, <2>2
<1> HIDE DEF x
<1>8. y \in Seq(Units) /\ Len(y) = h
  BY <1>4, <1>5, <1>7, ConcatLength
<1> HIDE DEF y
<1>9. p = y \o f /\ p \in Seq(Units) /\ Len(p) = h + 2 * n
  <2>1. p = y \o f
    BY <1>2 DEF y, x
  <2> QED
    BY <1>6, <1>8, <2>1, ConcatLength
<1>10. /\ p \in Seq(Nat) /\ y \in Seq(Nat) /\ f \in Seq(Nat) /\ x \in Seq(Nat) /\ w \in Seq(Nat)
       /\ a \in Seq(Nat) /\ d \in Seq(Nat)
  BY <1>3, <1>4, <1>5, <1>6, <1>7, <1>8, <1>9, Numbers
<1>11. Stands(p, 1, y) /\ Stands(p, 1 + h, f)
  <2>1. Stands(p, 1, y \o f)
    BY <1>9, <1>10, StandsWhole
  <2> QED
    BY <1>8, <1>10, <2>1, StandsConcat
<1>12. Stands(p, 1, x) /\ Stands(p, h - 1, w)
  <2>1. Stands(p, 1, x \o w)
    BY <1>11 DEF y
  <2>2. Stands(p, 1, x) /\ Stands(p, 1 + Len(x), w)
    BY <1>10, <2>1, StandsConcat
  <2>3. 1 + Len(x) = h - 1
    BY <1>4, <1>7
  <2> QED
    BY <2>2, <2>3
<1>13. Stands(p, 1, a) /\ Stands(p, 3, d)
  <2>1. Stands(p, 1, a \o d)
    BY <1>12 DEF x
  <2>2. Stands(p, 1, a) /\ Stands(p, 1 + Len(a), d)
    BY <1>10, <2>1, StandsConcat
  <2>3. 1 + Len(a) = 3
    BY <1>3
  <2> QED
    BY <2>2, <2>3
<1>14. p[1] = StatusOk /\ p[2] = k
  <2>1. \A i \in 1..2 : p[1 + i - 1] = a[i]
    BY <1>3, <1>13 DEF Stands
  <2>2. p[1] = a[1] /\ p[2] = a[2]
    BY <2>1
  <2> QED
    BY <1>3, <2>2
<1>15. k = 0 => WordAt(p, 3) = r.dim % WordMod
  <2> SUFFICES ASSUME k = 0 PROVE WordAt(p, 3) = r.dim % WordMod
    OBVIOUS
  <2> DEFINE three == 3
  <2>1. Stands(p, three, Word(r.dim))
    BY <1>4, <1>13
  <2> HIDE DEF three
  <2>2. WordAt(p, three) = r.dim % WordMod
    BY <1>0, <1>10, <2>1, WordStands
  <2> QED
    BY <2>2 DEF three
<1>16. WordAt(p, h - 1) = n % WordMod
  <2> DEFINE i == h - 1
  <2>1. Stands(p, i, Word(n))
    BY <1>12 DEF w
  <2> HIDE DEF i
  <2>2. WordAt(p, i) = n % WordMod
    BY <1>0, <1>10, <2>1, WordStands
  <2> QED
    BY <2>2 DEF i
<1>17. ASSUME NEW i \in 1..n PROVE WordAt(p, h + 1 + 2 * i - 2) = r.floats[i] % WordMod
  <2> DEFINE b == h + 1
  <2>1. Stands(p, b, Floats(r.floats))
    <3>1. 1 + h = b
      BY <1>4
    <3> QED
      BY <1>11, <3>1 DEF f
  <2> HIDE DEF b
  <2>2. WordAt(p, b + 2 * i - 2) = r.floats[i] % WordMod
    BY <1>0, <1>10, <2>1, FloatsStand DEF n
  <2> QED
    BY <2>2 DEF b
<1> QED
  BY <1>1, <1>9, <1>10, <1>14, <1>15, <1>16, <1>17 DEF p, k, h, n

\* What a peer makes of a response.
Received(r) ==
    [task |-> r.task, dim |-> r.dim % WordMod,
     floats |-> [i \in 1..(Len(r.floats) % WordMod) |-> r.floats[i] % WordMod]]

LEMMA BegunWord ==
    ASSUME NEW p \in Seq(Nat), NEW x \in Seq(Nat), Begins(x, p), NEW i \in Nat, i >= 1, i + 1 <= Len(x)
    PROVE  WordAt(x, i) = WordAt(p, i)
<1>1. i \in 1..Len(x) /\ i + 1 \in 1..Len(x)
  OBVIOUS
<1>2. p[i] = x[i] /\ p[i + 1] = x[i + 1]
  BY <1>1 DEF Begins
<1> QED
  BY <1>2 DEF WordAt

LEMMA ModSmall ==
    ASSUME NEW n \in Nat, NEW m \in Nat, m > 0
    PROVE  n % m \in Nat /\ n % m <= n /\ n % m < m /\ (n < m => n % m = n)
BY Division

LEMMA ResponseBegun ==
    ASSUME NEW r, Answerable(r), NEW x \in Seq(Nat), Begins(x, EncodeResponse(r))
    PROVE  /\ ~Complete(x) => DecodeResponse(x) = Malformed
           /\ Complete(x) =>
                 /\ Len(x) = HeadLen(Code(r.task)) + 2 * (Len(r.floats) % WordMod)
                 /\ DecodeResponse(x) = Received(r)
<1> DEFINE p == EncodeResponse(r)
           k == Code(r.task)
           h == HeadLen(k)
           fs == r.floats
           n == Len(fs) % WordMod
<1>1. /\ p \in Seq(Nat) /\ Len(p) = h + 2 * Len(fs)
      /\ p[1] = StatusOk /\ p[2] = k /\ k \in 0..2 /\ Tasks[k + 1] = r.task
      /\ (k = 0 <=> r.task = "embed") /\ (k = 0 => WordAt(p, 3) = r.dim % WordMod)
      /\ WordAt(p, h - 1) = n
      /\ \A i \in 1..Len(fs) : WordAt(p, h + 1 + 2 * i - 2) = fs[i] % WordMod
  BY ResponsePlaces
<1>2. fs \in Seq(Nat) /\ r.dim \in Nat /\ (r.task # "embed" => r.dim = 0)
  BY DEF Answerable
<1>3. Len(fs) \in Nat /\ WordMod \in Nat /\ WordMod > 0
  BY <1>2, UnitsAreNumbers
<1>4. n \in Nat /\ n <= Len(fs)
  BY <1>3, ModSmall
<1>5. h \in {4, 6} /\ (k = 0 => h = 6) /\ Len(x) \in Nat
  BY DEF HeadLen
<1>6. Begins(x, p)
  OBVIOUS
<1> HIDE DEF p, k, h, fs, n
<1>7. \A i \in 1..Len(x) : x[i] = p[i]
  BY <1>6 DEF Begins
<1>8. ~(Len(x) >= 1 /\ x[1] = StatusError)
  BY <1>1, <1>5, <1>7 DEF StatusError, StatusOk
<1>9. DecodeResponse(x) = IF Complete(x) THEN ResponseAt(x) ELSE Malformed
  BY <1>8, DecodeByPlace
<1>10. ~Complete(x) => DecodeResponse(x) = Malformed
  BY <1>9
<1>11. ASSUME Complete(x)
       PROVE  /\ Len(x) = HeadLen(Code(r.task)) + 2 * (Len(r.floats) % WordMod)
              /\ DecodeResponse(x) = Received(r)
  <2>1. Len(x) >= 2 /\ Len(x) >= HeadLen(x[2]) /\ Len(x) = HeadLen(x[2]) + 2 * WordAt(x, HeadLen(x[2]) - 1)
    BY <1>11 DEF Complete
  <2>2. x[2] = k
    BY <1>1, <1>5, <1>7, <2>1
  <2>3. Len(x) >= h /\ Len(x) = h + 2 * WordAt(x, h - 1)
    BY <2>1, <2>2 DEF h
  <2>4. WordAt(x, h - 1) = n
    <3>1. h - 1 \in Nat /\ h - 1 >= 1 /\ (h - 1) + 1 <= Len(x)
      BY <1>5, <2>3
    <3> QED
      BY <1>1, <1>6, <3>1, BegunWord
  <2>5. k = 0 => WordAt(x, 3) = WordAt(p, 3)
    <3> SUFFICES ASSUME k = 0 PROVE WordAt(x, 3) = WordAt(p, 3)
      OBVIOUS
    <3> DEFINE three == 3
    <3>1. three \in Nat /\ three >= 1 /\ three + 1 <= Len(x)
      BY <1>5, <2>3
    <3> HIDE DEF three
    <3>2. WordAt(x, three) = WordAt(p, three)
      BY <1>1, <1>6, <3>1, BegunWord
    <3> QED
      BY <3>2 DEF three
  <2>6. ASSUME NEW i \in 1..n PROVE WordAt(x, h + 1 + 2 * i - 2) = fs[i] % WordMod
    <3> DEFINE j == h + 1 + 2 * i - 2
    <3>1. i \in Nat /\ 1 <= i /\ i <= n /\ i \in 1..Len(fs)
      BY <1>3, <1>4
    <3>2. Len(x) = h + 2 * n
      BY <2>3, <2>4
    <3>3. j \in Nat /\ j >= 1 /\ j + 1 <= Len(x)
      BY <1>4, <1>5, <3>1, <3>2
    <3>4. WordAt(p, j) = fs[i] % WordMod
      BY <1>1, <3>1
    <3> HIDE DEF j
    <3>5. WordAt(x, j) = WordAt(p, j)
      BY <1>1, <1>6, <3>3, BegunWord
    <3> QED
      BY <3>4, <3>5 DEF j
  <2>7. FloatsAt(x, h + 1, n) = [i \in 1..n |-> fs[i] % WordMod]
    BY <2>6 DEF FloatsAt
  <2>8. (IF k = 0 THEN WordAt(x, 3) ELSE 0) = r.dim % WordMod
    <3>1. CASE k = 0
      BY <1>1, <2>5, <3>1
    <3>2. CASE k # 0
      <4>1. r.dim = 0
        BY <1>1, <1>2, <3>2
      <4>2. 0 % WordMod = 0
        BY <1>3, ModSmall
      <4> QED
        BY <3>2, <4>1, <4>2
    <3> QED
      BY <3>1, <3>2
  <2>9. ResponseAt(x) = Received(r)
    <3>1. ResponseAt(x) = [task |-> Tasks[k + 1], dim |-> IF k = 0 THEN WordAt(x, 3) ELSE 0,
                           floats |-> FloatsAt(x, h + 1, n)]
      BY <2>2, <2>4 DEF ResponseAt, h
    <3> QED
      BY <1>1, <2>7, <2>8, <3>1 DEF Received, fs, n
  <2> QED
    BY <1>9, <1>11, <2>3, <2>4, <2>9 DEF h, k, n, fs
<1> QED
  BY <1>10, <1>11

\* decode_response reads an answer of fewer values than a u32 counts as the
\* values that were encoded, each one as wide as a word (protocol lib.rs:182-245).
THEOREM ResponseRead ==
    ASSUME NEW r, Answerable(r), Len(r.floats) < WordMod
    PROVE  DecodeResponse(EncodeResponse(r)) = Received(r)
<1> DEFINE p == EncodeResponse(r)
           k == Code(r.task)
           h == HeadLen(k)
           fs == r.floats
           n == Len(fs) % WordMod
<1>1. /\ p \in Seq(Nat) /\ Len(p) = h + 2 * Len(fs)
      /\ p[1] = StatusOk /\ p[2] = k /\ k \in 0..2
      /\ WordAt(p, h - 1) = n
  BY ResponsePlaces
<1>2. fs \in Seq(Nat) /\ Len(fs) \in Nat
  BY DEF Answerable
<1>3. n = Len(fs)
  <2> DEFINE l == Len(fs)
             m == WordMod
  <2>1. l \in Nat /\ m \in Nat /\ m > 0 /\ l < m
    BY <1>2, UnitsAreNumbers
  <2> HIDE DEF l, m
  <2>2. l % m = l
    BY <2>1, ModSmall
  <2> QED
    BY <2>2 DEF l, m
<1>4. h \in {4, 6} /\ Len(p) \in Nat
  <2>1. h \in {4, 6}
    BY DEF HeadLen
  <2> HIDE DEF p
  <2> QED
    BY <1>1, <2>1
<1>5. Complete(p)
  <2> HIDE DEF p, k, n
  <2>1. Len(p) >= h /\ Len(p) = h + 2 * WordAt(p, h - 1) /\ Len(p) >= 2
    <3>1. WordAt(p, h - 1) = Len(fs)
      BY <1>1, <1>3
    <3> HIDE DEF h, fs
    <3> DEFINE v == WordAt(p, h - 1)
               l == Len(fs)
               e == Len(p)
    <3>2. v = l /\ e = h + 2 * l /\ l \in Nat /\ h \in {4, 6}
      BY <1>1, <1>2, <1>4, <3>1
    <3> HIDE DEF v, l, e
    <3>3. e >= h /\ e = h + 2 * v /\ e >= 2
      BY <3>2
    <3> QED
      BY <3>3 DEF e, v
  <2> QED
    BY <1>1, <2>1 DEF Complete, h
<1>6. Begins(p, p)
  BY <1>4 DEF Begins
<1> QED
  BY <1>1, <1>5, <1>6, ResponseBegun

\* An answer that is an error is read as one or not at all.
LEMMA ErrorRead ==
    /\ EncodeResponse(Error) \in Seq(Units)
    /\ \A x \in Seq(Nat) : Begins(x, EncodeResponse(Error)) => DecodeResponse(x) \in {Malformed, Error}
<1> DEFINE p == EncodeResponse(Error)
<1>1. p = <<StatusError>> \o PutStr(<<>>)
  BY DEF EncodeResponse
<1>2. StatusError \in Units
  BY UnitsAreNumbers DEF StatusError
<1>3. PutStr(<<>>) \in Seq(Units)
  <2> DEFINE s == <<>>
  <2>1. s \in Seq(Units)
    OBVIOUS
  <2> HIDE DEF s
  <2>2. PutStr(s) \in Seq(Units)
    BY <2>1, StrType
  <2> QED
    BY <2>2 DEF s
<1>4. p \in Seq(Units) /\ p[1] = StatusError
  <2> DEFINE b == PutStr(<<>>)
  <2>1. b \in Seq(Units) /\ p = <<StatusError>> \o b
    BY <1>1, <1>3
  <2> HIDE DEF b, p
  <2> QED
    BY <1>2, <2>1
<1>5. ASSUME NEW x \in Seq(Nat), Begins(x, p) PROVE DecodeResponse(x) \in {Malformed, Error}
  <2>1. CASE Len(x) < 1
    <3>1. ~Has(x, Start, 1)
      BY <2>1 DEF Has, Start
    <3>2. TakeUnit(x, Start) = Broken
      BY <3>1 DEF TakeUnit
    <3>3. TakeUnit(x, Broken) = Broken
      BY DEF TakeUnit, Has, Broken
    <3>4. DecodeOk(x, Broken) = Malformed
      BY DEF DecodeOk, Broken
    <3> QED
      BY <3>1, <3>2, <3>3, <3>4 DEF DecodeResponse
  <2>2. CASE Len(x) >= 1
    <3>1. x[1] = StatusError
      BY <1>4, <1>5, <2>2 DEF Begins
    <3>2. Has(x, Start, 1)
      BY <2>2 DEF Has, Start
    <3>3. DecodeResponse(x) = DecodeError(x)
      BY <3>1, <3>2 DEF DecodeResponse
    <3> QED
      BY <3>3 DEF DecodeError
  <2>3. Len(x) \in Nat
    OBVIOUS
  <2> QED
    BY <2>1, <2>2, <2>3
<1> QED
  BY <1>4, <1>5

\* A payload behind a length, and what the reader takes for it.
LEMMA PrefixedRead ==
    ASSUME NEW n \in Nat, NEW p \in Seq(Units)
    PROVE  LET w == Word(n) \o p
           IN  /\ w \in Seq(Units) /\ Len(w) = Len(p) + 2 /\ WordAt(w, 1) = n % WordMod
               /\ \A l \in 0..Len(p) : LET x == SubSeq(w, 3, l + 2)
                                       IN  x \in Seq(Units) /\ x \in Seq(Nat) /\ Len(x) = l /\ Begins(x, p)
               /\ SubSeq(w, 3, Len(p) + 2) = p
<1> DEFINE h == Word(n)
           w == h \o p
<1>1. h \in Seq(Units) /\ Len(h) = 2 /\ h[1] + Base * h[2] = n % WordMod
  BY WordType
<1>2. Len(p) \in Nat /\ p = [i \in 1..Len(p) |-> p[i]]
  OBVIOUS
<1> HIDE DEF h
<1>3. w \in Seq(Units) /\ Len(w) = Len(p) + 2
  <2>1. w \in Seq(Units) /\ Len(w) = Len(h) + Len(p)
    BY <1>1, ConcatLength
  <2> HIDE DEF w
  <2> QED
    BY <1>1, <1>2, <2>1
<1>4. w[1] = h[1] /\ w[2] = h[2] /\ \A k \in 1..Len(p) : w[k + 2] = p[k]
  <2>0. (\A k \in 1..Len(h) : (h \o p)[k] = h[k]) /\ (\A k \in 1..Len(p) : (h \o p)[Len(h) + k] = p[k])
    <3>1. h \in Seq(Units) /\ p \in Seq(Units)
      BY <1>1
    <3> QED
      BY <3>1, SMT
  <2>1. (\A k \in 1..Len(h) : w[k] = h[k]) /\ (\A k \in 1..Len(p) : w[Len(h) + k] = p[k])
    BY <2>0
  <2> HIDE DEF w
  <2> QED
    BY <1>1, <1>2, <2>1
<1> HIDE DEF w
<1>5. WordAt(w, 1) = n % WordMod
  BY <1>1, <1>4 DEF WordAt
<1>6. ASSUME NEW l \in 0..Len(p)
      PROVE  LET x == SubSeq(w, 3, l + 2)
             IN  x \in Seq(Units) /\ x \in Seq(Nat) /\ Len(x) = l /\ \A k \in 1..l : x[k] = p[k]
  <2> DEFINE x == SubSeq(w, 3, l + 2)
  <2>1. x \in Seq(Units) /\ Len(x) = l /\ \A k \in 1..l : x[k] = w[k + 2]
    <3>1. l \in Nat /\ l + 2 <= Len(w)
      BY <1>2, <1>3
    <3>2. Len(x) = l /\ \A k \in 1..l : x[k] = w[k + 2]
      BY <1>3, <3>1
    <3>3. x \in Seq(Units)
      BY <1>3, <3>1
    <3> QED
      BY <3>2, <3>3
  <2> HIDE DEF x
  <2>2. \A k \in 1..l : x[k] = p[k]
    BY <1>2, <1>4, <2>1
  <2> QED
    BY <2>1, <2>2, Numbers DEF x
<1>7. ASSUME NEW l \in 0..Len(p)
      PROVE  LET x == SubSeq(w, 3, l + 2)
             IN  x \in Seq(Units) /\ x \in Seq(Nat) /\ Len(x) = l /\ Begins(x, p)
  BY <1>2, <1>6 DEF Begins
<1>8. SubSeq(w, 3, Len(p) + 2) = p
  <2> DEFINE m == Len(p)
             x == SubSeq(w, 3, m + 2)
  <2>1. x \in Seq(Units) /\ Len(x) = m /\ \A k \in 1..m : x[k] = p[k]
    BY <1>2, <1>6
  <2>2. x = [k \in 1..Len(x) |-> x[k]]
    BY <2>1
  <2> HIDE DEF x
  <2> QED
    BY <1>2, <2>1, <2>2 DEF x
<1> QED
  BY <1>3, <1>5, <1>7, <1>8 DEF w, h

-----------------------------------------------------------------------------
\* A column of arrays.

ArrayRows == {vs \in Seq(Words) : Len(vs) < WordMod}
PutArrays(ss) == FlattenSeq([i \in DOMAIN ss |-> RowArray(ss[i])])

LEMMA PutArraysAppend ==
    ASSUME NEW ss \in Seq(ArrayRows)
    PROVE  /\ PutArrays(ss) \in Seq(Nat) /\ PutArrays(<<>>) = <<>>
           /\ \A s \in ArrayRows : PutArrays(Append(ss, s)) = PutArrays(ss) \o RowArray(s)
<1> DEFINE ps == [i \in 1..Len(ss) |-> RowArray(ss[i])]
           n == Len(ss)
<1>1. n \in Nat /\ DOMAIN ss = 1..n /\ ss \in Seq(ArrayRows)
  OBVIOUS
<1>2. \A s \in ArrayRows : RowArray(s) \in Seq(Nat)
  BY RowArrayType, UnitsAreNumbers, WiderSeq DEF ArrayRows
<1>3. \A i \in 1..n : ps[i] = RowArray(ss[i]) /\ ps[i] \in Seq(Nat)
  BY <1>1, <1>2
<1>4. Numbered(ps, n) /\ PutArrays(ss) = FlattenSeq(ps)
  <2>1. ps = [i \in 1..n |-> ps[i]]
    BY Zenon
  <2> QED
    BY <1>1, <2>1 DEF Numbered, PutArrays
<1>5. PutArrays(<<>>) = <<>>
  <2>1. [i \in DOMAIN <<>> |-> RowArray(<<>>[i])] = <<>>
    OBVIOUS
  <2> QED
    BY <2>1, FlattenNothing DEF PutArrays
<1> HIDE DEF ps, n
<1>6. FlattenSeq(ps) \in Seq(Nat)
  BY <1>1, <1>3, <1>4, FlattenMore
<1>7. ASSUME NEW s \in ArrayRows PROVE PutArrays(Append(ss, s)) = PutArrays(ss) \o RowArray(s)
  <2> DEFINE tt == Append(ss, s)
             qs == [i \in 1..(n + 1) |-> RowArray(tt[i])]
  <2>1. DOMAIN tt = 1..(n + 1) /\ tt[n + 1] = s /\ \A i \in 1..n : tt[i] = ss[i]
    BY <1>1 DEF n
  <2>2. \A i \in 1..n : i \in 1..(n + 1)
    BY <1>1
  <2>3. qs[n + 1] = RowArray(s) /\ \A i \in 1..n : qs[i] = ps[i]
    BY <1>1, <1>3, <2>1, <2>2
  <2>4. Numbered(qs, n + 1) /\ PutArrays(tt) = FlattenSeq(qs)
    <3>1. qs = [i \in 1..(n + 1) |-> qs[i]]
      BY Zenon
    <3> HIDE DEF tt
    <3> QED
      BY <2>1, <3>1 DEF Numbered, PutArrays
  <2>5. qs[n + 1] \in Seq(Nat)
    BY <1>2, <2>3
  <2> HIDE DEF qs, tt
  <2>6. Extends(qs, ps, qs[n + 1])
    <3>1. \A q : Numbered(q, n + 1) /\ (\A i \in 1..n : q[i] = ps[i]) /\ q[n + 1] \in Seq(Nat) => Extends(q, ps, q[n + 1])
      BY <1>1, <1>3, <1>4, FlattenMore
    <3> QED
      BY <2>3, <2>4, <2>5, <3>1
  <2> QED
    BY <1>4, <2>3, <2>4, <2>6 DEF Extends, tt
<1> QED
  BY <1>4, <1>5, <1>6, <1>7

LEMMA ArraysRead ==
    ASSUME NEW p \in Seq(Nat)
    PROVE  \A ss \in Seq(ArrayRows) :
              Stands(p, 1, PutArrays(ss)) =>
                 TakeRowArrays(p, Len(ss), Start) = [at |-> 1 + Len(PutArrays(ss)), got |-> ss]
<1> DEFINE Goal(ss) == [at |-> 1 + Len(PutArrays(ss)), got |-> ss]
           P == {ss \in Seq(ArrayRows) : Stands(p, 1, PutArrays(ss)) => TakeRowArrays(p, Len(ss), Start) = Goal(ss)}
<1>1. Start \in Cursors
  BY BrokenType
<1>2. <<>> \in P
  <2>1. <<>> \in Seq(ArrayRows) /\ Len(<<>>) = 0 /\ 1 + 0 = 1
    OBVIOUS
  <2>2. PutArrays(<<>>) = <<>>
    BY <2>1, PutArraysAppend
  <2>3. Goal(<<>>) = Start
    BY <2>1, <2>2 DEF Start
  <2>4. TakeRowArrays(p, 0, Start) = Start
    BY <1>1, RowArraysStep
  <2> QED
    BY <2>1, <2>3, <2>4
<1>3. ASSUME NEW ss \in Seq(ArrayRows), NEW s \in ArrayRows, ss \in P PROVE Append(ss, s) \in P
  <2> DEFINE tt == Append(ss, s)
             a == PutArrays(ss)
             b == RowArray(s)
             n == Len(ss)
  <2>1. tt \in Seq(ArrayRows) /\ Len(tt) = n + 1 /\ n \in Nat
    OBVIOUS
  <2>2. s \in Seq(Words) /\ Len(s) < WordMod
    BY DEF ArrayRows
  <2>3. PutArrays(tt) = a \o b /\ a \in Seq(Nat) /\ b \in Seq(Nat) /\ Len(b) \in Nat /\ Len(a) \in Nat
    <3>1. PutArrays(tt) = a \o b /\ a \in Seq(Nat)
      BY PutArraysAppend
    <3>2. b \in Seq(Nat)
      BY <2>2, RowArrayType, UnitsAreNumbers, WiderSeq
    <3> QED
      BY <3>1, <3>2
  <2>4. ASSUME Stands(p, 1, a \o b) PROVE TakeRowArrays(p, n + 1, Start) = Goal(tt)
    <3> HIDE DEF n
    <3>1. Stands(p, 1, a) /\ Stands(p, 1 + Len(a), b)
      <4> HIDE DEF a, b
      <4> QED
        BY <2>3, <2>4, StandsConcat
    <3> DEFINE d == TakeRowArrays(p, n, Start)
    <3>2. d = [at |-> 1 + Len(a), got |-> ss]
      BY <1>3, <3>1 DEF n
    <3>3. d \in Cursors /\ TakeRowArrays(p, n + 1, Start) = TakeRowArray(p, d)
      BY <1>1, <2>1, RowArraysStep
    <3>4. d.at = 1 + Len(a) /\ d.got = ss
      BY <3>2
    <3> HIDE DEF d, a, b, tt
    <3>5. TakeRowArray(p, d) = Advance(d, Len(b), s)
      BY <2>2, <3>1, <3>3, <3>4, RowArrayRead DEF b
    <3>6. Advance(d, Len(b), s) = [at |-> 1 + Len(a) + Len(b), got |-> Append(ss, s)]
      BY <3>4, Zenon DEF Advance
    <3>8. Len(PutArrays(tt)) = Len(a) + Len(b)
      BY <2>3, ConcatLength
    <3>9. 1 + Len(a) + Len(b) = 1 + Len(PutArrays(tt))
      BY <2>3, <3>8
    <3> QED
      BY <3>3, <3>5, <3>6, <3>9 DEF tt
  <2> QED
    BY <2>1, <2>3, <2>4
<1> HIDE DEF P
<1>5. \A ss \in Seq(ArrayRows) : ss \in P
  BY <1>2, <1>3, SeqInduction
<1> QED
  BY <1>5 DEF P

\* The column of vectors the client writes, rows of any lengths, is read back
\* by ClickHouse as those vectors (bridge-client main.rs:245-251).
THEOREM ColumnOfArrays ==
    ASSUME NEW ss \in Seq(ArrayRows)
    PROVE  ReadF32Arrays(FlattenSeq([i \in DOMAIN ss |-> WriteVector(ss[i])]), Len(ss)) = ss
<1> DEFINE p == PutArrays(ss)
           d == TakeRowArrays(p, Len(ss), Start)
<1>1. p = FlattenSeq([i \in DOMAIN ss |-> WriteVector(ss[i])])
  BY DEF PutArrays, WriteVector, RowArray
<1>2. p \in Seq(Nat) /\ Len(p) \in Nat
  <2>1. p \in Seq(Nat)
    BY PutArraysAppend
  <2> QED
    BY <2>1
<1>3. d = [at |-> 1 + Len(p), got |-> ss]
  BY <1>2, ArraysRead, StandsWhole
<1> HIDE DEF p
<1>4. d.at = 1 + Len(p) /\ d.got = ss /\ 1 + Len(p) = Len(p) + 1
  BY <1>2, <1>3
<1> HIDE DEF d
<1>5. Whole(p, d) = ss
  BY <1>4 DEF Whole, AtEnd
<1> QED
  BY <1>1, <1>5 DEF ReadF32Arrays, d

\* The column of scores the client writes is read back as those scores
\* (bridge-client main.rs:296-298, 355-357).
THEOREM ColumnOfScores ==
    ASSUME NEW vs \in Seq(Words)
    PROVE  ReadF32Scalars(FlattenSeq([i \in DOMAIN vs |-> WriteScore(vs[i])]), Len(vs)) = vs
<1> DEFINE p == Floats(vs)
           n == Len(vs)
           d == TakeFloats(p, Start, n)
<1>1. p = FlattenSeq([i \in DOMAIN vs |-> WriteScore(vs[i])])
  BY DEF Floats, WriteScore
<1>2. vs \in Seq(Nat) /\ n \in Nat
  <2>1. vs \in Seq(Nat)
    BY UnitsAreNumbers, WiderSeq
  <2> QED
    BY <2>1
<1>3. p \in Seq(Nat) /\ Len(p) = 2 * n
  BY <1>2, FloatsType
<1>4. Start \in Cursors /\ Start.at = 1 /\ Start.got = <<>>
  BY BrokenType DEF Start
<1> HIDE DEF p
<1>5. Stands(p, 1, Floats(vs))
  BY <1>3, StandsWhole DEF p
<1>6. d = Advance(Start, 2 * n, vs)
  BY <1>2, <1>3, <1>4, <1>5, FloatsRead
<1>7. d.got = Append(<<>>, vs)
  BY <1>4, <1>6 DEF Advance
<1>8. Append(<<>>, vs)[1] = vs
  OBVIOUS
<1> QED
  BY <1>1, <1>3, <1>7, <1>8 DEF ReadF32Scalars
=============================================================================
