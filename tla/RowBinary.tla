----------------------------- MODULE RowBinary -----------------------------
(***************************************************************************)
(* The pipe between ClickHouse and bridge-client: what ClickHouse writes   *)
(* and reads, as the functional suite plays it, and what the client reads  *)
(* and writes.  An item is a text, a pair of texts or a feature array.     *)
(***************************************************************************)
EXTENDS Wire

CONSTANTS
    MaxGroups,      \* groups of a varuint: ten of seven bits in the code
    Replacement     \* U+FFFD, the units that replace one that is not text

ASSUME RowAssumption ==
    /\ MaxGroups \in Nat
    /\ Replacement \in Seq(Units \ NotText) /\ Replacement # <<>>

Radix == Base \div 2

-----------------------------------------------------------------------------
\* ClickHouse's side (functional-tests, mod rowbinary).

\* Groups from the lowest up; all but the last carry the continuation bit.
VarUint[n \in Nat] == IF n < Radix THEN <<n>> ELSE <<Radix + (n % Radix)>> \o VarUint[n \div Radix]

\* Ten groups hold more than a u32 counts.
ASSUME GroupsAssumption == \A n \in Words : Len(VarUint[n]) <= MaxGroups

RowString(s) == VarUint[Len(s)] \o s
RowArray(vs) == VarUint[Len(vs)] \o Floats(vs)

RowOf(task, model, item) ==
    RowString(model)
        \o CASE task = "embed"    -> RowString(item)
             [] task = "rerank"   -> RowString(item[1]) \o RowString(item[2])
             [] task = "evaluate" -> RowArray(item)

\* The header with the row count, a number that shows its own end, and the rows.
Block(rows) == VarUint[Len(rows)] \o FlattenSeq(rows)

-----------------------------------------------------------------------------
\* The client's side.

\* The value of the k groups from i on.
Grouped(p, i, k) ==
    LET value[j \in 0..k] == IF j = 0 THEN 0 ELSE value[j - 1] * Radix + (p[i + k - j] % Radix)
    IN  value[k]

TakeVarUint(p, c) ==
    LET last == {k \in 1..MaxGroups : Has(p, c, k) /\ p[c.at + k - 1] < Radix}
    IN  IF last = {} THEN Broken
        ELSE LET k == CHOOSE i \in last : \A j \in last : i <= j
             IN  Advance(c, k, Grouped(p, c.at, k))

\* from_utf8_lossy.
Lossy(s) == FlattenSeq([i \in DOMAIN s |-> IF s[i] \in NotText THEN Replacement ELSE <<s[i]>>])

\* What read_string makes of an item.
Legible(task, item) ==
    CASE task = "embed"    -> Lossy(item)
      [] task = "rerank"   -> <<Lossy(item[1]), Lossy(item[2])>>
      [] task = "evaluate" -> item

LossyLast(c) == IF c.at = 0 THEN Broken ELSE [c EXCEPT !.got = Append(Front(@), Lossy(Last(@)))]

TakeRowString(p, c) == LossyLast(Sized(TakeVarUint(p, c), LAMBDA d, n : TakeUnits(p, d, n)))

TakeRowArray(p, c) == Sized(TakeVarUint(p, c), LAMBDA d, n : TakeFloats(p, d, n))

\* A row leaves the model and its item behind.
TakeRow(task, p, c) ==
    CASE task = "embed"    -> TakeRowString(p, TakeRowString(p, c))
      [] task = "rerank"   -> TakeRowString(p, TakeRowString(p, TakeRowString(p, c)))
      [] task = "evaluate" -> TakeRowArray(p, TakeRowString(p, c))

TakeRows(task, p, n, c) ==
    LET after[k \in 0..n] == IF k = 0 THEN c ELSE TakeRow(task, p, after[k - 1]) IN after[n]

\* What was read, as rows <<model, item>>.
AsRows(task, count, got) ==
    IF task = "rerank"
    THEN [i \in 1..count |-> <<got[3 * i - 2], <<got[3 * i - 1], got[3 * i]>>>>]
    ELSE [i \in 1..count |-> <<got[2 * i - 1], got[2 * i]>>]

Rows(task, count, c) == IF c.at = 0 THEN Malformed ELSE AsRows(task, count, c.got)

\* The rows of a block behind its header, or an error when the pipe ends early.
ReadRest(task, p, head) ==
    IF head.at = 0 THEN Malformed
    ELSE Rows(task, head.got[1], TakeRows(task, p, head.got[1], [head EXCEPT !.got = <<>>]))

ReadBlock(task, p) == ReadRest(task, p, TakeVarUint(p, Start))

\* What is written for one row of the answer.
WriteVector(vs) == VarUint[Len(vs)] \o Floats(vs)
WriteScore(v)   == Word(v)

-----------------------------------------------------------------------------
\* ClickHouse reads its result column back.

Whole(p, c) == IF AtEnd(p, c) THEN c.got ELSE Malformed

TakeRowArrays(p, n, c) ==
    LET after[k \in 0..n] == IF k = 0 THEN c ELSE TakeRowArray(p, after[k - 1]) IN after[n]

ReadF32Arrays(p, rows) == Whole(p, TakeRowArrays(p, rows, Start))

ReadF32Scalars(p, rows) ==
    IF Len(p) = 2 * rows THEN TakeFloats(p, Start, rows).got[1] ELSE Malformed
=============================================================================
