------------------------------- MODULE Cursor -------------------------------
(***************************************************************************)
(* Reading and writing flat buffers, the ground of both formats a row      *)
(* crosses: the frames of protocol::wire and the RowBinary of the pipe.    *)
(*                                                                         *)
(* A buffer is a sequence of units, a unit standing for a byte: it holds a *)
(* u8 or a byte of text.  A u32 and an f32 are one word, two units.  Units *)
(* are below Base and words below WordMod, so that every cast the code     *)
(* makes to u32 wraps here as it wraps there.                              *)
(***************************************************************************)
EXTENDS Naturals, Sequences, SequencesExt

CONSTANT Base    \* values of a unit: 256 in the code

\* A unit tells the versions, tasks and states of a frame apart.
ASSUME BaseAssumption == Base \in Nat /\ Base >= 4

WordMod == Base * Base

Units == 0..(Base - 1)
Words == 0..(WordMod - 1)

\* Slip: the value is written as it is.
WordUncast(n) == <<n % Base, n \div Base>>

\* to_le_bytes of a value cast to u32.
Word(n) == <<n % Base, (n \div Base) % Base>>

\* put_f32s.
Floats(vs) == FlattenSeq([i \in DOMAIN vs |-> Word(vs[i])])

WordAt(p, i) == p[i] + Base * p[i + 1]

\* A cursor is where it stands and what it has read; a failed read breaks it
\* for good, as the ? operator does.
Start  == [at |-> 1, got |-> <<>>]
Broken == [at |-> 0, got |-> <<>>]

Advance(c, n, value) == [at |-> c.at + n, got |-> Append(c.got, value)]

\* Cursor::take and read_exact: all n units or an error.
Has(p, c, n) == c.at # 0 /\ c.at + n - 1 <= Len(p)

TakeUnit(p, c) == IF Has(p, c, 1) THEN Advance(c, 1, p[c.at]) ELSE Broken

TakeWord(p, c) == IF Has(p, c, 2) THEN Advance(c, 2, WordAt(p, c.at)) ELSE Broken

TakeUnits(p, c, n) ==
    IF Has(p, c, n) THEN Advance(c, n, SubSeq(p, c.at, c.at + n - 1)) ELSE Broken

TakeFloats(p, c, n) ==
    IF Has(p, c, 2 * n)
    THEN Advance(c, 2 * n, [i \in 1..n |-> WordAt(p, c.at + 2 * i - 2)])
    ELSE Broken

\* The length read last, replaced by the value of that length.
Sized(c, Take(_, _)) ==
    IF c.at = 0 THEN Broken ELSE Take([c EXCEPT !.got = Front(@)], Last(c.got))

\* Slip: what is left over is ignored.
AtEndOrBefore(p, c) == c.at # 0

\* Cursor::finish: nothing is left over.
AtEnd(p, c) == c.at = Len(p) + 1
=============================================================================
