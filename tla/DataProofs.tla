------------------------------ MODULE DataProofs ------------------------------
(***************************************************************************)
(* Facts about data that the proofs share: induction over numbers and over *)
(* sequences, what a recursive function computes, FlattenSeq, the order of *)
(* a set of numbers, and division.  None of them is about the bridge.      *)
(***************************************************************************)
EXTENDS SortedSets, Integers, Sequences, SequencesExt, SequenceTheorems, FiniteSetTheorems,
        WellFoundedInduction, TLAPS

\* The library's induction theorems take a predicate; taken as the set of the
\* numbers it holds for, the provers can instantiate it.
LEMMA LeastNumber ==
    ASSUME NEW S \in SUBSET Nat, S # {}
    PROVE  \E x \in S : \A y \in S : x <= y
<1>1. IsWellFoundedOn(OpToRel(<, Nat), Nat)
  BY NatLessThanWellFounded, Zenon
<1>2. \A x, y \in Nat : x < y => <<x, y>> \in OpToRel(<, Nat)
  BY DEF OpToRel
<1>3. PICK x \in S : \A y \in S : <<y, x>> \notin OpToRel(<, Nat)
  BY <1>1, WFMin, Zenon
<1>4. \A y \in S : ~(y < x)
  BY <1>2, <1>3
<1> QED
  BY <1>4

LEMMA Induction ==
    ASSUME NEW S, 0 \in S, \A n \in Nat : n \in S => n + 1 \in S
    PROVE  \A n \in Nat : n \in S
<1> SUFFICES ASSUME Nat \ S # {} PROVE FALSE
  OBVIOUS
<1>1. PICK x \in Nat \ S : \A y \in Nat \ S : x <= y
  BY LeastNumber
<1>2. x # 0 /\ x - 1 \in Nat /\ (x - 1) + 1 = x /\ ~(x <= x - 1)
  BY <1>1
<1> QED
  BY <1>1, <1>2

LEMMA StrongInduction ==
    ASSUME NEW S, \A n \in Nat : (\A k \in Nat : k < n => k \in S) => n \in S
    PROVE  \A n \in Nat : n \in S
<1> SUFFICES ASSUME Nat \ S # {} PROVE FALSE
  OBVIOUS
<1>1. PICK x \in Nat \ S : \A y \in Nat \ S : x <= y
  BY LeastNumber
<1>2. \A k \in Nat : k < x => k \in S
  BY <1>1
<1> QED
  BY <1>1, <1>2

\* Sequences built up by Append.
LEMMA SeqInduction ==
    ASSUME NEW T, NEW P, <<>> \in P, \A s \in Seq(T), x \in T : s \in P => Append(s, x) \in P
    PROVE  \A s \in Seq(T) : s \in P
<1> DEFINE N == {n \in Nat : \A s \in Seq(T) : Len(s) = n => s \in P}
<1>1. 0 \in N
  <2>1. \A s \in Seq(T) : Len(s) = 0 => s = <<>>
    BY EmptySeq
  <2> QED
    BY <2>1
<1>2. ASSUME NEW n \in Nat, n \in N PROVE n + 1 \in N
  <2>1. ASSUME NEW s \in Seq(T), Len(s) = n + 1 PROVE s \in P
    <3>1. s # <<>>
      BY <2>1
    <3>2. PICK r \in Seq(T), x \in T : s = Append(r, x)
      BY <3>1, SequenceEmptyOrAppend
    <3>3. Len(r) \in Nat /\ Len(r) + 1 = n + 1
      BY <2>1, <3>2
    <3>4. r \in P
      BY <1>2, <3>3
    <3> QED
      BY <3>2, <3>4
  <2> QED
    BY <2>1
<1>3. \A n \in Nat : n \in N
  <2> HIDE DEF N
  <2> QED
    BY <1>1, <1>2, Induction
<1> QED
  <2> SUFFICES ASSUME NEW s \in Seq(T) PROVE s \in P
    OBVIOUS
  <2>1. Len(s) \in Nat
    OBVIOUS
  <2> QED
    BY <1>3, <2>1

\* A function defined from its value one below.
Iterates(D, c, F) == c \in D /\ F \in [Nat \X D -> D]

Computes(g, D, c, F, n) ==
    /\ g \in [0..n -> D]
    /\ g[0] = c
    /\ \A k \in 1..n : g[k] = F[<<k, g[k - 1]>>]

LEMMA Recursion ==
    ASSUME NEW D, NEW c, NEW F, Iterates(D, c, F)
    PROVE  \A n \in Nat : \E g : Computes(g, D, c, F, n)
<1> DEFINE Good(g, n) == g \in [0..n -> D] /\ g[0] = c /\ \A k \in 1..n : g[k] = F[<<k, g[k - 1]>>]
           N == {n \in Nat : \E g \in [0..n -> D] : Good(g, n)}
<1>1. 0 \in N
  <2>1. Good([k \in 0..0 |-> c], 0)
    BY DEF Iterates
  <2> QED
    BY <2>1
<1>2. ASSUME NEW n \in Nat, n \in N PROVE n + 1 \in N
  <2>1. PICK g \in [0..n -> D] : Good(g, n)
    BY <1>2
  <2> DEFINE y == F[<<n + 1, g[n]>>]
             h == [k \in 0..(n + 1) |-> IF k = n + 1 THEN y ELSE g[k]]
  <2>2. y \in D
    BY <2>1 DEF Iterates
  <2>3. h \in [0..(n + 1) -> D]
    <3> HIDE DEF y
    <3> QED
      BY <2>2
  <2>4. h[0] = c
    BY <2>1
  <2>5. ASSUME NEW k \in 1..(n + 1) PROVE h[k] = F[<<k, h[k - 1]>>]
    <3>1. CASE k = n + 1
      <4>1. h[k] = y /\ k - 1 = n /\ h[n] = g[n]
        BY <3>1
      <4> QED
        BY <3>1, <4>1
    <3>2. CASE k # n + 1
      <4>1. k \in 1..n /\ k - 1 \in 0..n /\ h[k] = g[k] /\ h[k - 1] = g[k - 1]
        BY <3>2
      <4> QED
        BY <2>1, <4>1
    <3> QED
      BY <3>1, <3>2
  <2>6. Good(h, n + 1)
    <3> HIDE DEF h, y
    <3> QED
      BY <2>3, <2>4, <2>5
  <2> QED
    <3> HIDE DEF h, y, Good
    <3> QED
      BY <2>3, <2>6
<1>3. \A n \in Nat : n \in N
  <2> HIDE DEF N
  <2> QED
    BY <1>1, <1>2, Induction
<1> QED
  BY <1>3 DEF Computes

LEMMA ComputesAgree ==
    ASSUME NEW D, NEW c, NEW F, Iterates(D, c, F), NEW n \in Nat, NEW m \in Nat, n <= m,
           NEW g, NEW h, Computes(g, D, c, F, n), Computes(h, D, c, F, m)
    PROVE  \A k \in 0..n : g[k] = h[k]
<1> DEFINE N == {k \in Nat : k <= n => g[k] = h[k]}
<1>1. 0 \in N
  BY DEF Computes
<1>2. ASSUME NEW k \in Nat, k \in N PROVE k + 1 \in N
  <2>1. CASE k + 1 <= n
    <3>1. k + 1 \in 1..n /\ k + 1 \in 1..m /\ (k + 1) - 1 = k /\ g[k] = h[k]
      BY <1>2, <2>1
    <3>2. g[k + 1] = F[<<k + 1, g[(k + 1) - 1]>>] /\ h[k + 1] = F[<<k + 1, h[(k + 1) - 1]>>]
      BY <3>1 DEF Computes
    <3> QED
      BY <3>1, <3>2
  <2> QED
    BY <2>1
<1>3. \A k \in Nat : k \in N
  <2> HIDE DEF N
  <2> QED
    BY <1>1, <1>2, Induction
<1> QED
  BY <1>3

LEMMA Computed ==
    ASSUME NEW D, NEW c, NEW F, Iterates(D, c, F), NEW n \in Nat, NEW f,
           f = [k \in 0..n |-> f[k]], f[0] = c,
           \A k \in 1..n : f[k - 1] \in D => f[k] = F[<<k, f[k - 1]>>]
    PROVE  Computes(f, D, c, F, n)
<1> DEFINE N == {k \in Nat : k <= n => f[k] \in D}
<1>1. 0 \in N
  BY DEF Iterates
<1>2. ASSUME NEW k \in Nat, k \in N PROVE k + 1 \in N
  <2>1. CASE k + 1 <= n
    <3>1. k + 1 \in 1..n /\ (k + 1) - 1 = k /\ f[k] \in D
      BY <1>2, <2>1
    <3>2. f[(k + 1) - 1] \in D => f[k + 1] = F[<<k + 1, f[(k + 1) - 1]>>]
      BY <3>1, Zenon
    <3>3. <<k + 1, f[k]>> \in Nat \X D
      BY <3>1
    <3>4. F[<<k + 1, f[k]>>] \in D
      BY <3>3 DEF Iterates
    <3>5. f[k + 1] \in D
      BY <3>1, <3>2, <3>4, Zenon
    <3> QED
      BY <3>5
  <2> QED
    BY <2>1
<1>3. \A k \in Nat : k \in N
  <2> HIDE DEF N
  <2> QED
    BY <1>1, <1>2, Induction
<1>4. \A k \in 0..n : f[k] \in D
  BY <1>3
<1>5. f \in [0..n -> D]
  BY <1>4
<1>6. ASSUME NEW k \in 1..n PROVE f[k] = F[<<k, f[k - 1]>>]
  <2>1. k - 1 \in 0..n
    OBVIOUS
  <2>2. f[k - 1] \in D
    BY <1>4, <2>1
  <2> QED
    BY <2>2, Zenon
<1> QED
  BY <1>5, <1>6 DEF Computes

\* A sequence of such values.
LEMMA Computation ==
    ASSUME NEW D, NEW c, NEW F, Iterates(D, c, F), NEW v,
           \A n \in Nat : \E f : Computes(f, D, c, F, n) /\ v[n] = f[n]
    PROVE  /\ v[0] = c
           /\ \A n \in Nat : v[n] \in D /\ v[n + 1] = F[<<n + 1, v[n]>>]
<1>1. v[0] = c
  <2>1. PICK f : Computes(f, D, c, F, 0) /\ v[0] = f[0]
    OBVIOUS
  <2> QED
    BY <2>1 DEF Computes
<1>2. ASSUME NEW n \in Nat PROVE v[n] \in D /\ v[n + 1] = F[<<n + 1, v[n]>>]
  <2>1. PICK f : Computes(f, D, c, F, n) /\ v[n] = f[n]
    OBVIOUS
  <2>2. PICK g : Computes(g, D, c, F, n + 1) /\ v[n + 1] = g[n + 1]
    OBVIOUS
  <2>3. n \in 0..n /\ n + 1 \in 1..(n + 1) /\ (n + 1) - 1 = n /\ n <= n + 1 /\ n + 1 \in Nat
    OBVIOUS
  <2>4. f[n] = g[n]
    <3> DEFINE m == n + 1
    <3>1. Computes(f, D, c, F, n) /\ Computes(g, D, c, F, m) /\ n <= m /\ m \in Nat
      BY <2>1, <2>2, <2>3
    <3> HIDE DEF m
    <3>2. \A k \in 0..n : f[k] = g[k]
      BY <3>1, ComputesAgree
    <3> QED
      BY <2>3, <3>2
  <2>5. g[n + 1] = F[<<n + 1, g[(n + 1) - 1]>>]
    BY <2>2, <2>3 DEF Computes
  <2>6. f[n] \in D
    BY <2>1, <2>3 DEF Computes
  <2> QED
    BY <2>1, <2>2, <2>3, <2>4, <2>5, <2>6
<1> QED
  BY <1>1, <1>2

-----------------------------------------------------------------------------
\* FlattenSeq.

\* What its inner function is.
Flattening(ss, f) ==
    f = [i \in 1..Len(ss) |-> IF i = 1 THEN ss[i] ELSE f[i - 1] \o ss[i]]

LEMMA FlatteningExists ==
    ASSUME NEW T, NEW ss \in Seq(Seq(T)), Len(ss) # 0
    PROVE  \E f : Flattening(ss, f)
<1> DEFINE n == Len(ss)
           F == [z \in Nat \X Seq(T) |-> IF z[1] + 1 \in 1..n THEN z[2] \o ss[z[1] + 1] ELSE <<>>]
<1>1. n \in Nat /\ 1 \in 1..n /\ n - 1 \in Nat /\ ss[1] \in Seq(T)
  OBVIOUS
<1>2. F \in [Nat \X Seq(T) -> Seq(T)]
  <2>1. ASSUME NEW z \in Nat \X Seq(T)
        PROVE  (IF z[1] + 1 \in 1..n THEN z[2] \o ss[z[1] + 1] ELSE <<>>) \in Seq(T)
    <3>1. CASE z[1] + 1 \in 1..n
      <4>1. ss[z[1] + 1] \in Seq(T) /\ z[2] \in Seq(T)
        BY <3>1
      <4> QED
        BY <3>1, <4>1
    <3> QED
      BY <3>1
  <2> QED
    BY <2>1
<1>3. PICK g \in [0..(n - 1) -> Seq(T)] :
         g[0] = ss[1] /\ \A k \in 1..(n - 1) : g[k] = F[<<k, g[k - 1]>>]
  <2> DEFINE D == Seq(T)
             c == ss[1]
             m == n - 1
  <2>1. Iterates(D, c, F) /\ m \in Nat
    BY <1>1, <1>2 DEF Iterates
  <2> HIDE DEF n, F, D, c, m
  <2>2. \A k \in Nat : \E g : Computes(g, D, c, F, k)
    BY <2>1, Recursion, Zenon
  <2>3. \E g : Computes(g, D, c, F, m)
    BY <2>1, <2>2
  <2> QED
    BY <2>3 DEF D, c, m, Computes
<1> DEFINE f == [i \in 1..n |-> g[i - 1]]
<1>4. ASSUME NEW i \in 1..n
      PROVE  f[i] = IF i = 1 THEN ss[i] ELSE f[i - 1] \o ss[i]
  <2>1. CASE i = 1
    BY <1>3, <2>1
  <2>2. CASE i # 1
    <3>1. i - 1 \in 1..(n - 1) /\ i - 1 \in 1..n /\ (i - 1) - 1 \in 0..(n - 1) /\ (i - 1) + 1 = i
      BY <2>2
    <3>2. f[i] = g[i - 1] /\ f[i - 1] = g[(i - 1) - 1]
      BY <3>1
    <3>3. g[i - 1] = F[<<i - 1, g[(i - 1) - 1]>>]
      BY <1>3, <3>1
    <3>4. g[(i - 1) - 1] \in Seq(T)
      BY <1>3, <3>1
    <3>5. F[<<i - 1, g[(i - 1) - 1]>>] = g[(i - 1) - 1] \o ss[i]
      <4> DEFINE a == g[(i - 1) - 1]
                 b == i - 1
      <4>1. a \in Seq(T) /\ b \in Nat /\ b + 1 \in 1..n /\ b + 1 = i
        BY <3>1, <3>4
      <4> HIDE DEF a, b, n
      <4>2. F[<<b, a>>] = a \o ss[b + 1]
        BY <4>1
      <4> QED
        BY <4>1, <4>2 DEF a, b
    <3> QED
      BY <2>2, <3>2, <3>3, <3>5
  <2> QED
    BY <2>1, <2>2
<1>5. f = [i \in 1..n |-> IF i = 1 THEN ss[i] ELSE f[i - 1] \o ss[i]]
  <2> DEFINE h == [i \in 1..n |-> IF i = 1 THEN ss[i] ELSE f[i - 1] \o ss[i]]
  <2>1. \A i \in 1..n : f[i] = h[i]
    BY <1>4
  <2>2. f = h
    <3>1. DOMAIN f = 1..n /\ DOMAIN h = 1..n /\ f = [i \in 1..n |-> f[i]] /\ h = [i \in 1..n |-> h[i]]
      OBVIOUS
    <3> HIDE DEF f, h
    <3> QED
      BY <2>1, <3>1
  <2> QED
    BY <2>2
<1> QED
  <2> HIDE DEF f
  <2> QED
    BY <1>5 DEF Flattening

LEMMA FlattenDef ==
    ASSUME NEW T, NEW ss \in Seq(Seq(T)), Len(ss) # 0
    PROVE  \E f : Flattening(ss, f) /\ FlattenSeq(ss) = f[Len(ss)]
<1> DEFINE f == CHOOSE f : Flattening(ss, f)
<1>1. Flattening(ss, f)
  BY FlatteningExists, Zenon
<1>2. FlattenSeq(ss) = f[Len(ss)]
  BY Zenon DEF FlattenSeq, Flattening
<1> QED
  BY <1>1, <1>2

LEMMA FlatteningAt ==
    ASSUME NEW ss, NEW f, Flattening(ss, f)
    PROVE  /\ 1 \in 1..Len(ss) => f[1] = ss[1]
           /\ \A i \in 1..Len(ss) : i # 1 => f[i] = f[i - 1] \o ss[i]
<1> DEFINE h == [k \in 1..Len(ss) |-> IF k = 1 THEN ss[k] ELSE f[k - 1] \o ss[k]]
<1>1. 1 \in 1..Len(ss) => h[1] = ss[1]
  OBVIOUS
<1>2. \A i \in 1..Len(ss) : i # 1 => h[i] = f[i - 1] \o ss[i]
  OBVIOUS
<1>3. f = h
  BY Zenon DEF Flattening
<1> HIDE DEF h
<1> QED
  BY <1>1, <1>2, <1>3

LEMMA FlatteningPrefix ==
    ASSUME NEW T, NEW ss \in Seq(Seq(T)), NEW x \in Seq(T), NEW f, NEW g,
           Flattening(ss, f), Flattening(Append(ss, x), g)
    PROVE  \A i \in 1..Len(ss) : g[i] = f[i] /\ f[i] \in Seq(T)
<1> DEFINE n == Len(ss)
           N == {k \in Nat : k + 1 \in 1..n => g[k + 1] = f[k + 1] /\ f[k + 1] \in Seq(T)}
           tt == Append(ss, x)
<1>1. n \in Nat /\ Len(tt) = n + 1 /\ \A i \in 1..n : tt[i] = ss[i] /\ ss[i] \in Seq(T)
  OBVIOUS
<1>2. 0 \in N
  <2>1. ASSUME 1 \in 1..n PROVE g[1] = f[1] /\ f[1] \in Seq(T)
    <3>0. 1 \in 1..Len(tt)
      BY <1>1, <2>1
    <3>1. f[1] = ss[1]
      BY <2>1, FlatteningAt
    <3>2. g[1] = tt[1]
      <4>1. Flattening(tt, g)
        OBVIOUS
      <4> HIDE DEF tt
      <4> QED
        BY <3>0, <4>1, FlatteningAt
    <3> QED
      BY <1>1, <2>1, <3>1, <3>2
  <2> QED
    BY <2>1
<1>3. ASSUME NEW k \in Nat, k \in N PROVE k + 1 \in N
  <2>1. ASSUME (k + 1) + 1 \in 1..n PROVE g[(k + 1) + 1] = f[(k + 1) + 1] /\ f[(k + 1) + 1] \in Seq(T)
    <3> DEFINE i == (k + 1) + 1
    <3>1. i # 1 /\ i - 1 = k + 1 /\ k + 1 \in 1..n /\ i \in 1..Len(tt) /\ i \in 1..n
      BY <1>1, <2>1
    <3> HIDE DEF i
    <3>2. f[i] = f[i - 1] \o ss[i]
      BY <3>1, FlatteningAt
    <3>3. g[i] = g[i - 1] \o tt[i]
      BY <3>1, FlatteningAt
    <3>4. g[i - 1] = f[i - 1] /\ f[i - 1] \in Seq(T)
      BY <1>3, <3>1
    <3>5. tt[i] = ss[i] /\ ss[i] \in Seq(T)
      BY <1>1, <3>1
    <3>6. g[i] = f[i] /\ f[i] \in Seq(T)
      <4> HIDE DEF tt
      <4> QED
        BY <3>2, <3>3, <3>4, <3>5
    <3> QED
      BY <3>6 DEF i
  <2> QED
    BY <2>1
<1>4. \A k \in Nat : k \in N
  <2> HIDE DEF N
  <2> QED
    BY <1>2, <1>3, Induction
<1> QED
  <2> SUFFICES ASSUME NEW i \in 1..n PROVE g[i] = f[i] /\ f[i] \in Seq(T)
    OBVIOUS
  <2>1. i - 1 \in Nat /\ (i - 1) + 1 = i
    BY <1>1
  <2> QED
    BY <1>4, <2>1

LEMMA FlattenNothing == FlattenSeq(<<>>) = <<>>
BY DEF FlattenSeq

LEMMA FlattenAppend ==
    ASSUME NEW T, NEW ss \in Seq(Seq(T)), NEW x \in Seq(T)
    PROVE  /\ FlattenSeq(ss) \in Seq(T)
           /\ FlattenSeq(Append(ss, x)) = FlattenSeq(ss) \o x
<1> DEFINE tt == Append(ss, x)
           n == Len(ss)
<1>1. tt \in Seq(Seq(T)) /\ Len(tt) = n + 1 /\ n \in Nat /\ Len(tt) # 0 /\ tt[n + 1] = x
  OBVIOUS
<1>2. PICK g : Flattening(tt, g) /\ FlattenSeq(tt) = g[Len(tt)]
  <2> HIDE DEF tt
  <2> QED
    BY <1>1, FlattenDef
<1>3. CASE n = 0
  <2>1. ss = <<>> /\ FlattenSeq(ss) = <<>>
    BY <1>3, EmptySeq, FlattenNothing
  <2>2. g[1] = tt[1]
    <3>1. 1 \in 1..Len(tt)
      BY <1>1, <1>3
    <3> HIDE DEF tt, n
    <3> QED
      BY <1>2, <3>1, FlatteningAt
  <2>3. FlattenSeq(tt) = x
    BY <1>1, <1>2, <1>3, <2>2
  <2>4. <<>> \in Seq(T) /\ <<>> \o x = x
    BY EmptySeq
  <2> QED
    BY <2>1, <2>3, <2>4
<1>4. CASE n # 0
  <2>1. PICK f : Flattening(ss, f) /\ FlattenSeq(ss) = f[n]
    BY <1>4, FlattenDef
  <2>2. g[n] = f[n] /\ f[n] \in Seq(T)
    BY <1>1, <1>2, <1>4, <2>1, FlatteningPrefix
  <2>3. g[n + 1] = g[n] \o tt[n + 1]
    <3> DEFINE i == n + 1
    <3>1. i \in 1..Len(tt) /\ i # 1 /\ i - 1 = n
      BY <1>1, <1>4
    <3> HIDE DEF tt, n, i
    <3>2. g[i] = g[i - 1] \o tt[i]
      BY <1>2, <3>1, FlatteningAt
    <3> QED
      BY <3>1, <3>2 DEF i
  <2> QED
    BY <1>1, <1>2, <2>1, <2>2, <2>3
<1> QED
  BY <1>3, <1>4

\* Flattening two sequences one after the other.
LEMMA FlattenConcat ==
    ASSUME NEW T, NEW ss \in Seq(Seq(T)), NEW tt \in Seq(Seq(T))
    PROVE  FlattenSeq(ss \o tt) = FlattenSeq(ss) \o FlattenSeq(tt)
<1> DEFINE P == {s \in Seq(Seq(T)) : FlattenSeq(ss \o s) = FlattenSeq(ss) \o FlattenSeq(s)}
<1>0. FlattenSeq(ss) \in Seq(T)
  BY FlattenAppend, EmptySeq
<1>1. <<>> \in P
  <2>1. ss \o <<>> = ss /\ <<>> \in Seq(Seq(T)) /\ FlattenSeq(ss) \o <<>> = FlattenSeq(ss)
    BY <1>0
  <2> QED
    BY <2>1, FlattenNothing
<1>2. ASSUME NEW s \in Seq(Seq(T)), NEW x \in Seq(T), s \in P PROVE Append(s, x) \in P
  <2>1. ss \o Append(s, x) = Append(ss \o s, x) /\ ss \o s \in Seq(Seq(T)) /\ Append(s, x) \in Seq(Seq(T))
    OBVIOUS
  <2>2. FlattenSeq(ss \o Append(s, x)) = FlattenSeq(ss \o s) \o x
    BY <2>1, FlattenAppend
  <2>3. FlattenSeq(Append(s, x)) = FlattenSeq(s) \o x /\ FlattenSeq(s) \in Seq(T)
    BY FlattenAppend
  <2>4. FlattenSeq(ss \o s) = FlattenSeq(ss) \o FlattenSeq(s)
    BY <1>2
  <2>5. (FlattenSeq(ss) \o FlattenSeq(s)) \o x = FlattenSeq(ss) \o (FlattenSeq(s) \o x)
    BY <1>0, <2>3, ConcatAssociative
  <2> QED
    BY <2>1, <2>2, <2>3, <2>4, <2>5
<1>3. \A s \in Seq(Seq(T)) : s \in P
  <2> HIDE DEF P
  <2> QED
    BY <1>1, <1>2, SeqInduction
<1> QED
  BY <1>3

-----------------------------------------------------------------------------
\* Ordered(S, R) lists every element of a finite set once, in the order of R:
\* what the rank of an element says of it, by counting.

IsOrder(S, R) ==
    /\ \A q \in S : <<q, q>> \notin R
    /\ \A p, q, r \in S : <<p, q>> \in R /\ <<q, r>> \in R => <<p, r>> \in R
    /\ \A q, r \in S : q = r \/ <<q, r>> \in R \/ <<r, q>> \in R

Rank(S, R, r) == Cardinality({q \in S : <<q, r>> \in R})

LEMMA RankType ==
    ASSUME NEW S, NEW R, IsFiniteSet(S), NEW r
    PROVE  Rank(S, R, r) \in Nat
<1>1. IsFiniteSet({q \in S : <<q, r>> \in R})
  BY FS_Subset
<1> QED
  BY <1>1, FS_CardinalityType DEF Rank

\* A later element has more elements before it.
LEMMA RankGrows ==
    ASSUME NEW S, NEW R, IsFiniteSet(S), IsOrder(S, R), NEW q \in S, NEW r \in S, <<q, r>> \in R
    PROVE  Rank(S, R, q) < Rank(S, R, r)
<1> DEFINE Before(x) == {p \in S : <<p, x>> \in R}
<1>1. IsFiniteSet(Before(q)) /\ IsFiniteSet(Before(r))
  BY FS_Subset
<1>2. Before(q) \in SUBSET Before(r) /\ q \in Before(r) /\ q \notin Before(q)
  BY DEF IsOrder
<1>3. Cardinality(Before(q)) <= Cardinality(Before(r)) /\ Cardinality(Before(q)) # Cardinality(Before(r))
  <2> HIDE DEF Before
  <2>1. Before(q) # Before(r)
    BY <1>2
  <2> QED
    BY <1>1, <1>2, <2>1, FS_Subset
<1>4. Rank(S, R, q) = Cardinality(Before(q)) /\ Rank(S, R, r) = Cardinality(Before(r))
  BY DEF Rank
<1>5. Rank(S, R, q) \in Nat /\ Rank(S, R, r) \in Nat
  BY RankType
<1> HIDE DEF Before
<1> QED
  BY <1>3, <1>4, <1>5

\* The ranks of n elements are 0, 1, ..., n - 1.
LEMMA RankRange ==
    ASSUME NEW S, NEW R, IsFiniteSet(S), IsOrder(S, R), NEW r \in S
    PROVE  Rank(S, R, r) + 1 \in 1..Cardinality(S)
<1> DEFINE B == {p \in S : <<p, r>> \in R}
<1>1. B \in SUBSET S /\ B # S
  BY DEF IsOrder
<1>2. IsFiniteSet(B) /\ Cardinality(B) <= Cardinality(S) /\ Cardinality(B) # Cardinality(S)
  BY <1>1, FS_Subset
<1>3. Cardinality(B) \in Nat /\ Cardinality(S) \in Nat
  BY <1>2, FS_CardinalityType
<1> QED
  BY <1>2, <1>3 DEF Rank

LEMMA RankTells ==
    ASSUME NEW S, NEW R, IsFiniteSet(S), IsOrder(S, R), NEW q \in S, NEW r \in S
    PROVE  /\ Rank(S, R, q) = Rank(S, R, r) => q = r
           /\ Rank(S, R, q) < Rank(S, R, r) => <<q, r>> \in R
<1>1. Rank(S, R, q) \in Nat /\ Rank(S, R, r) \in Nat
  BY RankType
<1>2. <<q, r>> \in R => Rank(S, R, q) < Rank(S, R, r)
  BY RankGrows
<1>3. <<r, q>> \in R => Rank(S, R, r) < Rank(S, R, q)
  BY RankGrows
<1>4. q = r \/ <<q, r>> \in R \/ <<r, q>> \in R
  BY DEF IsOrder
<1> QED
  BY <1>1, <1>2, <1>3, <1>4

LEMMA EveryRank ==
    ASSUME NEW S, NEW R, IsFiniteSet(S), IsOrder(S, R), NEW k \in 1..Cardinality(S)
    PROVE  \E r \in S : Rank(S, R, r) = k - 1
<1> DEFINE T == 1..Cardinality(S)
           f == [r \in S |-> Rank(S, R, r) + 1]
<1>1. f \in [S -> T]
  BY RankRange
<1>2. \A q, r \in S : f[q] = f[r] => q = r
  <2> SUFFICES ASSUME NEW q \in S, NEW r \in S, f[q] = f[r] PROVE q = r
    OBVIOUS
  <2>1. Rank(S, R, q) \in Nat /\ Rank(S, R, r) \in Nat
    BY RankType
  <2>2. Rank(S, R, q) + 1 = Rank(S, R, r) + 1
    OBVIOUS
  <2>3. Rank(S, R, q) = Rank(S, R, r)
    BY <2>1, <2>2
  <2> QED
    BY <2>3, RankTells
<1>3. f \in Injection(S, T)
  BY <1>1, <1>2 DEF Injection, IsInjective
<1>4. Cardinality(S) \in Nat
  BY FS_CardinalityType
<1>5. IsFiniteSet(T) /\ Cardinality(T) = Cardinality(S)
  BY <1>4, FS_Interval
<1>6. f \in Surjection(S, T)
  <2> HIDE DEF f
  <2> QED
    BY <1>3, <1>5, FS_Injection
<1>7. PICK r \in S : f[r] = k
  BY <1>6 DEF Surjection
<1>8. Rank(S, R, r) + 1 = k
  BY <1>7 DEF f
<1>9. Rank(S, R, r) \in Nat
  BY RankType
<1> QED
  BY <1>8, <1>9

LEMMA OrderedProperties ==
    ASSUME NEW S, NEW R, IsFiniteSet(S), IsOrder(S, R)
    PROVE  /\ Cardinality(S) \in Nat
           /\ Ordered(S, R) \in [1..Cardinality(S) -> S]
           /\ \A r \in S : \E k \in 1..Cardinality(S) : Ordered(S, R)[k] = r
           /\ \A k, l \in 1..Cardinality(S) : k < l => <<Ordered(S, R)[k], Ordered(S, R)[l]>> \in R
<1> DEFINE n == Cardinality(S)
           O == Ordered(S, R)
           At(k) == CHOOSE r \in S : Rank(S, R, r) = k - 1
<1>1. n \in Nat
  BY FS_CardinalityType
<1>2. O = [k \in 1..n |-> At(k)]
  BY DEF Ordered, Rank
<1>3. \A k \in 1..n : At(k) \in S /\ Rank(S, R, At(k)) = k - 1
  BY EveryRank
<1> HIDE DEF At, O, n
<1>4. O \in [1..n -> S] /\ \A k \in 1..n : O[k] \in S /\ Rank(S, R, O[k]) = k - 1
  BY <1>2, <1>3
<1>5. ASSUME NEW r \in S PROVE \E k \in 1..n : O[k] = r
  <2> DEFINE k == Rank(S, R, r) + 1
  <2>1. k \in 1..n /\ Rank(S, R, r) \in Nat
    BY RankRange, RankType DEF n
  <2>2. k - 1 = Rank(S, R, r)
    BY <2>1
  <2> HIDE DEF k
  <2>3. O[k] \in S /\ Rank(S, R, O[k]) = Rank(S, R, r)
    BY <1>4, <2>1, <2>2
  <2>4. O[k] = r
    BY <2>3, RankTells
  <2> QED
    BY <2>1, <2>4
<1>6. ASSUME NEW k \in 1..n, NEW l \in 1..n, k < l PROVE <<O[k], O[l]>> \in R
  <2> DEFINE a == O[k]
             b == O[l]
  <2>1. a \in S /\ b \in S /\ Rank(S, R, a) < Rank(S, R, b)
    BY <1>1, <1>4, <1>6
  <2> HIDE DEF a, b
  <2>2. <<a, b>> \in R
    BY <2>1, RankTells
  <2> QED
    BY <2>2 DEF a, b
<1> QED
  BY <1>1, <1>4, <1>5, <1>6 DEF O, n

LEMMA AscendingOrder ==
    ASSUME NEW S \in SUBSET Nat
    PROVE  IsOrder(S, {z \in S \X S : z[1] < z[2]})
<1> DEFINE R == {z \in S \X S : z[1] < z[2]}
<1>1. \A q, r \in S : <<q, r>> \in R <=> q < r
  OBVIOUS
<1> HIDE DEF R
<1>2. IsOrder(S, R)
  BY <1>1 DEF IsOrder
<1> QED
  BY <1>2 DEF R

LEMMA AscendingProperties ==
    ASSUME NEW S \in SUBSET Nat, IsFiniteSet(S)
    PROVE  /\ Cardinality(S) \in Nat
           /\ DOMAIN Ascending(S) = 1..Cardinality(S)
           /\ \A k \in 1..Cardinality(S) : Ascending(S)[k] \in S
           /\ \A r \in S : \E k \in 1..Cardinality(S) : Ascending(S)[k] = r
           /\ Ascending(S) \in Seq(S) /\ Len(Ascending(S)) = Cardinality(S)
<1> DEFINE R == {z \in S \X S : z[1] < z[2]}
<1>1. Ascending(S) = Ordered(S, R)
  BY DEF Ascending
<1>2. IsOrder(S, R)
  BY AscendingOrder
<1> HIDE DEF R
<1>3. /\ Cardinality(S) \in Nat
      /\ Ascending(S) \in [1..Cardinality(S) -> S]
      /\ \A r \in S : \E k \in 1..Cardinality(S) : Ascending(S)[k] = r
  BY <1>1, <1>2, OrderedProperties
<1> QED
  BY <1>3

\* The first numbers are in their order.
LEMMA AscendingPrefix ==
    ASSUME NEW n \in Nat
    PROVE  Ascending(1..n) = [i \in 1..n |-> i]
<1> DEFINE S == 1..n
           R == {z \in S \X S : z[1] < z[2]}
<1>1. IsFiniteSet(S) /\ Cardinality(S) = n
  BY FS_Interval
<1>2. IsOrder(S, R)
  BY AscendingOrder
<1>3. ASSUME NEW r \in S PROVE Rank(S, R, r) = r - 1
  <2>1. {q \in S : <<q, r>> \in R} = 1..(r - 1)
    OBVIOUS
  <2>2. Cardinality(1..(r - 1)) = r - 1
    BY FS_Interval
  <2> QED
    BY <2>1, <2>2 DEF Rank
<1>4. ASSUME NEW k \in S PROVE (CHOOSE r \in S : Rank(S, R, r) = k - 1) = k
  <2>1. \A r \in S : Rank(S, R, r) = k - 1 <=> r = k
    BY <1>3
  <2> HIDE DEF S, R
  <2> QED
    BY <2>1
<1>5. Ascending(S) = [k \in 1..n |-> CHOOSE r \in S : Rank(S, R, r) = k - 1]
  BY <1>1 DEF Ascending, Ordered, Rank
<1> HIDE DEF R
<1> QED
  BY <1>4, <1>5

-----------------------------------------------------------------------------
\* Where the parts of a flattened sequence lie.

LEMMA FlattenOne ==
    ASSUME NEW T, NEW x \in Seq(T)
    PROVE  FlattenSeq(<<x>>) = x
<1>1. <<>> \in Seq(Seq(T)) /\ Append(<<>>, x) = <<x>> /\ <<>> \o x = x
  OBVIOUS
<1>2. FlattenSeq(Append(<<>>, x)) = FlattenSeq(<<>>) \o x
  BY <1>1, FlattenAppend
<1> QED
  BY <1>1, <1>2, FlattenNothing

LEMMA FlattenType ==
    ASSUME NEW T, NEW ss \in Seq(Seq(T))
    PROVE  FlattenSeq(ss) \in Seq(T) /\ Len(FlattenSeq(ss)) \in Nat
<1>1. <<>> \in Seq(T)
  OBVIOUS
<1> QED
  BY <1>1, FlattenAppend

LEMMA Glued ==
    ASSUME NEW U, NEW a \in Seq(U), NEW b \in Seq(U), NEW s \in Seq(U), Len(s) = Len(a) + Len(b),
           \A k \in 1..Len(a) : s[k] = a[k], \A k \in 1..Len(b) : s[Len(a) + k] = b[k]
    PROVE  s = a \o b
<1> DEFINE t == a \o b
<1>1. t \in Seq(U) /\ Len(t) = Len(s) /\ Len(a) \in Nat /\ Len(b) \in Nat
  OBVIOUS
<1>2. \A k \in 1..Len(a) : t[k] = a[k]
  OBVIOUS
<1>3. \A k \in 1..Len(b) : t[Len(a) + k] = b[k]
  OBVIOUS
<1> HIDE DEF t
<1>4. ASSUME NEW k \in 1..Len(s) PROVE s[k] = t[k]
  <2>1. CASE k <= Len(a)
    BY <1>1, <1>2, <2>1
  <2>2. CASE k > Len(a)
    <3>1. k - Len(a) \in 1..Len(b) /\ Len(a) + (k - Len(a)) = k
      BY <1>1, <2>2
    <3> QED
      BY <1>3, <3>1
  <2> QED
    BY <1>1, <2>1, <2>2
<1>5. s = t
  BY <1>1, <1>4
<1> QED
  BY <1>5 DEF t

LEMMA SplitAround ==
    ASSUME NEW U, NEW s \in Seq(U), NEW i \in 1..Len(s)
    PROVE  s = SubSeq(s, 1, i - 1) \o (<<s[i]>> \o SubSeq(s, i + 1, Len(s)))
<1> DEFINE pre == SubSeq(s, 1, i - 1)
           post == SubSeq(s, i + 1, Len(s))
           mid == SubSeq(s, i, Len(s))
<1>1. /\ pre \in Seq(U) /\ post \in Seq(U) /\ mid \in Seq(U) /\ <<s[i]>> \in Seq(U) /\ Len(s) \in Nat
      /\ Len(pre) = i - 1 /\ Len(post) = Len(s) - i /\ Len(mid) = Len(s) - i + 1
      /\ \A k \in 1..Len(pre) : s[k] = pre[k]
  OBVIOUS
<1>2. mid[1] = s[i] /\ \A k \in 1..Len(post) : mid[1 + k] = post[k]
  OBVIOUS
<1>3. \A k \in 1..Len(mid) : s[Len(pre) + k] = mid[k]
  OBVIOUS
<1> HIDE DEF pre, post, mid
<1>4. mid = <<s[i]>> \o post
  BY <1>1, <1>2, Glued
<1>5. Len(s) = Len(pre) + Len(mid)
  BY <1>1
<1>6. s = pre \o mid
  BY <1>1, <1>3, <1>5, Glued
<1> QED
  BY <1>4, <1>6 DEF pre, post

LEMMA FlattenAround ==
    ASSUME NEW T, NEW ss \in Seq(Seq(T)), NEW i \in 1..Len(ss)
    PROVE  FlattenSeq(ss) = FlattenSeq(SubSeq(ss, 1, i - 1))
                                \o (ss[i] \o FlattenSeq(SubSeq(ss, i + 1, Len(ss))))
<1> DEFINE pre == SubSeq(ss, 1, i - 1)
           post == SubSeq(ss, i + 1, Len(ss))
<1>1. pre \in Seq(Seq(T)) /\ post \in Seq(Seq(T)) /\ <<ss[i]>> \in Seq(Seq(T)) /\ ss[i] \in Seq(T)
  OBVIOUS
<1>2. ss = pre \o (<<ss[i]>> \o post)
  BY SplitAround
<1> HIDE DEF pre, post
<1>3. <<ss[i]>> \o post \in Seq(Seq(T))
  BY <1>1
<1>4. FlattenSeq(<<ss[i]>> \o post) = ss[i] \o FlattenSeq(post)
  <2> DEFINE one == <<ss[i]>>
  <2>1. FlattenSeq(one) = ss[i]
    BY <1>1, FlattenOne
  <2>2. one \in Seq(Seq(T))
    BY <1>1
  <2> HIDE DEF one
  <2>3. FlattenSeq(one \o post) = FlattenSeq(one) \o FlattenSeq(post)
    BY <1>1, <2>2, FlattenConcat
  <2> QED
    BY <2>1, <2>3 DEF one
<1>5. FlattenSeq(pre \o (<<ss[i]>> \o post)) = FlattenSeq(pre) \o FlattenSeq(<<ss[i]>> \o post)
  BY <1>1, <1>3, FlattenConcat
<1> QED
  BY <1>2, <1>4, <1>5 DEF pre, post

LEMMA FlattenPart ==
    ASSUME NEW T, NEW ss \in Seq(Seq(T)), NEW i \in 1..Len(ss)
    PROVE  LET before == Len(FlattenSeq(SubSeq(ss, 1, i - 1)))
           IN  /\ before \in Nat /\ Len(ss[i]) \in Nat
               /\ before + Len(ss[i]) <= Len(FlattenSeq(ss))
               /\ \A k \in 1..Len(ss[i]) : FlattenSeq(ss)[before + k] = ss[i][k]
               /\ SubSeq(FlattenSeq(ss), before + 1, before + Len(ss[i])) = ss[i]
<1> DEFINE pre == FlattenSeq(SubSeq(ss, 1, i - 1))
           post == FlattenSeq(SubSeq(ss, i + 1, Len(ss)))
           x == ss[i]
           whole == FlattenSeq(ss)
<1>1. pre \in Seq(T) /\ post \in Seq(T) /\ x \in Seq(T)
  <2>1. SubSeq(ss, 1, i - 1) \in Seq(Seq(T)) /\ SubSeq(ss, i + 1, Len(ss)) \in Seq(Seq(T)) /\ ss[i] \in Seq(T)
    OBVIOUS
  <2> QED
    BY <2>1, FlattenType
<1>2. whole = pre \o (x \o post)
  BY FlattenAround
<1> HIDE DEF pre, post, x, whole
<1>3. Len(pre) \in Nat /\ Len(x) \in Nat /\ Len(pre) + Len(x) <= Len(whole)
  BY <1>1, <1>2
<1>4. \A k \in 1..Len(x) : whole[Len(pre) + k] = x[k]
  BY <1>1, <1>2
<1>5. SubSeq(whole, Len(pre) + 1, Len(pre) + Len(x)) = x
  <2>1. whole \in Seq(T)
    BY <1>1, <1>2
  <2> QED
    BY <1>1, <1>3, <1>4, <2>1
<1> QED
  BY <1>3, <1>4, <1>5 DEF pre, post, x, whole

\* Rows of one width.
OfWidth(ss, w) == \A i \in 1..Len(ss) : Len(ss[i]) = w

LEMMA FlattenEqualLength ==
    ASSUME NEW T, NEW w \in Nat
    PROVE  \A ss \in Seq(Seq(T)) : OfWidth(ss, w) => Len(FlattenSeq(ss)) = Len(ss) * w
<1> DEFINE P == {ss \in Seq(Seq(T)) :
                    (\A i \in 1..Len(ss) : Len(ss[i]) = w) => Len(FlattenSeq(ss)) = Len(ss) * w}
<1>1. <<>> \in P
  BY FlattenNothing
<1>2. ASSUME NEW ss \in Seq(Seq(T)), NEW x \in Seq(T), ss \in P PROVE Append(ss, x) \in P
  <2> DEFINE tt == Append(ss, x)
  <2>0. tt \in Seq(Seq(T)) /\ Len(tt) = Len(ss) + 1 /\ tt[Len(ss) + 1] = x /\ Len(ss) \in Nat
        /\ \A i \in 1..Len(ss) : tt[i] = ss[i]
    OBVIOUS
  <2>1. ASSUME \A i \in 1..Len(tt) : Len(tt[i]) = w PROVE Len(FlattenSeq(tt)) = Len(tt) * w
    <3>1. Len(x) = w /\ \A i \in 1..Len(ss) : Len(ss[i]) = w
      BY <2>0, <2>1
    <3>2. Len(FlattenSeq(ss)) = Len(ss) * w
      BY <1>2, <3>1
    <3>3. FlattenSeq(tt) = FlattenSeq(ss) \o x /\ FlattenSeq(ss) \in Seq(T)
      BY FlattenAppend
    <3>4. Len(FlattenSeq(tt)) = Len(ss) * w + w
      <4> DEFINE f == FlattenSeq(ss)
      <4>1. Len(f \o x) = Len(f) + Len(x)
        BY <3>3
      <4> HIDE DEF f
      <4> QED
        BY <3>1, <3>2, <3>3, <4>1 DEF f
    <3>5. Len(ss) * w + w = (Len(ss) + 1) * w
      BY <2>0
    <3> QED
      BY <2>0, <3>4, <3>5
  <2> QED
    BY <2>0, <2>1
<1>3. \A ss \in Seq(Seq(T)) : ss \in P
  <2> HIDE DEF P
  <2> QED
    BY <1>1, <1>2, SeqInduction
<1> QED
  BY <1>3 DEF OfWidth

RowStands(ss, w, i) ==
    /\ \A k \in 1..w : FlattenSeq(ss)[(i - 1) * w + k] = ss[i][k]
    /\ SubSeq(FlattenSeq(ss), (i - 1) * w + 1, i * w) = ss[i]

LEMMA FlattenRow ==
    ASSUME NEW T, NEW w \in Nat, NEW ss \in Seq(Seq(T)), OfWidth(ss, w), NEW i \in 1..Len(ss)
    PROVE  RowStands(ss, w, i)
<1> DEFINE pre == SubSeq(ss, 1, i - 1)
           before == Len(FlattenSeq(pre))
<1>1. pre \in Seq(Seq(T)) /\ Len(pre) = i - 1 /\ OfWidth(pre, w)
  BY DEF OfWidth
<1>2. before = (i - 1) * w
  <2> HIDE DEF pre
  <2> QED
    BY <1>1, FlattenEqualLength
<1>3. before + w = i * w
  <2>1. (i - 1) * w + w = i * w
    OBVIOUS
  <2> QED
    BY <1>2, <2>1
<1>4. /\ \A k \in 1..Len(ss[i]) : FlattenSeq(ss)[before + k] = ss[i][k]
      /\ SubSeq(FlattenSeq(ss), before + 1, before + Len(ss[i])) = ss[i]
  BY FlattenPart
<1>5. Len(ss[i]) = w
  BY DEF OfWidth
<1> HIDE DEF before
<1> QED
  BY <1>2, <1>3, <1>4, <1>5 DEF RowStands

-----------------------------------------------------------------------------
\* Division.

LEMMA TimesMonotonic ==
    ASSUME NEW b \in Nat, NEW x \in Int, NEW y \in Int, x <= y
    PROVE  b * x <= b * y
OBVIOUS

LEMMA Division ==
    ASSUME NEW a \in Nat, NEW b \in Nat \ {0}
    PROVE  /\ a \div b \in Nat /\ a % b \in 0..(b - 1)
           /\ a = b * (a \div b) + (a % b)
OBVIOUS

LEMMA DivisionTells ==
    ASSUME NEW b \in Nat \ {0}, NEW q \in Nat, NEW r \in Nat, r < b
    PROVE  (b * q + r) % b = r /\ (b * q + r) \div b = q
<1> DEFINE a == b * q + r
           q2 == a \div b
           r2 == a % b
<1>1. a \in Nat
  OBVIOUS
<1>2. q2 \in Nat /\ r2 \in Nat /\ r2 < b /\ b * q + r = b * q2 + r2
  BY <1>1, Division
<1> HIDE DEF q2, r2
<1>3. b * (q - q2) = r2 - r
  BY <1>2
<1>4. ASSUME q - q2 >= 1 PROVE FALSE
  <2>1. b * 1 <= b * (q - q2)
    BY <1>2, <1>4, TimesMonotonic
  <2> QED
    BY <1>2, <1>3, <2>1
<1>5. ASSUME q - q2 <= -1 PROVE FALSE
  <2>1. b * (q - q2) <= b * (-1)
    BY <1>2, <1>5, TimesMonotonic
  <2> QED
    BY <1>2, <1>3, <2>1
<1>6. q = q2
  BY <1>2, <1>4, <1>5
<1> QED
  BY <1>2, <1>6 DEF q2, r2
LEMMA DivisionSmall ==
    ASSUME NEW b \in Nat \ {0}, NEW n \in Nat, n < b
    PROVE  n % b = n /\ n \div b = 0
OBVIOUS

\* Two digits of a number.
LEMMA TwoDigits ==
    ASSUME NEW B \in Nat, B >= 2, NEW n \in Nat
    PROVE  (n % B) + B * ((n \div B) % B) = n % (B * B)
<1> DEFINE q == n \div B
           r == n % B
           q2 == q \div B
           r2 == q % B
           M == B * B
<1>0. B \in Nat \ {0}
  OBVIOUS
<1>1. q \in Nat /\ r \in 0..(B - 1) /\ n = B * q + r
  BY <1>0, Division
<1> HIDE DEF q, r
<1>2. q2 \in Nat /\ r2 \in 0..(B - 1) /\ q = B * q2 + r2
  BY <1>1, Division
<1> HIDE DEF q2, r2
<1>3. n = M * q2 + (r + B * r2)
  BY <1>1, <1>2
<1>4. B * r2 <= B * (B - 1)
  BY <1>2, TimesMonotonic
<1>5. B * (B - 1) = M - B /\ M \in Nat
  OBVIOUS
<1>6. B * r2 \in Nat
  BY <1>2
<1> HIDE DEF M
<1>7. r + B * r2 \in Nat /\ r + B * r2 < M /\ M # 0
  BY <1>1, <1>4, <1>5, <1>6
<1>8. n % M = r + B * r2
  BY <1>2, <1>3, <1>5, <1>7, DivisionTells
<1> QED
  BY <1>8 DEF q, r, q2, r2, M

LEMMA TypeOfSeq ==
    ASSUME NEW T, NEW n \in Nat, NEW f, f = [i \in 1..n |-> f[i]], \A i \in 1..n : f[i] \in T
    PROVE  f \in Seq(T) /\ Len(f) = n
<1> DEFINE g == [i \in 1..n |-> f[i]]
<1>1. g \in [1..n -> T]
  OBVIOUS
<1>2. g \in Seq(T) /\ Len(g) = n
  BY <1>1
<1>3. f = g
  OBVIOUS
<1> HIDE DEF g
<1> QED
  BY <1>2, <1>3

LEMMA WiderSeq ==
    ASSUME NEW S, NEW T, S \subseteq T, NEW s \in Seq(S)
    PROVE  s \in Seq(T)
<1>1. Len(s) \in Nat /\ s = [i \in 1..Len(s) |-> s[i]] /\ \A i \in 1..Len(s) : s[i] \in S
  OBVIOUS
<1> DEFINE n == Len(s)
<1>2. n \in Nat /\ s = [i \in 1..n |-> s[i]] /\ \A i \in 1..n : s[i] \in T
  BY <1>1
<1> HIDE DEF n
<1> QED
  BY <1>2, TypeOfSeq
\* A predicate, for the provers take an equation of sequences apart.
Appends(g, s, x) == Append(g \o s, x) = g \o Append(s, x)

LEMMA AppendBehind ==
    ASSUME NEW T, NEW g \in Seq(T), NEW s \in Seq(T), NEW x \in T
    PROVE  Appends(g, s, x)
BY DEF Appends

\* A function that is a sequence, and one that is a sequence and one more.
Numbered(f, n)  == f = [i \in 1..n |-> f[i]]
OneMore(f, r) == f = Append(r, f[Len(r) + 1])

LEMMA ListAppend ==
    ASSUME NEW T, NEW n \in Nat, NEW f, Numbered(f, n + 1), NEW r \in Seq(T), Len(r) = n,
           \A i \in 1..n : f[i] = r[i], f[n + 1] \in T
    PROVE  OneMore(f, r)
<1> DEFINE x == f[n + 1]
           t == Append(r, x)
           g == [i \in 1..(n + 1) |-> f[i]]
<1>1. t \in Seq(T) /\ Len(t) = n + 1 /\ t[n + 1] = x /\ \A i \in 1..n : t[i] = r[i]
  OBVIOUS
<1>2. f = g
  BY DEF Numbered
<1>3. ASSUME NEW i \in 1..(n + 1) PROVE f[i] = t[i]
  <2>1. CASE i = n + 1
    BY <1>1, <2>1
  <2>2. CASE i # n + 1
    BY <1>1, <2>2
  <2> QED
    BY <2>1, <2>2
<1> HIDE DEF t
<1>4. g \in [1..(n + 1) -> T] /\ \A i \in 1..(n + 1) : g[i] = t[i]
  BY <1>1, <1>3
<1>5. g \in Seq(T) /\ Len(g) = n + 1
  BY <1>4
<1> HIDE DEF g
<1>6. g = t
  BY <1>1, <1>4, <1>5
<1> QED
  BY <1>2, <1>6 DEF t, OneMore

LEMMA ConcatLength ==
    ASSUME NEW T, NEW a \in Seq(T), NEW b \in Seq(T)
    PROVE  a \o b \in Seq(T) /\ Len(a \o b) = Len(a) + Len(b) /\ Len(a) \in Nat /\ Len(b) \in Nat
OBVIOUS

LEMMA TwoAppended ==
    ASSUME NEW a, NEW b
    PROVE  Append(<<a>>, b) = <<a, b>>
<1> DEFINE T == {a, b}
           s == <<a>>
           t == <<a, b>>
<1>1. /\ a \in T /\ b \in T
      /\ s \in Seq(T) /\ Len(s) = 1 /\ s[1] = a
      /\ t \in Seq(T) /\ Len(t) = 2 /\ t[1] = a /\ t[2] = b
  OBVIOUS
<1> HIDE DEF s, t, T
<1> DEFINE g == Append(s, b)
<1>2. g \in Seq(T) /\ Len(g) = 2 /\ g[1] = a /\ g[2] = b
  <2>1. s \in Seq(T) /\ b \in T
    BY <1>1
  <2>2. g \in Seq(T) /\ Len(g) = Len(s) + 1 /\ g[Len(s) + 1] = b /\ \A i \in 1..Len(s) : g[i] = s[i]
    BY <2>1, AppendProperties
  <2>3. Len(s) = 1 /\ s[1] = a
    BY <1>1
  <2> HIDE DEF g
  <2> QED
    BY <2>2, <2>3
<1> HIDE DEF g
<1>3. g = t
  BY <1>1, <1>2
<1> QED
  BY <1>3 DEF g, s, t

\* A function defined from its values below.
Descends(S, F) ==
    /\ F \in [Nat \X [Nat -> S] -> S]
    /\ \A n \in Nat : \A f, g \in [Nat -> S] :
          (\A m \in 0..(n - 1) : f[m] = g[m]) => F[<<n, f>>] = F[<<n, g>>]

LEMMA Descent ==
    ASSUME NEW S, NEW s \in S, NEW F, Descends(S, F)
    PROVE  \E f \in [Nat -> S] : \A n \in Nat : f[n] = F[<<n, f>>]
<1> DEFINE D == [Nat -> S]
           c == [n \in Nat |-> s]
           G == [z \in Nat \X D |-> [n \in Nat |-> F[<<n, z[2]>>]]]
           v == [n \in Nat |-> (CHOOSE g : Computes(g, D, c, G, n))[n]]
           f == [n \in Nat |-> v[n + 1][n]]
<1>1. \A d \in D : [n \in Nat |-> F[<<n, d>>]] \in D
  BY DEF Descends
<1>2. c \in D /\ G \in [Nat \X D -> D] /\ \A k \in Nat, d \in D : G[<<k, d>>] = [n \in Nat |-> F[<<n, d>>]]
  <2> HIDE DEF D
  <2>1. c \in D
    BY DEF D
  <2> QED
    BY <1>1, <2>1
<1>3. Iterates(D, c, G)
  BY <1>2 DEF Iterates
<1> HIDE DEF D, c, G
<1>4. \A n \in Nat : \E g : Computes(g, D, c, G, n) /\ v[n] = g[n]
  <2>1. ASSUME NEW n \in Nat PROVE \E g : Computes(g, D, c, G, n) /\ v[n] = g[n]
    <3> DEFINE h == CHOOSE g : Computes(g, D, c, G, n)
    <3>1. \E g : Computes(g, D, c, G, n)
      BY <1>3, Recursion
    <3>2. Computes(h, D, c, G, n)
      BY <3>1, Zenon
    <3>3. v[n] = h[n]
      BY Zenon
    <3> HIDE DEF h, v
    <3> QED
      BY <3>2, <3>3
  <2> QED
    BY <2>1
<1> HIDE DEF v
<1>5. \A n \in Nat : v[n] \in D /\ v[n + 1] = G[<<n + 1, v[n]>>]
  BY <1>3, <1>4, Computation
<1>12. \A n \in Nat : n + 1 \in Nat /\ v[n] \in D /\ v[n + 1] \in D
  <2>1. \A n \in Nat : v[n] \in D
    BY <1>5, Zenon
  <2>2. \A n \in Nat : n + 1 \in Nat
    OBVIOUS
  <2> QED
    BY <2>1, <2>2, Zenon
<1>6. \A k \in Nat : \A n \in Nat : v[k + 1][n] = F[<<n, v[k]>>]
  <2>1. ASSUME NEW k \in Nat, NEW n \in Nat PROVE v[k + 1][n] = F[<<n, v[k]>>]
    <3>1. k + 1 \in Nat /\ v[k] \in D
      BY <1>12, Zenon
    <3>2. G[<<k + 1, v[k]>>] = [m \in Nat |-> F[<<m, v[k]>>]]
      BY <1>2, <3>1
    <3>3. v[k + 1] = [m \in Nat |-> F[<<m, v[k]>>]]
      BY <1>5, <3>2
    <3> QED
      BY <3>3
  <2> QED
    BY <2>1
<1>7. \A n \in Nat : \A a, b \in D : (\A m \in 0..(n - 1) : a[m] = b[m]) => F[<<n, a>>] = F[<<n, b>>]
  BY DEF Descends, D
<1> DEFINE N == {k \in Nat : \A n \in 0..(k - 1) : v[k][n] = v[k + 1][n]}
<1>8. \A k \in Nat : k \in N
  <2>1. 0 \in N
    OBVIOUS
  <2>2. ASSUME NEW k \in Nat, k \in N PROVE k + 1 \in N
    <3>1. ASSUME NEW n \in 0..((k + 1) - 1) PROVE v[k + 1][n] = v[(k + 1) + 1][n]
      <4>1. n \in Nat /\ k + 1 \in Nat /\ v[k] \in D /\ v[k + 1] \in D /\ \A m \in 0..(n - 1) : m \in 0..(k - 1)
        <5>1. n \in Nat /\ \A m \in 0..(n - 1) : m \in 0..(k - 1)
          OBVIOUS
        <5>2. k + 1 \in Nat /\ v[k] \in D /\ v[k + 1] \in D
          BY <1>12, Zenon
        <5> QED
          BY <5>1, <5>2
      <4>2. \A m \in 0..(n - 1) : v[k][m] = v[k + 1][m]
        BY <2>2, <4>1
      <4>3. F[<<n, v[k]>>] = F[<<n, v[k + 1]>>]
        BY <1>7, <4>1, <4>2
      <4>4. v[k + 1][n] = F[<<n, v[k]>>] /\ v[(k + 1) + 1][n] = F[<<n, v[k + 1]>>]
        BY <1>6, <4>1
      <4> QED
        BY <4>3, <4>4
    <3> QED
      BY <3>1
  <2> HIDE DEF N
  <2> QED
    BY <2>1, <2>2, Induction
<1> DEFINE M == {k \in Nat : \A n \in 0..(k - 1) : v[k][n] = f[n]}
<1>9. \A k \in Nat : k \in M
  <2>1. 0 \in M
    OBVIOUS
  <2>2. ASSUME NEW k \in Nat, k \in M PROVE k + 1 \in M
    <3>1. ASSUME NEW n \in 0..((k + 1) - 1) PROVE v[k + 1][n] = f[n]
      <4>1. CASE n = k
        BY <4>1
      <4>2. CASE n # k
        <5>1. n \in 0..(k - 1)
          BY <4>2
        <5>2. v[k][n] = v[k + 1][n] /\ v[k][n] = f[n]
          BY <1>8, <2>2, <5>1
        <5> QED
          BY <5>2
      <4> QED
        BY <4>1, <4>2
    <3> QED
      BY <3>1
  <2> HIDE DEF M
  <2> QED
    BY <2>1, <2>2, Induction
<1>10. f \in D
  <2>1. \A n \in Nat : v[n + 1] \in D
    BY <1>12, Zenon
  <2>2. \A n \in Nat : v[n + 1][n] \in S
    BY <2>1 DEF D
  <2> QED
    BY <2>2 DEF D
<1>11. ASSUME NEW n \in Nat PROVE f[n] = F[<<n, f>>]
  <2>1. \A m \in 0..(n - 1) : v[n][m] = f[m]
    BY <1>9
  <2>2. v[n] \in D /\ v[n + 1][n] = F[<<n, v[n]>>]
    BY <1>5, <1>6
  <2>3. f[n] = v[n + 1][n]
    OBVIOUS
  <2> HIDE DEF f
  <2>4. F[<<n, v[n]>>] = F[<<n, f>>]
    BY <1>7, <1>10, <2>1, <2>2
  <2> QED
    BY <2>2, <2>3, <2>4
<1> HIDE DEF f
<1> QED
  BY <1>10, <1>11 DEF D

\* One piece more flattens to what the others do and that piece.
Extends(qs, ps, x) == FlattenSeq(qs) = FlattenSeq(ps) \o x

LEMMA FlattenMore ==
    ASSUME NEW T, NEW n \in Nat, NEW ps, Numbered(ps, n), \A i \in 1..n : ps[i] \in Seq(T)
    PROVE  /\ ps \in Seq(Seq(T)) /\ FlattenSeq(ps) \in Seq(T)
           /\ \A qs : Numbered(qs, n + 1) /\ (\A i \in 1..n : qs[i] = ps[i]) /\ qs[n + 1] \in Seq(T) =>
                 Extends(qs, ps, qs[n + 1])
<1>1. ps \in Seq(Seq(T)) /\ Len(ps) = n
  <2>1. ps = [i \in 1..n |-> ps[i]]
    BY DEF Numbered
  <2> DEFINE U == Seq(T)
  <2>2. \A i \in 1..n : ps[i] \in U
    OBVIOUS
  <2> HIDE DEF U
  <2>3. ps \in Seq(U) /\ Len(ps) = n
    BY <2>1, <2>2, TypeOfSeq
  <2> QED
    BY <2>3 DEF U
<1>2. FlattenSeq(ps) \in Seq(T)
  BY <1>1, FlattenType
<1>3. ASSUME NEW qs, Numbered(qs, n + 1), \A i \in 1..n : qs[i] = ps[i], qs[n + 1] \in Seq(T)
      PROVE  Extends(qs, ps, qs[n + 1])
  <2> DEFINE U == Seq(T)
             x == qs[n + 1]
  <2>1. ps \in Seq(U) /\ x \in U
    BY <1>1, <1>3
  <2>2. OneMore(qs, ps)
    <3> HIDE DEF U
    <3> QED
      BY <1>1, <1>3, <2>1, ListAppend
  <2>3. qs = Append(ps, x)
    BY <1>1, <2>2 DEF OneMore
  <2>4. FlattenSeq(Append(ps, x)) = FlattenSeq(ps) \o x
    <3> HIDE DEF x
    <3> QED
      BY <2>1, FlattenAppend
  <2> QED
    BY <2>3, <2>4, Zenon DEF Extends
<1> QED
  BY <1>1, <1>2, <1>3
LEMMA FlattenLonger ==
    ASSUME NEW T
    PROVE  \A ss \in Seq(Seq(T)) : (\A i \in 1..Len(ss) : Len(ss[i]) >= 1) => Len(ss) <= Len(FlattenSeq(ss))
<1> DEFINE P == {ss \in Seq(Seq(T)) :
                    (\A i \in 1..Len(ss) : Len(ss[i]) >= 1) => Len(ss) <= Len(FlattenSeq(ss))}
<1>1. <<>> \in P
  BY FlattenNothing
<1>2. ASSUME NEW ss \in Seq(Seq(T)), NEW x \in Seq(T), ss \in P PROVE Append(ss, x) \in P
  <2> DEFINE tt == Append(ss, x)
             f  == FlattenSeq(ss)
  <2>1. tt \in Seq(Seq(T)) /\ Len(tt) = Len(ss) + 1 /\ tt[Len(ss) + 1] = x /\ Len(ss) \in Nat
        /\ \A i \in 1..Len(ss) : tt[i] = ss[i]
    OBVIOUS
  <2>2. ASSUME \A i \in 1..Len(tt) : Len(tt[i]) >= 1 PROVE Len(tt) <= Len(FlattenSeq(tt))
    <3>1. Len(x) >= 1 /\ \A i \in 1..Len(ss) : Len(ss[i]) >= 1
      BY <2>1, <2>2
    <3>2. Len(ss) <= Len(f)
      BY <1>2, <3>1
    <3>3. FlattenSeq(tt) = f \o x /\ f \in Seq(T)
      BY FlattenAppend
    <3> HIDE DEF f
    <3>4. Len(f \o x) = Len(f) + Len(x) /\ Len(f) \in Nat /\ Len(x) \in Nat
      BY <3>3, ConcatLength
    <3> QED
      BY <2>1, <3>1, <3>2, <3>3, <3>4
  <2> QED
    BY <2>1, <2>2
<1>3. \A ss \in Seq(Seq(T)) : ss \in P
  <2> HIDE DEF P
  <2> QED
    BY <1>1, <1>2, SeqInduction
<1> QED
  BY <1>3
LEMMA ConcatAt ==
    ASSUME NEW T, NEW a \in Seq(T), NEW b \in Seq(T)
    PROVE  /\ \A k \in 1..Len(a) : (a \o b)[k] = a[k]
           /\ \A k \in 1..Len(b) : (a \o b)[Len(a) + k] = b[k]
OBVIOUS
LEMMA ThreeAppended ==
    ASSUME NEW a, NEW b, NEW d
    PROVE  Append(<<a, b>>, d) = <<a, b, d>>
<1> DEFINE T == {a, b, d}
           s == <<a, b>>
           t == <<a, b, d>>
<1>1. /\ a \in T /\ b \in T /\ d \in T
      /\ s \in Seq(T) /\ Len(s) = 2 /\ s[1] = a /\ s[2] = b
      /\ t \in Seq(T) /\ Len(t) = 3 /\ t[1] = a /\ t[2] = b /\ t[3] = d
  OBVIOUS
<1> HIDE DEF s, t, T
<1> DEFINE g == Append(s, d)
<1>2. g \in Seq(T) /\ Len(g) = 3 /\ g[1] = a /\ g[2] = b /\ g[3] = d
  <2>1. s \in Seq(T) /\ d \in T
    BY <1>1
  <2>2. g \in Seq(T) /\ Len(g) = Len(s) + 1 /\ g[Len(s) + 1] = d /\ \A i \in 1..Len(s) : g[i] = s[i]
    BY <2>1, AppendProperties
  <2>3. Len(s) = 2 /\ s[1] = a /\ s[2] = b
    BY <1>1
  <2> HIDE DEF g
  <2> QED
    BY <2>2, <2>3
<1> HIDE DEF g
<1>3. g = t
  BY <1>1, <1>2
<1> QED
  BY <1>3 DEF g, s, t
===============================================================================
