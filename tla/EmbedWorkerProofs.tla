-------------------------- MODULE EmbedWorkerProofs --------------------------
(***************************************************************************)
(* The embedding worker, for any callers, texts, model, limits and cache   *)
(* size: its state keeps its types, every reply holds its own request's    *)
(* vectors, the cache stays a cache of the model, and with a model that    *)
(* keeps its contract the worker never panics.                             *)
(***************************************************************************)
EXTENDS EmbedWorker, JobQueueProofs, FiniteSetTheorems

\* The run's part of the types.
RunTypeOK ==
    /\ reply \in [Callers -> [status : {"none", "ok", "err"},
                              out : Seq(Vectors), tokens : Nat]]
    /\ recency \in Seq(Items)
    /\ store \in [Items -> MaybeVec]
    /\ cached \in [Items -> MaybeVec]
    /\ unique \in Seq(Items)
    /\ done \in Nat
    /\ computed \in Seq(Vectors)

\* What came back belongs to what was sent, unless vectors are missing; then
\* they stay missing to the end of the run.
RunInv ==
    /\ phase # "run" => unique = <<>> /\ done = 0 /\ computed = <<>>
    /\ done <= Len(unique)
    /\ Len(computed) <= done
    /\ ~EngineMayFallShort => Len(computed) = done
    /\ Len(computed) = done => \A i \in 1..done : computed[i] = Embedding[unique[i]]

\* Every text of a batch that runs is computed or was found up front.
PlanInv ==
    phase = "run" => \A t \in TextsOf(batch) : IsComputed(t) \/ cached[t] # NoVec

\* The cache holds the model's vectors, and none of the texts being computed.
CacheInv ==
    /\ CacheConsistent
    /\ \A t \in Items : cached[t] \in {NoVec, Embedding[t]}
    /\ \A t \in Items : IsComputed(t) => store[t] = NoVec

\* A caller in a call has no reply yet; one that has a reply has its own.
ReplyInv ==
    /\ \A c \in Callers : pc[c] # "idle" => reply[c].status = "none"
    /\ OwnVectors

\* The inductive invariant.
Inv == QueueInv /\ RunTypeOK /\ RunInv /\ PlanInv /\ CacheInv /\ ReplyInv

-----------------------------------------------------------------------------
\* An ordering of a set of texts is a sequence without repeats.
LEMMA OrderingIsSeq ==
    ASSUME NEW S \in SUBSET Items, NEW o \in Orderings(S)
    PROVE  /\ o \in Seq(S) /\ o \in Seq(Items)
           /\ IsFiniteSet(S) /\ Cardinality(S) \in Nat /\ Len(o) = Cardinality(S)
           /\ DOMAIN o = 1..Len(o)
           /\ \A t \in S : \E i \in DOMAIN o : o[i] = t
           /\ \A i \in DOMAIN o : o[i] \in S
           /\ \A i, j \in DOMAIN o : o[i] = o[j] => i = j
<1>1. IsFiniteSet(S)
  BY EmbedAssumption, FS_Subset
<1>2. Cardinality(S) \in Nat
  BY <1>1, FS_CardinalityType
<1>3. o \in [1..Cardinality(S) -> S]
  BY DEF Orderings
<1>4. o \in Seq(S) /\ Len(o) = Cardinality(S)
  BY <1>2, <1>3
<1>5. o \in Seq(Items)
  BY <1>4, SeqMonotonic
<1> QED
  BY <1>1, <1>2, <1>3, <1>4, <1>5 DEF Orderings

\* Reversing a sequence of texts.
LEMMA ReverseIsSeq ==
    ASSUME NEW S, NEW s \in Seq(S)
    PROVE  /\ Reverse(s) \in Seq(S) /\ Len(Reverse(s)) = Len(s)
           /\ \A i \in 1..Len(s) : Reverse(s)[i] = s[Len(s) - i + 1]
<1>1. Reverse(s) = [i \in 1..Len(s) |-> s[Len(s) - i + 1]]
  BY DEF Reverse
<1>2. Len(s) \in Nat /\ \A i \in 1..Len(s) : s[Len(s) - i + 1] \in S
  OBVIOUS
<1>3. Reverse(s) \in [1..Len(s) -> S]
  BY <1>1, <1>2
<1> QED
  BY <1>1, <1>2, <1>3

\* What a reversed sequence in front of another one holds, index by index.
LEMMA Fronted ==
    ASSUME NEW S, NEW f \in Seq(S), NEW r \in Seq(S)
    PROVE  /\ Reverse(f) \o r \in Seq(S)
           /\ Len(f) \in Nat /\ Len(r) \in Nat
           /\ Len(Reverse(f) \o r) = Len(f) + Len(r)
           /\ DOMAIN f = 1..Len(f) /\ DOMAIN r = 1..Len(r)
           /\ DOMAIN (Reverse(f) \o r) = 1..(Len(f) + Len(r))
           /\ \A k \in 1..Len(f) : (Reverse(f) \o r)[k] = f[Len(f) - k + 1]
           /\ \A k \in (Len(f) + 1)..(Len(f) + Len(r)) : (Reverse(f) \o r)[k] = r[k - Len(f)]
<1> DEFINE g == Reverse(f)
<1>1. g \in Seq(S) /\ Len(g) = Len(f) /\ \A k \in 1..Len(f) : g[k] = f[Len(f) - k + 1]
  BY ReverseIsSeq
<1> HIDE DEF g
<1>0. g \in Seq(S)
  BY <1>1
<1>2. g \o r \in Seq(S) /\ Len(g \o r) = Len(g) + Len(r)
  BY <1>0
<1>8. ASSUME NEW k \in 1..(Len(g) + Len(r))
      PROVE  (g \o r)[k] = IF k <= Len(g) THEN g[k] ELSE r[k - Len(g)]
  BY <1>0
<1>3. Len(f) \in Nat /\ Len(r) \in Nat /\ DOMAIN f = 1..Len(f) /\ DOMAIN r = 1..Len(r)
  OBVIOUS
<1>4. DOMAIN (g \o r) = 1..(Len(f) + Len(r))
  BY <1>1, <1>2
<1>5. \A k \in 1..Len(f) : (g \o r)[k] = f[Len(f) - k + 1]
  BY <1>1, <1>8, <1>3
<1>6. \A k \in (Len(f) + 1)..(Len(f) + Len(r)) : (g \o r)[k] = r[k - Len(f)]
  BY <1>1, <1>8, <1>3
<1>7. g = Reverse(f)
  BY DEF g
<1> QED
  BY <1>1, <1>2, <1>3, <1>4, <1>5, <1>6, <1>7

LEMMA TextsAreItems ==
    ASSUME QueueTypeOK
    PROVE  /\ TextsOf(batch) \subseteq Items
           /\ Hits \subseteq Items
           /\ Misses \subseteq Items
           /\ \A i \in DOMAIN batch : \A k \in DOMAIN batch[i].items :
                 batch[i].items[k] \in TextsOf(batch)
<1>1. ASSUME NEW i \in DOMAIN batch, NEW k \in DOMAIN batch[i].items
      PROVE  batch[i].items[k] \in Items
  <2>1. batch[i] \in Job
    BY DEF QueueTypeOK
  <2>2. batch[i].items \in Seq(Items)
    BY <2>1, JobSize
  <2> QED
    BY <2>2
<1> QED
  BY <1>1 DEF TextsOf, Hits, Misses

\* Removing an addressee changes no text of the batch.
LEMMA TextsSurviveCancel ==
    ASSUME QueueTypeOK, NEW c \in Callers
    PROVE  TextsOf(Forget(batch, c)) = TextsOf(batch)
<1>1. /\ DOMAIN Forget(batch, c) = DOMAIN batch
      /\ \A i \in DOMAIN batch : Forget(batch, c)[i].items = batch[i].items
  BY ForgetKeeps DEF QueueTypeOK
<1> QED
  BY <1>1 DEF TextsOf

\* Where a computed text is.
LEMMA Positions ==
    ASSUME RunTypeOK, NEW t, IsComputed(t)
    PROVE  PositionOf(t) \in 1..Len(unique) /\ unique[PositionOf(t)] = t
BY DEF IsComputed, PositionOf, RunTypeOK

\* At delivery every text of the batch resolves to the model's vector.
LEMMA Resolution ==
    ASSUME RunTypeOK, RunInv, CacheInv, done = Len(unique), Len(unique) <= Len(computed),
           NEW t \in Items, IsComputed(t) \/ cached[t] # NoVec
    PROVE  /\ Resolve(t) = Embedding[t]
           /\ IsComputed(t) => computed[PositionOf(t)] = Embedding[t]
<1>1. ASSUME IsComputed(t) PROVE computed[PositionOf(t)] = Embedding[t]
  BY <1>1, Positions DEF RunTypeOK, RunInv
<1> QED
  BY <1>1 DEF Resolve, CacheInv

-----------------------------------------------------------------------------
\* Planning: what is found, what is computed, and the recency of the rest.
LEMMA PlanStep ==
    ASSUME Inv, Plan
    PROVE  Inv'
<1> USE DEF Inv
<1>1. QueueInv'
  BY WindowClosesStep DEF Plan
<1>2. phase = "collect" /\ phase' = "run" /\ pc' = pc /\ asked' = asked /\ reply' = reply
      /\ batch' = batch /\ store' = store /\ done' = done /\ computed' = computed
  BY DEF Plan, WindowCloses
<1>3. QueueTypeOK
  BY DEF QueueInv
<1>4. PICK u \in Orderings(Misses) : unique' = u
  BY DEF Plan
<1>5. PICK found \in Orderings(Hits), rest \in Orderings(Remembered \ Hits) :
         recency' = Reverse(found) \o rest
  BY DEF Plan, Touch
<1>6. cached' = [t \in Items |-> IF t \in Hits THEN store[t] ELSE NoVec]
  BY DEF Plan
<1>7. Remembered \subseteq Items /\ Remembered \ Hits \in SUBSET Items /\ Hits \in SUBSET Items
  BY <1>3, TextsAreItems DEF Remembered, RunTypeOK
<1>8. Misses \in SUBSET Items
  BY <1>3, TextsAreItems
<1>9. /\ unique' \in Seq(Items)
      /\ \A t \in Misses : IsComputed(t)'
      /\ \A t : IsComputed(t)' => t \in Misses
  BY <1>4, <1>8, OrderingIsSeq DEF IsComputed
<1>10. /\ found \in Seq(Items) /\ Len(found) = Cardinality(Hits)
       /\ \A t \in Hits : \E i \in DOMAIN found : found[i] = t
       /\ \A i \in DOMAIN found : found[i] \in Hits
       /\ \A i, j \in DOMAIN found : found[i] = found[j] => i = j
  BY <1>7, OrderingIsSeq
<1> DEFINE Rest == Remembered \ Hits
<1>16. Rest \in SUBSET Items /\ rest \in Orderings(Rest)
  BY <1>7
<1> HIDE DEF Rest
<1>17. /\ rest \in Seq(Items) /\ Len(rest) = Cardinality(Rest)
       /\ \A t \in Rest : \E i \in DOMAIN rest : rest[i] = t
       /\ \A i \in DOMAIN rest : rest[i] \in Rest
       /\ \A i, j \in DOMAIN rest : rest[i] = rest[j] => i = j
  BY <1>16, OrderingIsSeq
<1>18. /\ recency' \in Seq(Items)
       /\ Len(found) \in Nat /\ Len(rest) \in Nat
       /\ Len(recency') = Len(found) + Len(rest)
       /\ DOMAIN found = 1..Len(found) /\ DOMAIN rest = 1..Len(rest)
       /\ DOMAIN recency' = 1..(Len(found) + Len(rest))
       /\ \A k \in 1..Len(found) : recency'[k] = found[Len(found) - k + 1]
       /\ \A k \in (Len(found) + 1)..(Len(found) + Len(rest)) : recency'[k] = rest[k - Len(found)]
  <2> DEFINE w == Reverse(found) \o rest
  <2>1. /\ w \in Seq(Items)
        /\ Len(found) \in Nat /\ Len(rest) \in Nat
        /\ Len(w) = Len(found) + Len(rest)
        /\ DOMAIN found = 1..Len(found) /\ DOMAIN rest = 1..Len(rest)
        /\ DOMAIN w = 1..(Len(found) + Len(rest))
        /\ \A k \in 1..Len(found) : w[k] = found[Len(found) - k + 1]
        /\ \A k \in (Len(found) + 1)..(Len(found) + Len(rest)) : w[k] = rest[k - Len(found)]
    <3>1. found \in Seq(Items) /\ rest \in Seq(Items)
      BY <1>10, <1>17
    <3> QED
      BY <3>1, Fronted
  <2>2. recency' = w
    BY <1>5
  <2> HIDE DEF w
  <2> QED
    BY <2>1, <2>2
<1> USE DEF Rest
<1>11. RunTypeOK'
  BY <1>2, <1>6, <1>9, <1>18 DEF RunTypeOK, MaybeVec
<1>12. RunInv'
  BY <1>2, <1>9, <1>11 DEF RunInv, RunTypeOK
<1>13. PlanInv'
  <2> SUFFICES ASSUME NEW t \in TextsOf(batch) PROVE IsComputed(t)' \/ cached'[t] # NoVec
    BY <1>2 DEF PlanInv
  <2>1. CASE t \in Hits
    BY <2>1, <1>6, <1>7 DEF Hits
  <2>2. CASE t \notin Hits
    BY <2>2, <1>9 DEF Misses
  <2> QED
    BY <2>1, <2>2
<1>14. CacheInv'
  <2>1. \A t \in Items : cached'[t] \in {NoVec, Embedding[t]}
    BY <1>6 DEF CacheInv, CacheConsistent
  <2>2. \A t \in Items : IsComputed(t)' => store'[t] = NoVec
    BY <1>2, <1>9 DEF Misses, Hits
  <2>3. \A t \in Hits : t \in Remembered
    BY <1>7 DEF Hits, CacheInv, CacheConsistent, Remembered
  <2>4. ASSUME NEW t \in Items
        PROVE  (\E i \in DOMAIN recency' : recency'[i] = t) <=> t \in Remembered
    <3>1. ASSUME NEW i \in DOMAIN recency' PROVE recency'[i] \in Remembered
      <4>1. CASE i \in 1..Len(found)
        <5>1. Len(found) - i + 1 \in DOMAIN found
          BY <4>1, <1>18
        <5> QED
          BY <4>1, <5>1, <1>10, <1>18, <2>3
      <4>2. CASE i \in (Len(found) + 1)..(Len(found) + Len(rest))
        <5>1. i - Len(found) \in DOMAIN rest
          BY <4>2, <1>18
        <5> QED
          BY <4>2, <5>1, <1>17, <1>18
      <4> QED
        BY <3>1, <4>1, <4>2, <1>18
    <3>2. ASSUME t \in Remembered PROVE \E i \in DOMAIN recency' : recency'[i] = t
      <4>1. CASE t \in Hits
        <5>1. PICK j \in DOMAIN found : found[j] = t
          BY <4>1, <1>10
        <5>2. Len(found) - j + 1 \in 1..Len(found) /\ j = Len(found) - (Len(found) - j + 1) + 1
          BY <5>1, <1>18
        <5>3. Len(found) - j + 1 \in DOMAIN recency' /\ recency'[Len(found) - j + 1] = t
          BY <5>1, <5>2, <1>18
        <5> QED
          BY <5>3
      <4>2. CASE t \notin Hits
        <5>1. PICK j \in DOMAIN rest : rest[j] = t
          BY <3>2, <4>2, <1>17
        <5>2. Len(found) + j \in DOMAIN recency' /\ recency'[Len(found) + j] = t
          BY <5>1, <1>18
        <5> QED
          BY <5>2
      <4> QED
        BY <4>1, <4>2
    <3> QED
      BY <3>1, <3>2
  <2>5. \A i, j \in DOMAIN recency' : recency'[i] = recency'[j] => i = j
    <3> SUFFICES ASSUME NEW i \in DOMAIN recency', NEW j \in DOMAIN recency',
                        recency'[i] = recency'[j]
                 PROVE  i = j
      OBVIOUS
    <3>1. CASE i <= Len(found) /\ j <= Len(found)
      <4>1. Len(found) - i + 1 \in DOMAIN found /\ Len(found) - j + 1 \in DOMAIN found
        BY <3>1, <1>18
      <4>2. recency'[i] = found[Len(found) - i + 1] /\ recency'[j] = found[Len(found) - j + 1]
        BY <3>1, <1>18
      <4>3. Len(found) - i + 1 = Len(found) - j + 1
        BY <4>1, <4>2, <1>10
      <4> QED
        BY <4>3, <1>18
    <3>2. CASE ~(i <= Len(found)) /\ ~(j <= Len(found))
      <4>1. i - Len(found) \in DOMAIN rest /\ j - Len(found) \in DOMAIN rest
        BY <3>2, <1>18
      <4>2. /\ i \in (Len(found) + 1)..(Len(found) + Len(rest))
            /\ j \in (Len(found) + 1)..(Len(found) + Len(rest))
        BY <3>2, <1>18
      <4>3. recency'[i] = rest[i - Len(found)] /\ recency'[j] = rest[j - Len(found)]
        BY <4>2, <1>18
      <4>4. rest[i - Len(found)] = rest[j - Len(found)]
        BY <4>3
      <4>5. i - Len(found) = j - Len(found)
        BY <4>1, <4>4, <1>17
      <4> QED
        BY <4>5, <1>18
    <3>3. \A k, l \in DOMAIN recency' :
             k <= Len(found) /\ ~(l <= Len(found)) => recency'[k] # recency'[l]
      <4> TAKE k, l \in DOMAIN recency'
      <4> HAVE k <= Len(found) /\ ~(l <= Len(found))
      <4>1. k \in 1..Len(found) /\ l \in (Len(found) + 1)..(Len(found) + Len(rest))
        BY <1>18
      <4>3. Len(found) - k + 1 \in DOMAIN found /\ l - Len(found) \in DOMAIN rest
        BY <4>1, <1>18
      <4>2. recency'[k] = found[Len(found) - k + 1] /\ recency'[l] = rest[l - Len(found)]
        BY <4>1, <1>18
      <4> QED
        BY <4>3, <4>2, <1>10, <1>17
    <3> QED
      BY <3>1, <3>2, <3>3
  <2>6. Len(recency') <= CacheEntries
    <3>1. IsFiniteSet(Remembered) /\ IsFiniteSet(Hits) /\ IsFiniteSet(Remembered \ Hits)
      BY <1>7, EmbedAssumption, FS_Subset
    <3>2. Cardinality(Remembered \ Hits) = Cardinality(Remembered) - Cardinality(Hits)
      <4>1. Remembered \intersect Hits = Hits
        BY <2>3
      <4> QED
        BY <3>1, <4>1, FS_Difference
    <3>3. Cardinality(Remembered) <= Len(recency)
      <4>1. Len(recency) \in Nat /\ recency \in [1..Len(recency) -> Remembered]
        BY DEF RunTypeOK, Remembered
      <4>2. recency \in Surjection(1..Len(recency), Remembered)
        BY <4>1 DEF Surjection, Remembered
      <4>3. IsFiniteSet(1..Len(recency)) /\ Cardinality(1..Len(recency)) = Len(recency)
        <5>1. 1 \in Int /\ Len(recency) \in Int
          BY <4>1
        <5>2. /\ IsFiniteSet(1..Len(recency))
              /\ Cardinality(1..Len(recency)) =
                    IF 1 > Len(recency) THEN 0 ELSE Len(recency) - 1 + 1
          BY ONLY <5>1, FS_Interval
        <5> QED
          BY <4>1, <5>2
      <4>4. Cardinality(Remembered) <= Cardinality(1..Len(recency))
        BY <4>2, <4>3, FS_Surjection
      <4> QED
        BY <4>3, <4>4
    <3>4. Len(recency') = Cardinality(Hits) + Cardinality(Remembered \ Hits)
      BY <1>10, <1>17, <1>18
    <3>5. Cardinality(Hits) \in Nat /\ Cardinality(Remembered) \in Nat /\ Len(recency) \in Nat
      BY <3>1, FS_CardinalityType DEF RunTypeOK
    <3>6. Len(recency) <= CacheEntries /\ CacheEntries \in Nat
      BY EmbedAssumption DEF CacheInv, CacheConsistent, CacheEntries, AtLeastOne
    <3> QED
      BY <3>2, <3>3, <3>4, <3>5, <3>6
  <2>7. \A t \in Items : store[t] = IF t \in Remembered THEN Embedding[t] ELSE NoVec
    BY DEF CacheInv, CacheConsistent, Remembered
  <2> QED
    BY <1>2, <2>1, <2>2, <2>4, <2>5, <2>6, <2>7 DEF CacheInv, CacheConsistent
<1>15. ReplyInv'
  BY <1>2 DEF ReplyInv, OwnVectors
<1> QED
  BY <1>1, <1>11, <1>12, <1>13, <1>14, <1>15

\* Callers come and go, and the worker takes requests, without touching a run.
LEMMA CallerInvStep ==
    ASSUME Inv, NEW c \in Callers, CallerStep(c)
    PROVE  Inv'
<1> USE DEF Inv
<1>1. /\ recency' = recency /\ store' = store /\ cached' = cached
      /\ unique' = unique /\ done' = done /\ computed' = computed
  BY DEF CallerStep, cacheVars, runVars
<1>2. /\ phase' = phase
      /\ QueueStep
  BY DEF CallerStep, Submit, Enqueue, SendFails, Cancel, QueueStep
<1>3. QueueInv'
  BY <1>2, QueueInvStep
<1>4. TextsOf(batch)' = TextsOf(batch)
  <2>1. CASE Cancel(c)
    BY <2>1, TextsSurviveCancel DEF Cancel, QueueInv
  <2>2. CASE ~Cancel(c)
    <3>1. batch' = batch
      BY <2>2 DEF CallerStep, Submit, Enqueue, SendFails
    <3> QED
      BY <3>1 DEF TextsOf
  <2> QED
    BY <2>1, <2>2
<1>5. RunInv' /\ PlanInv' /\ CacheInv'
  BY <1>1, <1>2, <1>4 DEF RunInv, PlanInv, CacheInv, CacheConsistent, IsComputed
<1>6. RunTypeOK' /\ ReplyInv'
  <2>1. CASE \E p \in Payloads : Submit(c, p)
    <3>1. NoReply \in [status : {"none", "ok", "err"}, out : Seq(Vectors), tokens : Nat]
      BY DEF NoReply
    <3>2. RunTypeOK'
      BY <1>1, <2>1, <3>1 DEF RunTypeOK, Submit
    <3>3. reply' = [reply EXCEPT ![c] = NoReply] /\ \A e \in Callers : e # c => asked'[e] = asked[e]
      BY <2>1 DEF Submit, QueueInv, QueueTypeOK
    <3>4. \A e \in Callers : pc'[e] # "idle" => pc[e] # "idle" \/ e = c
      BY <2>1 DEF Submit, QueueInv, QueueTypeOK
    <3>5. reply'[c].status = "none" /\ \A e \in Callers : e # c => reply'[e] = reply[e]
      BY <3>3 DEF RunTypeOK, NoReply
    <3> QED
      BY <3>2, <3>3, <3>4, <3>5 DEF ReplyInv, OwnVectors
  <2>2. CASE SendFails(c)
    <3>1. Failure \in [status : {"none", "ok", "err"}, out : Seq(Vectors), tokens : Nat]
      BY DEF Failure
    <3>2. RunTypeOK'
      BY <1>1, <2>2, <3>1 DEF RunTypeOK, SendFails
    <3>3. reply'[c].status = "err" /\ \A e \in Callers : e # c => reply'[e] = reply[e]
      BY <2>2 DEF RunTypeOK, Failure, SendFails
    <3>4. asked' = asked /\ pc'[c] = "idle" /\ \A e \in Callers : e # c => pc'[e] = pc[e]
      BY <2>2 DEF SendFails, QueueInv, QueueTypeOK
    <3> QED
      BY <3>2, <3>3, <3>4 DEF ReplyInv, OwnVectors
  <2>3. CASE Enqueue(c)
    <3>1. reply' = reply /\ asked' = asked
      BY <2>3 DEF Enqueue
    <3>2. \A e \in Callers : pc'[e] # "idle" => pc[e] # "idle"
      BY <2>3 DEF Enqueue, QueueInv, QueueTypeOK
    <3> QED
      BY <1>1, <3>1, <3>2 DEF RunTypeOK, ReplyInv, OwnVectors
  <2>4. CASE Cancel(c)
    <3>1. reply' = reply /\ reply[c].status = "none"
      BY <2>4 DEF Cancel, ReplyInv
    <3>2. /\ \A e \in Callers : e # c => asked'[e] = asked[e]
          /\ \A e \in Callers : pc'[e] # "idle" => pc[e] # "idle"
      BY <2>4 DEF Cancel, QueueInv, QueueTypeOK
    <3>3. RunTypeOK'
      BY <1>1, <3>1 DEF RunTypeOK
    <3>4. \A e \in Callers : reply'[e].status = "ok" => e # c /\ reply[e].status = "ok"
      BY <3>1
    <3>5. OwnVectors'
      BY <3>1, <3>2, <3>4 DEF ReplyInv, OwnVectors
    <3> QED
      BY <3>1, <3>2, <3>3, <3>5 DEF ReplyInv
  <2> QED
    BY <2>1, <2>2, <2>3, <2>4 DEF CallerStep
<1> QED
  BY <1>3, <1>5, <1>6

LEMMA CollectInvStep ==
    ASSUME Inv, CollectStep
    PROVE  Inv'
<1> USE DEF Inv
<1>1. /\ recency' = recency /\ store' = store /\ cached' = cached
      /\ unique' = unique /\ done' = done /\ computed' = computed
  BY DEF CollectStep, cacheVars, runVars
<1>2. QueueInv'
  BY QueueInvStep DEF CollectStep, QueueStep
<1>3. phase # "run" /\ phase' # "run" /\ pc' = pc /\ asked' = asked /\ reply' = reply
  BY DEF CollectStep, RecvFirst, CollectMore, callerVars
<1>4. RunTypeOK' /\ RunInv' /\ PlanInv' /\ CacheInv' /\ ReplyInv'
  BY <1>1, <1>3 DEF RunTypeOK, RunInv, PlanInv, CacheInv, CacheConsistent, IsComputed, ReplyInv, OwnVectors
<1> QED
  BY <1>2, <1>4

\* A chunk's vectors are appended; short or not, the account stays true.
LEMMA ChunkInvStep ==
    ASSUME Inv, ChunkDone
    PROVE  Inv'
<1> USE DEF Inv
<1>1. /\ pc' = pc /\ asked' = asked /\ reply' = reply /\ queue' = queue /\ phase' = phase
      /\ batch' = batch /\ queued' = queued
      /\ recency' = recency /\ store' = store /\ cached' = cached /\ unique' = unique
  BY DEF ChunkDone, queueVars, cacheVars
<1>2. QueueInv'
  BY <1>1, QueueInvStep DEF QueueStep, queueVars
<1>3. /\ done \in Nat /\ Len(unique) \in Nat /\ MaxBatch \in Nat /\ done < Len(unique)
      /\ phase = "run"
  BY Limits DEF ChunkDone, RunTypeOK
<1>4. done' = ChunkEnd /\ ChunkEnd \in done..Len(unique)
  BY <1>3 DEF ChunkDone, ChunkEnd
<1>5. PICK n \in Returned : computed' = computed \o [i \in 1..n |-> Embedding[unique[done + i]]]
  BY DEF ChunkDone
<1>6. n \in 0..(ChunkEnd - done) /\ (~EngineMayFallShort => n = ChunkEnd - done)
  BY <1>4, <1>3 DEF Returned
<1> DEFINE new == [i \in 1..n |-> Embedding[unique[done + i]]]
<1>7. \A i \in 1..n : Embedding[unique[done + i]] \in Vectors
  <2> TAKE i \in 1..n
  <2>1. done + i \in 1..Len(unique)
    BY <1>3, <1>4, <1>6
  <2>2. unique[done + i] \in Items
    BY <2>1 DEF RunTypeOK
  <2> QED
    BY <2>2, EmbedAssumption
<1>8. new \in Seq(Vectors) /\ Len(new) = n /\ n \in Nat
  BY <1>6, <1>7, <1>3, <1>4
<1>9. /\ computed' \in Seq(Vectors) /\ Len(computed') = Len(computed) + n
      /\ \A i \in 1..Len(computed) : computed'[i] = computed[i]
      /\ \A i \in 1..n : computed'[Len(computed) + i] = Embedding[unique[done + i]]
  <2> HIDE DEF new
  <2>1. computed' = computed \o new /\ computed \in Seq(Vectors)
    BY <1>5 DEF new, RunTypeOK
  <2>2. \A i \in 1..n : new[i] = Embedding[unique[done + i]]
    BY DEF new
  <2>3. /\ computed \o new \in Seq(Vectors)
        /\ Len(computed \o new) = Len(computed) + Len(new)
        /\ \A i \in 1..(Len(computed) + Len(new)) :
              (computed \o new)[i] =
                 IF i <= Len(computed) THEN computed[i] ELSE new[i - Len(computed)]
    BY <1>8, <2>1, ConcatProperties
  <2>4. Len(computed) \in Nat
    BY <2>1
  <2>5. ASSUME NEW i \in 1..n
        PROVE  computed'[Len(computed) + i] = Embedding[unique[done + i]]
    <3>1. Len(computed) + i \in 1..(Len(computed) + Len(new)) /\ ~(Len(computed) + i <= Len(computed))
      BY <1>8, <2>4
    <3>2. (Len(computed) + i) - Len(computed) = i
      BY <2>4
    <3> QED
      BY <2>1, <2>2, <2>3, <3>1, <3>2
  <2>6. \A i \in 1..Len(computed) : computed'[i] = computed[i]
    BY <1>8, <2>1, <2>3, <2>4
  <2> QED
    BY <1>8, <2>1, <2>3, <2>5, <2>6
<1>10. RunTypeOK'
  BY <1>1, <1>3, <1>4, <1>9 DEF RunTypeOK
<1>11. RunInv'
  <2>1. Len(computed) \in Nat /\ Len(computed) <= done
    BY DEF RunTypeOK, RunInv
  <2>2. done' <= Len(unique') /\ Len(computed') <= done'
    BY <1>1, <1>3, <1>4, <1>6, <1>9, <2>1
  <2>3. ~EngineMayFallShort => Len(computed') = done'
    BY <1>3, <1>4, <1>6, <1>9 DEF RunInv
  <2>4. ASSUME Len(computed') = done', NEW i \in 1..done'
        PROVE  computed'[i] = Embedding[unique'[i]]
    <3>1. Len(computed) = done /\ n = ChunkEnd - done
      BY <2>4, <2>1, <1>3, <1>4, <1>6, <1>9
    <3>2. CASE i <= done
      BY <3>1, <3>2, <1>1, <1>3, <1>4, <1>9 DEF RunInv
    <3>3. CASE ~(i <= done)
      <4>1. i - done \in 1..n /\ i = Len(computed) + (i - done) /\ i = done + (i - done)
        BY <3>1, <3>3, <1>3, <1>4
      <4>2. computed'[Len(computed) + (i - done)] = Embedding[unique[done + (i - done)]]
        BY <4>1, <1>9
      <4> QED
        BY <4>1, <4>2, <1>1
    <3> QED
      BY <3>2, <3>3
  <2> QED
    BY <1>1, <1>3, <2>2, <2>3, <2>4 DEF RunInv
<1>12. PlanInv' /\ CacheInv' /\ ReplyInv'
  BY <1>1 DEF PlanInv, CacheInv, CacheConsistent, IsComputed, TextsOf, ReplyInv, OwnVectors
<1> QED
  BY <1>2, <1>10, <1>11, <1>12

\* Answering with errors, the batch or everybody, and forgetting the run.
LEMMA ForgottenRun ==
    ASSUME Inv, RunForgotten, phase' \in {"recv", "stopped"}
    PROVE  RunInv' /\ PlanInv' /\ (\A t \in Items : ~IsComputed(t)') /\ cached' = NoneCached
           /\ unique' \in Seq(Items) /\ done' \in Nat /\ computed' \in Seq(Vectors)
           /\ cached' \in [Items -> MaybeVec]
BY DEF RunForgotten, RunInv, PlanInv, IsComputed, NoneCached, MaybeVec

\* Answers that are all errors leave every reply its owner's.
LEMMA ErrorsAreOwn ==
    ASSUME Inv, NEW S \in SUBSET Callers,
           pc' = [c \in Callers |-> IF c \in S THEN "idle" ELSE pc[c]],
           reply' = [c \in Callers |-> IF c \in S THEN Failure ELSE reply[c]],
           asked' = asked
    PROVE  ReplyInv' /\ reply' \in [Callers -> [status : {"none", "ok", "err"},
                                               out : Seq(Vectors), tokens : Nat]]
<1>1. /\ Failure \in [status : {"none", "ok", "err"}, out : Seq(Vectors), tokens : Nat]
      /\ Failure.status = "err"
  BY DEF Failure
<1>2. reply' \in [Callers -> [status : {"none", "ok", "err"}, out : Seq(Vectors), tokens : Nat]]
  BY <1>1 DEF Inv, RunTypeOK
<1>3. \A c \in Callers : pc'[c] # "idle" => c \notin S /\ pc[c] # "idle" /\ reply'[c] = reply[c]
  OBVIOUS
<1>4. \A c \in Callers : reply'[c].status = "ok" => reply'[c] = reply[c]
  BY <1>1
<1>5. (\A c \in Callers : pc[c] # "idle" => reply[c].status = "none") /\ OwnVectors
  BY DEF Inv, ReplyInv
<1>6. \A c \in Callers : pc'[c] # "idle" => reply'[c].status = "none"
  BY <1>3, <1>5
<1>7. OwnVectors'
  BY <1>4, <1>5 DEF OwnVectors
<1> QED
  BY <1>2, <1>6, <1>7 DEF ReplyInv

LEMMA AddresseesAreCallers ==
    ASSUME NEW jobs \in Seq(Job)
    PROVE  Addressees(jobs) \subseteq Callers
<1> SUFFICES ASSUME NEW c \in Addressees(jobs) PROVE c \in Callers
  OBVIOUS
<1>1. PICK i \in DOMAIN jobs : jobs[i].to = c
  BY DEF Addressees
<1>2. jobs[i] \in Job /\ c # Gone
  BY DEF Addressees
<1> QED
  BY <1>1, <1>2 DEF Job

LEMMA FailInvStep ==
    ASSUME Inv, BatchFails
    PROVE  Inv'
<1>1. /\ phase' = "recv" /\ RunForgotten /\ recency' = recency /\ store' = store /\ asked' = asked
      /\ pc' = [c \in Callers |-> IF c \in Addressees(batch) THEN "idle" ELSE pc[c]]
      /\ RoundEnds
  BY DEF BatchFails, AnswerBatch, Reply, cacheVars, RoundEnds
<1>2. reply' = [c \in Callers |-> IF c \in Addressees(batch) THEN Failure ELSE reply[c]]
  BY DEF BatchFails, AnswerBatch, Reply
<1>3. Addressees(batch) \subseteq Callers
  BY AddresseesAreCallers DEF Inv, QueueInv, QueueTypeOK
<1>4. ReplyInv' /\ reply' \in [Callers -> [status : {"none", "ok", "err"},
                                           out : Seq(Vectors), tokens : Nat]]
  BY <1>1, <1>2, <1>3, ErrorsAreOwn
<1>5. QueueInv'
  BY <1>1, QueueInvStep DEF QueueStep, Inv
<1>6. RunInv' /\ PlanInv' /\ RunTypeOK' /\ CacheInv'
  BY <1>1, <1>4, ForgottenRun DEF Inv, RunTypeOK, CacheInv, CacheConsistent, NoneCached
<1> QED
  BY <1>4, <1>5, <1>6 DEF Inv

LEMMA PanicInvStep ==
    ASSUME Inv, RunPanics
    PROVE  Inv'
<1> DEFINE S == Addressees(batch) \union Addressees(queue)
<1>1. /\ phase' = "stopped" /\ RunForgotten /\ asked' = asked
      /\ recency' = <<>> /\ store' = NoneCached /\ WorkerDies
      /\ pc' = [c \in Callers |-> IF c \in S THEN "idle" ELSE pc[c]]
  BY DEF RunPanics, WorkerDies, Reply
<1>2. reply' = [c \in Callers |-> IF c \in S THEN Failure ELSE reply[c]]
  BY DEF RunPanics, WorkerDies, Reply
<1>3. S \subseteq Callers
  BY AddresseesAreCallers DEF Inv, QueueInv, QueueTypeOK
<1> HIDE DEF S
<1>4. ReplyInv' /\ reply' \in [Callers -> [status : {"none", "ok", "err"},
                                           out : Seq(Vectors), tokens : Nat]]
  BY <1>1, <1>2, <1>3, ErrorsAreOwn
<1>5. QueueInv'
  BY <1>1, QueueInvStep DEF QueueStep, Inv
<1>6. CacheEntries \in Nat
  BY EmbedAssumption DEF CacheEntries, AtLeastOne
<1>7. RunInv' /\ PlanInv' /\ RunTypeOK' /\ CacheInv'
  BY <1>1, <1>4, <1>6, ForgottenRun DEF RunTypeOK, CacheInv, CacheConsistent, NoneCached, MaybeVec
<1> QED
  BY <1>4, <1>5, <1>7 DEF Inv

\* The request a caller of the batch is answered for is its own.
LEMMA JobForCaller ==
    ASSUME QueueInv, NEW c \in Addressees(batch)
    PROVE  /\ c \in Callers /\ pc[c] = "waiting"
           /\ \E i \in DOMAIN batch : JobFor(c) = batch[i]
           /\ JobFor(c).items = asked[c]
           /\ JobFor(c).items \in Seq(Items)
<1>1. PICK i \in DOMAIN batch : batch[i].to = c
  BY DEF Addressees
<1>2. QueueTypeOK /\ batch[i] \in Job /\ c # Gone
  BY DEF QueueInv, QueueTypeOK, Addressees
<1>3. c \in Callers
  BY <1>1, <1>2 DEF Job
<1>4. PICK k \in DOMAIN batch : JobFor(c) = batch[k] /\ batch[k].to = c
  BY <1>1 DEF JobFor
<1>5. k \in DOMAIN Line /\ Line[k] = batch[k]
  BY <1>2, LineAt
<1>6. pc[c] = "waiting"
  BY <1>3, <1>4, <1>5 DEF QueueInv, OneJobPerCaller
<1>7. PICK l \in DOMAIN Line : Line[l].to = c /\ Line[l].items = asked[c]
  BY <1>3, <1>6 DEF QueueInv, OneJobPerCaller
<1>8. l = k
  BY <1>3, <1>4, <1>5, <1>7 DEF QueueInv, OneJobPerCaller
<1>9. batch[k] \in Job
  BY <1>2 DEF QueueTypeOK
<1> QED
  BY <1>3, <1>4, <1>5, <1>6, <1>7, <1>8, <1>9, JobSize

\* Replies delivered with a batch are their owners'.
LEMMA DeliverReplies ==
    ASSUME Inv, Deliver
    PROVE  ReplyInv' /\ reply' \in [Callers -> [status : {"none", "ok", "err"},
                                               out : Seq(Vectors), tokens : Nat]]
<1> USE DEF Inv
<1>1. /\ phase = "run" /\ asked' = asked
      /\ pc' = [c \in Callers |-> IF c \in Addressees(batch) THEN "idle" ELSE pc[c]]
      /\ reply' = [c \in Callers |->
                     IF c \in Addressees(batch)
                     THEN [d \in Addressees(batch) |-> AnswerFor(d)][c] ELSE reply[c]]
  BY DEF Deliver, AnswerBatch, Reply
<1>2. done = Len(unique) /\ Len(unique) <= Len(computed)
  BY DEF Deliver, Deliverable
<1>3. ASSUME NEW c \in Addressees(batch)
      PROVE  /\ AnswerFor(c) \in [status : {"none", "ok", "err"}, out : Seq(Vectors), tokens : Nat]
             /\ AnswerFor(c).out = [k \in DOMAIN asked[c] |-> Embedding[asked[c][k]]]
  <2> DEFINE texts == JobFor(c).items
  <2>1. texts = asked[c] /\ texts \in Seq(Items)
    BY JobForCaller
  <2>2. \A k \in DOMAIN texts : texts[k] \in TextsOf(batch)
    BY JobForCaller, TextsAreItems DEF QueueInv
  <2>3. \A k \in DOMAIN texts : texts[k] \in Items
    BY <2>1
  <2>4. \A k \in DOMAIN texts : IsComputed(texts[k]) \/ cached[texts[k]] # NoVec
    BY <1>1, <2>2 DEF PlanInv
  <2>5. \A k \in DOMAIN texts : Resolve(texts[k]) = Embedding[texts[k]]
    BY <1>2, <2>3, <2>4, Resolution
  <2>6. Billed(texts) \in Nat
    <3>1. Len(texts) \in Nat /\ DOMAIN texts = 1..Len(texts)
      BY <2>1
    <3>2. IsFiniteSet(1..Len(texts))
      BY <3>1, FS_Interval
    <3>3. {k \in DOMAIN texts : IsComputed(texts[k])} \in SUBSET (1..Len(texts))
      BY <3>1
    <3>4. IsFiniteSet({k \in DOMAIN texts : IsComputed(texts[k])})
      BY <3>2, <3>3, FS_Subset
    <3> QED
      BY <3>4, FS_CardinalityType DEF Billed
  <2>7. AnswerFor(c) = Success([k \in DOMAIN texts |-> Resolve(texts[k])], Billed(texts))
    BY DEF AnswerFor
  <2> HIDE DEF texts
  <2>8. [k \in DOMAIN texts |-> Resolve(texts[k])] = [k \in DOMAIN texts |-> Embedding[texts[k]]]
    BY <2>5
  <2>9. [k \in DOMAIN texts |-> Embedding[texts[k]]] \in Seq(Vectors)
    <3>1. Len(texts) \in Nat /\ DOMAIN texts = 1..Len(texts)
      BY <2>1
    <3>2. \A k \in 1..Len(texts) : Embedding[texts[k]] \in Vectors
      BY <2>3, <3>1, EmbedAssumption
    <3>3. [k \in 1..Len(texts) |-> Embedding[texts[k]]] \in [1..Len(texts) -> Vectors]
      BY <3>2
    <3> QED
      BY <3>1, <3>3
  <2> QED
    BY <2>1, <2>6, <2>7, <2>8, <2>9 DEF Success
<1>4. Addressees(batch) \subseteq Callers
  BY JobForCaller
<1>5. \A c \in Callers : c \in Addressees(batch) => reply'[c] = AnswerFor(c)
  BY <1>1
<1>6. \A c \in Callers : c \notin Addressees(batch) => reply'[c] = reply[c]
  BY <1>1
<1>7. reply' \in [Callers -> [status : {"none", "ok", "err"}, out : Seq(Vectors), tokens : Nat]]
  BY <1>1, <1>3, <1>5, <1>6 DEF RunTypeOK
<1>8. \A c \in Callers : pc'[c] # "idle" => reply'[c].status = "none"
  BY <1>1, <1>6 DEF ReplyInv
<1>9. OwnVectors'
  BY <1>1, <1>3, <1>5, <1>6 DEF ReplyInv, OwnVectors
<1> QED
  BY <1>7, <1>8, <1>9 DEF ReplyInv

\* The cache after the insertions: still one entry per text, still bounded,
\* still the model's vectors.
LEMMA DeliverCache ==
    ASSUME Inv, Deliver
    PROVE  CacheConsistent' /\ recency' \in Seq(Items) /\ store' \in [Items -> MaybeVec]
<1> USE DEF Inv
<1> DEFINE U == {unique[i] : i \in DOMAIN unique}
<1>1. U \in SUBSET Items /\ \A t : t \in U <=> IsComputed(t)
  BY DEF RunTypeOK, IsComputed
<1>2. PICK o \in Orderings(U) : CachePut(o)
  BY DEF Deliver
<1> HIDE DEF U
<1>3. /\ o \in Seq(Items)
      /\ \A i \in DOMAIN o : o[i] \in U
      /\ \A i, j \in DOMAIN o : o[i] = o[j] => i = j
  BY <1>1, OrderingIsSeq
<1>4. recency \in Seq(Items) /\ CacheEntries \in Nat
  BY EmbedAssumption DEF RunTypeOK, CacheEntries, AtLeastOne
<1> DEFINE used == Reverse(o) \o recency
           m == IF Len(used) < CacheEntries THEN Len(used) ELSE CacheEntries
<1>5. /\ used \in Seq(Items)
      /\ Len(o) \in Nat /\ Len(recency) \in Nat
      /\ Len(used) = Len(o) + Len(recency)
      /\ DOMAIN o = 1..Len(o) /\ DOMAIN recency = 1..Len(recency)
      /\ \A k \in 1..Len(o) : used[k] = o[Len(o) - k + 1]
      /\ \A k \in (Len(o) + 1)..(Len(o) + Len(recency)) : used[k] = recency[k - Len(o)]
  BY <1>3, <1>4, Fronted
<1>6. Kept(o) = SubSeq(used, 1, m)
  BY DEF Kept
<1> HIDE DEF used
<1>7. m \in 0..Len(used) /\ m <= CacheEntries
  BY <1>4, <1>5
<1> HIDE DEF m
<1>8. /\ Kept(o) \in Seq(Items) /\ Len(Kept(o)) = m /\ DOMAIN Kept(o) = 1..m
      /\ \A i \in 1..m : Kept(o)[i] = used[i]
  BY <1>5, <1>6, <1>7
<1>9. \A k \in 1..Len(used) :
         \/ k <= Len(o) /\ Len(o) - k + 1 \in DOMAIN o /\ used[k] = o[Len(o) - k + 1]
         \/ ~(k <= Len(o)) /\ k - Len(o) \in DOMAIN recency /\ used[k] = recency[k - Len(o)]
  BY <1>5
<1>10. \A k \in DOMAIN recency : recency[k] \notin U
  <2> SUFFICES ASSUME NEW k \in DOMAIN recency, recency[k] \in U PROVE FALSE
    OBVIOUS
  <2>1. recency[k] \in Items /\ store[recency[k]] = NoVec
    BY <1>1, <1>4 DEF CacheInv
  <2>2. store[recency[k]] = Embedding[recency[k]]
    BY <2>1 DEF CacheInv, CacheConsistent
  <2> QED
    BY <2>1, <2>2, EmbedAssumption
<1>11. \A k, l \in 1..Len(used) : used[k] = used[l] => k = l
  <2> SUFFICES ASSUME NEW k \in 1..Len(used), NEW l \in 1..Len(used), used[k] = used[l]
               PROVE  k = l
    OBVIOUS
  <2>1. CASE k <= Len(o) /\ l <= Len(o)
    <3>1. Len(o) - k + 1 = Len(o) - l + 1
      BY <2>1, <1>3, <1>9
    <3> QED
      BY <3>1, <1>5
  <2>2. CASE ~(k <= Len(o)) /\ ~(l <= Len(o))
    <3>1. k - Len(o) = l - Len(o)
      BY <2>2, <1>9 DEF CacheInv, CacheConsistent
    <3> QED
      BY <3>1, <1>5
  <2>3. CASE k <= Len(o) /\ ~(l <= Len(o))
    BY <2>3, <1>3, <1>9, <1>10
  <2>4. CASE ~(k <= Len(o)) /\ l <= Len(o)
    BY <2>4, <1>3, <1>9, <1>10
  <2> QED
    BY <2>1, <2>2, <2>3, <2>4
<1>12. /\ recency' = Kept(o)
       /\ store' = [t \in Items |->
                      IF \A i \in DOMAIN Kept(o) : Kept(o)[i] # t THEN NoVec
                      ELSE IF IsComputed(t) THEN computed[PositionOf(t)] ELSE store[t]]
  BY <1>2 DEF CachePut
<1>13. ASSUME NEW t \in Items, NEW i \in 1..m, used[i] = t
       PROVE  IF IsComputed(t) THEN computed[PositionOf(t)] = Embedding[t]
                               ELSE store[t] = Embedding[t]
  <2>1. CASE IsComputed(t)
    BY <2>1, Resolution DEF Deliver, Deliverable
  <2>2. CASE ~IsComputed(t)
    <3>1. i \in 1..Len(used)
      BY <1>5, <1>7
    <3>2. i - Len(o) \in DOMAIN recency /\ recency[i - Len(o)] = t
      BY <2>2, <3>1, <1>1, <1>3, <1>9, <1>13
    <3> QED
      BY <2>2, <3>2 DEF CacheInv, CacheConsistent
  <2> QED
    BY <2>1, <2>2
<1>14. \A t \in Items :
          store'[t] = IF \E i \in DOMAIN recency' : recency'[i] = t THEN Embedding[t] ELSE NoVec
  BY <1>8, <1>12, <1>13
<1>15. \A t \in Items : Embedding[t] \in Vectors
  BY EmbedAssumption
<1>16. store' \in [Items -> MaybeVec]
  <2>1. store' = [t \in Items |-> store'[t]]
    BY <1>12
  <2>2. \A t \in Items : store'[t] \in MaybeVec
    BY <1>14, <1>15 DEF MaybeVec
  <2> QED
    BY <2>1, <2>2
<1>17. \A i, j \in DOMAIN recency' : recency'[i] = recency'[j] => i = j
  <2>1. 1..m \subseteq 1..Len(used)
    BY <1>5, <1>7
  <2> QED
    BY <2>1, <1>8, <1>11, <1>12
<1> QED
  BY <1>7, <1>8, <1>12, <1>14, <1>16, <1>17 DEF CacheConsistent

LEMMA DeliverInvStep ==
    ASSUME Inv, Deliver
    PROVE  Inv'
<1>1. RoundEnds /\ RunForgotten /\ phase' = "recv"
  BY DEF Deliver, AnswerBatch, Reply, RoundEnds
<1>2. QueueInv'
  BY <1>1, QueueInvStep DEF QueueStep, Inv
<1>3. RunInv' /\ PlanInv' /\ RunTypeOK' /\ CacheInv' /\ ReplyInv'
  BY <1>1, ForgottenRun, DeliverReplies, DeliverCache DEF RunTypeOK, CacheInv, NoneCached
<1> QED
  BY <1>2, <1>3 DEF Inv

-----------------------------------------------------------------------------
LEMMA InvStart == Init => Inv
<1> SUFFICES ASSUME Init PROVE Inv
  OBVIOUS
<1>1. QueueInv
  BY QueueStart DEF Init
<1>2. NoReply \in [status : {"none", "ok", "err"}, out : Seq(Vectors), tokens : Nat]
      /\ NoReply.status = "none"
  BY DEF NoReply
<1>3. RunTypeOK /\ RunInv /\ PlanInv /\ ReplyInv
  BY <1>2 DEF Init, QueueInit, RunTypeOK, RunInv, PlanInv, ReplyInv, OwnVectors, NoneCached, MaybeVec
<1>4. CacheEntries \in Nat
  BY EmbedAssumption DEF CacheEntries, AtLeastOne
<1>5. CacheInv
  BY <1>4 DEF Init, CacheInv, CacheConsistent, NoneCached
<1> QED
  BY <1>1, <1>3, <1>5 DEF Inv

LEMMA InvStep == Inv /\ [Next]_vars => Inv'
<1> SUFFICES ASSUME Inv, [Next]_vars PROVE Inv'
  OBVIOUS
<1>1. CASE UNCHANGED vars
  <2>1. QueueInv'
    BY <1>1, QueueInvStep DEF vars, QueueStep, Inv
  <2>2. UNCHANGED <<pc, asked, reply, phase, batch, recency, store, cached, unique, done, computed>>
    BY <1>1 DEF vars, queueVars, cacheVars, runVars
  <2>3. RunTypeOK' /\ RunInv'
    BY <2>2 DEF Inv, RunTypeOK, RunInv
  <2>4. PlanInv' /\ CacheInv'
    BY <2>2 DEF Inv, PlanInv, TextsOf, IsComputed, CacheInv, CacheConsistent
  <2>5. ReplyInv'
    BY <2>2 DEF Inv, ReplyInv, OwnVectors
  <2> QED
    BY <2>1, <2>3, <2>4, <2>5 DEF Inv
<1> QED
  BY <1>1, CallerInvStep, CollectInvStep, PlanStep, ChunkInvStep, FailInvStep, DeliverInvStep,
     PanicInvStep DEF Next, Run

LEMMA Invariance == SafeSpec => []Inv
BY InvStart, InvStep, PTL DEF SafeSpec

\* The worker's state keeps its types.
THEOREM TypeCorrect == SafeSpec => []TypeOK
<1>1. Inv => TypeOK
  BY DEF Inv, QueueInv, RunTypeOK, TypeOK
<1> QED
  BY <1>1, Invariance, PTL

\* Every successful reply holds exactly its own request's vectors, in order,
\* however requests were batched, deduplicated, chunked, cached and cancelled,
\* and even if the engine falls short of its contract.
THEOREM RepliesAreOwn == SafeSpec => []OwnVectors
<1>1. Inv => OwnVectors
  BY DEF Inv, ReplyInv
<1> QED
  BY <1>1, Invariance, PTL

\* The LRU cache never holds a text twice, more texts than it may, or another
\* text's vector.
THEOREM CacheStaysConsistent == SafeSpec => []CacheConsistent
<1>1. Inv => CacheConsistent
  BY DEF Inv, CacheInv
<1> QED
  BY <1>1, Invariance, PTL

\* A waiting caller has exactly one request in the system.
THEOREM NoRequestLost == SafeSpec => []OneJobPerCaller
<1>1. Inv => OneJobPerCaller
  BY DEF Inv, QueueInv
<1> QED
  BY <1>1, Invariance, PTL

\* A collection round is bounded by what the sessions can run, and the channel
\* by its capacity.
THEOREM RoundsAreBounded == SafeSpec => []BatchBounded
<1>1. Init => BatchBounded
  <2>1. Capacity \in Nat
    BY Limits
  <2> QED
    BY <2>1 DEF Init, QueueInit, BatchBounded
<1>2. [Next]_vars => QueueStep
  BY DEF Next, CallerStep, CollectStep, Plan, Run, ChunkDone, BatchFails, Deliver, RunPanics,
         AnswerBatch, Reply, RoundEnds, QueueStep, vars
<1>3. Inv /\ BatchBounded /\ [Next]_vars => BatchBounded'
  BY <1>2, BoundStep DEF Inv
<1> QED
  BY <1>1, <1>3, Invariance, PTL DEF SafeSpec

\* No batch panics the worker unless the engine returned fewer vectors than
\* texts, and with an engine that never does the worker never stops: the
\* position of a text always has a vector, and its cache entry was taken before
\* the batch could evict it.
THEOREM WorkerNeverPanics == SafeSpec => WorkerSurvives /\ [](~EngineMayFallShort => phase # "stopped")
<1> DEFINE Runs == ~EngineMayFallShort => phase # "stopped"
           Panic == phase # "stopped" /\ phase' = "stopped"
<1>1. Init => Runs
  BY DEF Init, QueueInit
<1>2. ASSUME Inv, [Next]_vars, Panic
      PROVE  Len(computed) < Len(unique) /\ EngineMayFallShort
  <2>1. RunPanics
    BY <1>2 DEF Next, CallerStep, Submit, Enqueue, SendFails, Cancel, CollectStep,
                RecvFirst, CollectMore, Plan, WindowCloses, Run, ChunkDone, BatchFails, Deliver,
                AnswerBatch, vars, queueVars
  <2>2. phase = "run" /\ done = Len(unique) /\ ~Deliverable
    BY <2>1 DEF RunPanics, WorkerDies
  <2>3. ~(Len(unique) <= Len(computed))
    BY <1>2, <2>2 DEF Deliverable, Inv, PlanInv
  <2>4. Len(computed) \in Nat /\ Len(unique) \in Nat
    BY <1>2 DEF Inv, RunTypeOK
  <2>5. EngineMayFallShort
    <3> SUFFICES ASSUME ~EngineMayFallShort PROVE FALSE
      OBVIOUS
    <3>1. Len(computed) = Len(unique)
      BY <1>2, <2>2 DEF Inv, RunInv
    <3> QED
      BY <2>3, <2>4, <3>1
  <2> QED
    BY <2>3, <2>4, <2>5
<1>3. Inv /\ [Next]_vars => [Panic => Len(computed) < Len(unique)]_vars
  BY <1>2
<1>4. Inv /\ Runs /\ [Next]_vars => Runs'
  BY <1>2
<1> QED
  BY <1>1, <1>3, <1>4, Invariance, PTL DEF SafeSpec, WorkerSurvives

\* Waiting callers of the embed worker never pass one another: not in the
\* channel, not in the batch, and no reply of a batch is sent without those of
\* the requests ahead of it.
THEOREM NobodyOvertakes == SafeSpec => NoOvertaking
<1>1. Inv /\ [Next]_vars =>
         [\A c, d \in Callers :
             Ahead(d, c) =>
                 /\ reply'[c] # reply[c] => reply'[d] # reply[d]
                 /\ pc'[c] = "waiting" /\ pc'[d] = "waiting" => Ahead(d, c)']_queueVars
  <2> SUFFICES ASSUME Inv, [Next]_vars, NEW c \in Callers, NEW d \in Callers, Ahead(d, c)
               PROVE  /\ reply'[c] # reply[c] => reply'[d] # reply[d]
                      /\ pc'[c] = "waiting" /\ pc'[d] = "waiting" => Ahead(d, c)'
    OBVIOUS
  <2>1. QueueStep
    BY DEF Next, CallerStep, CollectStep, Plan, Run, ChunkDone, BatchFails, Deliver, RunPanics,
           AnswerBatch, Reply, RoundEnds, QueueStep, vars
  <2>2. pc'[c] = "waiting" /\ pc'[d] = "waiting" => Ahead(d, c)'
    BY <2>1, OrderStep DEF Inv
  <2>3. ASSUME reply'[c] # reply[c] PROVE reply'[d] # reply[d]
    <3>1. /\ pc[c] = "waiting" /\ pc[d] = "waiting" /\ Position(d) < Position(c)
          /\ reply[d].status = "none" /\ QueueTypeOK
      BY DEF Ahead, Inv, ReplyInv, QueueInv
    <3>2. /\ Position(c) \in DOMAIN Line /\ Line[Position(c)].to = c
          /\ Position(d) \in DOMAIN Line /\ Line[Position(d)].to = d
          /\ \A i \in DOMAIN Line : Line[i].to = c => i = Position(c)
      BY <3>1, PlaceOf DEF Inv, QueueInv
    <3>3. CASE BatchFails \/ Deliver
      <4>1. /\ c \in Addressees(batch)
            /\ d \in Addressees(batch) => reply'[d].status # "none"
        <5>1. CASE BatchFails
          <6>1. reply' = [x \in Callers |-> IF x \in Addressees(batch) THEN Failure ELSE reply[x]]
            BY <5>1 DEF BatchFails, AnswerBatch, Reply
          <6> QED
            BY <2>3, <6>1 DEF Failure
        <5>2. CASE Deliver
          <6>1. /\ \A x \in Callers : x \notin Addressees(batch) => reply'[x] = reply[x]
                /\ \A x \in Callers : x \in Addressees(batch) => reply'[x] = AnswerFor(x)
            BY <5>2 DEF Deliver, AnswerBatch, Reply
          <6>2. AnswerFor(d).status = "ok"
            <7>1. \A out, tokens : Success(out, tokens).status = "ok"
              BY DEF Success
            <7> QED
              BY <7>1 DEF AnswerFor
          <6> QED
            BY <2>3, <6>1, <6>2
        <5> QED
          BY <3>3, <5>1, <5>2
      <4>2. PICK i \in DOMAIN batch : batch[i].to = c
        BY <4>1 DEF Addressees
      <4>3. i = Position(c)
        BY <3>1, <3>2, <4>2, LineAt
      <4>4. Position(d) \in DOMAIN batch /\ batch[Position(d)].to = d
        BY <3>1, <3>2, <4>3, LineAt DEF QueueTypeOK
      <4>5. d \in Addressees(batch)
        BY <4>4, QueueAssumption DEF Addressees
      <4> QED
        BY <3>1, <4>1, <4>5
    <3>4. CASE RunPanics
      <4>1. \/ \E i \in DOMAIN batch : batch[i].to = d
            \/ \E i \in DOMAIN queue : queue[i].to = d
        <5>1. /\ Position(d) \in 1..(Len(batch) + Len(queue))
              /\ Line[Position(d)] = IF Position(d) <= Len(batch) THEN batch[Position(d)]
                                     ELSE queue[Position(d) - Len(batch)]
          BY <3>1, <3>2, LineAt
        <5>2. /\ DOMAIN batch = 1..Len(batch) /\ DOMAIN queue = 1..Len(queue)
              /\ Len(batch) \in Nat /\ Len(queue) \in Nat
          BY <3>1 DEF QueueTypeOK
        <5>3. CASE Position(d) <= Len(batch)
          BY <3>2, <5>1, <5>2, <5>3
        <5>4. CASE ~(Position(d) <= Len(batch))
          <6>1. Position(d) - Len(batch) \in DOMAIN queue
            BY <5>1, <5>2, <5>4
          <6> QED
            BY <3>2, <5>1, <5>4, <6>1
        <5> QED
          BY <5>3, <5>4
      <4>2. d \in Addressees(batch) \union Addressees(queue)
        BY <4>1, QueueAssumption DEF Addressees
      <4>3. reply'[d] = Failure /\ Failure.status = "err"
        BY <3>4, <4>2 DEF RunPanics, WorkerDies, Reply, Failure
      <4> QED
        BY <3>1, <4>3
    <3>5. CASE ~BatchFails /\ ~Deliver /\ ~RunPanics
      <4>1. \/ reply' = reply
            \/ \E e \in Callers : pc[e] # "waiting" /\ \A x \in Callers : x # e => reply'[x] = reply[x]
        BY <3>5 DEF Next, CallerStep, Submit, Enqueue, SendFails, Cancel, CollectStep, RecvFirst,
                    CollectMore, Plan, WindowCloses, Run, ChunkDone, callerVars, queueVars, vars,
                    Inv, RunTypeOK
      <4> QED
        BY <2>3, <3>1, <4>1
    <3> QED
      BY <3>3, <3>4, <3>5
  <2> QED
    BY <2>2, <2>3
<1> QED
  BY <1>1, Invariance, PTL DEF SafeSpec, NoOvertaking

-----------------------------------------------------------------------------
\* While a batch runs, what it found is still in the cache, in front of
\* everything it did not ask for.
HitInv ==
    phase = "run" =>
        /\ \A t \in Items : cached[t] # NoVec => store[t] # NoVec
        /\ \A i, j \in DOMAIN recency :
              cached[recency[i]] = NoVec /\ cached[recency[j]] # NoVec => j < i

\* Reading moves the hits to the front.
LEMMA TouchStep ==
    ASSUME Inv, Plan
    PROVE  HitInv'
<1>1. store' = store /\ cached' = [t \in Items |-> IF t \in Hits THEN store[t] ELSE NoVec]
  BY DEF Plan
<1>2. PICK found \in Orderings(Hits), rest \in Orderings(Remembered \ Hits) :
         recency' = Reverse(found) \o rest
  BY DEF Plan, Touch
<1>3. Hits \in SUBSET Items /\ Remembered \ Hits \in SUBSET Items
  BY TextsAreItems DEF Inv, QueueInv, Remembered, RunTypeOK
<1>4. found \in Seq(Items) /\ \A i \in DOMAIN found : found[i] \in Hits
  BY <1>3, OrderingIsSeq
<1>5. rest \in Seq(Items) /\ \A i \in DOMAIN rest : rest[i] \notin Hits /\ rest[i] \in Items
  <2> DEFINE Rest == Remembered \ Hits
  <2>1. Rest \in SUBSET Items /\ rest \in Orderings(Rest)
    BY <1>3
  <2>2. \A t \in Rest : t \notin Hits /\ t \in Items
    BY <1>3
  <2> HIDE DEF Rest
  <2>3. rest \in Seq(Items) /\ \A i \in DOMAIN rest : rest[i] \in Rest
    BY <2>1, OrderingIsSeq
  <2> QED
    BY <2>2, <2>3
<1>6. PICK n \in Nat : \A k \in DOMAIN recency' :
         /\ k \in Nat
         /\ k <= n => recency'[k] \in Hits
         /\ ~(k <= n) => recency'[k] \notin Hits /\ recency'[k] \in Items
  <2> DEFINE w == Reverse(found) \o rest
  <2>1. /\ Len(found) \in Nat /\ Len(rest) \in Nat
        /\ DOMAIN found = 1..Len(found) /\ DOMAIN rest = 1..Len(rest)
        /\ DOMAIN w = 1..(Len(found) + Len(rest))
        /\ \A k \in 1..Len(found) : w[k] = found[Len(found) - k + 1]
        /\ \A k \in (Len(found) + 1)..(Len(found) + Len(rest)) : w[k] = rest[k - Len(found)]
    BY <1>4, <1>5, Fronted
  <2> HIDE DEF w
  <2>2. ASSUME NEW k \in DOMAIN w, k <= Len(found) PROVE w[k] \in Hits
    <3>1. k \in 1..Len(found) /\ Len(found) - k + 1 \in DOMAIN found
      BY <2>1, <2>2
    <3> QED
      BY <1>4, <2>1, <3>1
  <2>3. ASSUME NEW k \in DOMAIN w, ~(k <= Len(found)) PROVE w[k] \notin Hits /\ w[k] \in Items
    <3>1. k \in (Len(found) + 1)..(Len(found) + Len(rest)) /\ k - Len(found) \in DOMAIN rest
      BY <2>1, <2>3
    <3> QED
      BY <1>5, <2>1, <3>1
  <2>4. recency' = w /\ \A k \in DOMAIN w : k \in Nat
    BY <1>2, <2>1 DEF w
  <2> QED
    BY <2>1, <2>2, <2>3, <2>4
<1>7. \A t \in Items : cached'[t] # NoVec <=> t \in Hits
  BY <1>1 DEF Hits
<1>8. \A k \in DOMAIN recency' : k \in Nat /\ (cached'[recency'[k]] # NoVec <=> k <= n)
  BY <1>3, <1>6, <1>7
<1>9. \A t \in Items : cached'[t] # NoVec => store'[t] # NoVec
  BY <1>1
<1>10. \A i, j \in DOMAIN recency' :
          cached'[recency'[i]] = NoVec /\ cached'[recency'[j]] # NoVec => j < i
  BY <1>8
<1> QED
  BY <1>9, <1>10 DEF HitInv

LEMMA HitStep == Inv /\ HitInv /\ [Next]_vars => HitInv'
<1> SUFFICES ASSUME Inv, HitInv, [Next]_vars PROVE HitInv'
  OBVIOUS
<1>1. ASSUME NEW c \in Callers, CallerStep(c) PROVE HitInv'
  BY <1>1 DEF CallerStep, Submit, Enqueue, SendFails, Cancel, cacheVars, runVars, HitInv
<1>2. CASE ChunkDone \/ UNCHANGED vars
  BY <1>2 DEF ChunkDone, queueVars, cacheVars, runVars, vars, HitInv
<1>3. CASE CollectStep \/ BatchFails \/ Deliver \/ RunPanics
  <2>1. phase' # "run"
    BY <1>3 DEF CollectStep, RecvFirst, CollectMore, BatchFails, Deliver, RunPanics, AnswerBatch,
                WorkerDies
  <2> QED
    BY <2>1 DEF HitInv
<1> QED
  BY <1>1, <1>2, <1>3, TouchStep DEF Next, Run

\* What is kept of a cache after insertions, place by place.
LEMMA KeptPlaces ==
    ASSUME NEW o \in Seq(Items), recency \in Seq(Items)
    PROVE  \E m \in Nat :
              /\ DOMAIN Kept(o) = 1..m /\ m <= Len(o) + Len(recency)
              /\ \A i \in 1..m : i <= Len(o) => Kept(o)[i] = o[Len(o) - i + 1]
              /\ \A i \in 1..m : ~(i <= Len(o)) =>
                    i - Len(o) \in DOMAIN recency /\ Kept(o)[i] = recency[i - Len(o)]
<1> DEFINE used == Reverse(o) \o recency
           m == IF Len(used) < CacheEntries THEN Len(used) ELSE CacheEntries
<1>1. CacheEntries \in Nat
  BY EmbedAssumption DEF CacheEntries, AtLeastOne
<1>2. /\ used \in Seq(Items)
      /\ Len(o) \in Nat /\ Len(recency) \in Nat
      /\ Len(used) = Len(o) + Len(recency)
      /\ DOMAIN recency = 1..Len(recency)
      /\ \A k \in 1..Len(o) : used[k] = o[Len(o) - k + 1]
      /\ \A k \in (Len(o) + 1)..(Len(o) + Len(recency)) : used[k] = recency[k - Len(o)]
  BY Fronted
<1>3. Kept(o) = SubSeq(used, 1, m)
  BY DEF Kept
<1> HIDE DEF used
<1>4. m \in 0..Len(used)
  BY <1>1, <1>2
<1> HIDE DEF m
<1>5. DOMAIN Kept(o) = 1..m /\ \A i \in 1..m : Kept(o)[i] = used[i]
  BY <1>2, <1>3, <1>4
<1>6. m \in Nat /\ m <= Len(o) + Len(recency)
  BY <1>2, <1>4
<1>7. ASSUME NEW i \in 1..m, i <= Len(o) PROVE Kept(o)[i] = o[Len(o) - i + 1]
  BY <1>2, <1>5, <1>6, <1>7
<1>8. ASSUME NEW i \in 1..m, ~(i <= Len(o))
      PROVE  i - Len(o) \in DOMAIN recency /\ Kept(o)[i] = recency[i - Len(o)]
  <2>1. i \in (Len(o) + 1)..(Len(o) + Len(recency)) /\ i - Len(o) \in DOMAIN recency
    BY <1>2, <1>6, <1>8
  <2> QED
    BY <1>2, <1>5, <2>1
<1> QED
  BY <1>5, <1>6, <1>7, <1>8

\* An entry the batch did not use survives only behind everything it used.
LEMMA EvictionOrder ==
    ASSUME Inv, HitInv, Deliver, NEW t \in Items, NEW u \in Items,
           cached[t] # NoVec, cached[u] = NoVec, store[u] # NoVec, store'[u] # NoVec
    PROVE  store'[t] # NoVec
<1> DEFINE U == {unique[i] : i \in DOMAIN unique}
<1>1. U \in SUBSET Items /\ \A x : x \in U <=> IsComputed(x)
  BY DEF Inv, RunTypeOK, IsComputed
<1>2. PICK o \in Orderings(U) : CachePut(o)
  BY DEF Deliver
<1> HIDE DEF U
<1>3. o \in Seq(Items) /\ DOMAIN o = 1..Len(o) /\ \A i \in DOMAIN o : o[i] \in U
  BY <1>1, OrderingIsSeq
<1>4. recency \in Seq(Items) /\ DOMAIN recency = 1..Len(recency) /\ Len(o) \in Nat
      /\ Len(recency) \in Nat
  BY <1>3 DEF Inv, RunTypeOK
<1>5. PICK m \in Nat :
         /\ DOMAIN Kept(o) = 1..m /\ m <= Len(o) + Len(recency)
         /\ \A i \in 1..m : i <= Len(o) => Kept(o)[i] = o[Len(o) - i + 1]
         /\ \A i \in 1..m : ~(i <= Len(o)) =>
               i - Len(o) \in DOMAIN recency /\ Kept(o)[i] = recency[i - Len(o)]
  BY <1>3, <1>4, KeptPlaces
<1>6. phase = "run" /\ store[t] # NoVec
  BY DEF Deliver, AnswerBatch, HitInv
<1>7. PICK k \in 1..m : Kept(o)[k] = u
  BY <1>2, <1>5 DEF CachePut
<1>8. ~(k <= Len(o))
  <2> SUFFICES ASSUME k <= Len(o) PROVE FALSE
    OBVIOUS
  <2>1. Len(o) - k + 1 \in DOMAIN o
    BY <1>3, <1>4
  <2>2. u \in U
    BY <1>3, <1>5, <1>7, <2>1
  <2> QED
    BY <1>1, <2>2 DEF Inv, CacheInv
<1>9. k - Len(o) \in DOMAIN recency /\ recency[k - Len(o)] = u
  BY <1>5, <1>7, <1>8
<1>10. PICK j \in DOMAIN recency : recency[j] = t
  BY <1>6 DEF Inv, CacheInv, CacheConsistent
<1>11. j < k - Len(o)
  BY <1>6, <1>9, <1>10 DEF HitInv
<1>12. Len(o) + j \in 1..m /\ ~(Len(o) + j <= Len(o)) /\ (Len(o) + j) - Len(o) = j
  BY <1>4, <1>10, <1>11
<1>13. Kept(o)[Len(o) + j] = t
  BY <1>5, <1>10, <1>12
<1>14. CacheConsistent'
  BY DeliverCache
<1>15. recency' = Kept(o)
  BY <1>2 DEF CachePut
<1>16. store'[t] = Embedding[t] /\ Embedding[t] \in Vectors
  BY <1>5, <1>12, <1>13, <1>14, <1>15, EmbedAssumption DEF CacheConsistent
<1> QED
  BY <1>16, EmbedAssumption

\* What a batch read from the cache is evicted after everything it did not use,
\* for any cache size and any requests: get refreshes recency before put evicts.
THEOREM HitsAreEvictedLast == SafeSpec => HitsOutliveIdleEntries
<1>1. Init => HitInv
  BY DEF Init, QueueInit, HitInv
<1>2. Inv /\ HitInv /\ [Next]_vars =>
         [\A t, u \in Items :
             /\ phase = "run" /\ phase' = "recv"
             /\ cached[t] # NoVec
             /\ cached[u] = NoVec /\ store[u] # NoVec
             /\ store'[u] # NoVec
             => store'[t] # NoVec]_vars
  <2> SUFFICES ASSUME Inv, HitInv, [Next]_vars, NEW t \in Items, NEW u \in Items,
                      phase = "run", phase' = "recv", cached[t] # NoVec,
                      cached[u] = NoVec, store[u] # NoVec, store'[u] # NoVec
               PROVE  store'[t] # NoVec
    OBVIOUS
  <2>1. BatchFails \/ Deliver
    BY DEF Next, CallerStep, Submit, Enqueue, SendFails, Cancel, CollectStep, RecvFirst, CollectMore,
           Plan, WindowCloses, Run, ChunkDone, RunPanics, WorkerDies, queueVars, vars
  <2>2. CASE BatchFails
    BY <2>2 DEF BatchFails, cacheVars, HitInv
  <2> QED
    BY <2>1, <2>2, EvictionOrder
<1> QED
  BY <1>1, <1>2, HitStep, Invariance, PTL DEF SafeSpec, HitsOutliveIdleEntries

-----------------------------------------------------------------------------
\* What a caller sees of the worker's state.
Waiting == {c \in Callers : pc[c] # "idle"}
Seen    == [c \in Callers |-> [status |-> reply[c].status, out |-> reply[c].out]]

\* A step no caller sees.
LEMMA UnseenStep ==
    ASSUME \A c \in Callers : pc'[c] # "idle" <=> pc[c] # "idle", UNCHANGED <<asked, reply>>
    PROVE  UNCHANGED Service!vars
<1>1. Waiting' = Waiting /\ Seen' = Seen
  BY DEF Waiting, Seen
<1> QED
  BY <1>1 DEF Waiting, Seen, Service!vars

\* Answering the callers of S, all of them with an error or each with its own
\* results, is one answer of the service.
LEMMA AnswerStep ==
    ASSUME NEW S \in SUBSET Waiting,
           \A c \in Callers : pc'[c] = IF c \in S THEN "idle" ELSE pc[c],
           \A c \in Callers \ S : reply'[c] = reply[c],
           asked' = asked,
           \/ \A c \in S : reply'[c].status = "err" /\ reply'[c].out = <<>>
           \/ \A c \in S : /\ reply'[c].status = "ok"
                           /\ reply'[c].out = [k \in DOMAIN asked[c] |-> Embedding[asked[c][k]]]
    PROVE  [Service!Next]_(Service!vars)
<1>1. Waiting' = Waiting \ S
  BY DEF Waiting
<1>2. S \subseteq Callers
  BY DEF Waiting
<1>3. CASE S = {}
  <2>1. \A c \in Callers : pc'[c] = pc[c] /\ reply'[c] = reply[c]
    BY <1>3
  <2>2. Waiting' = Waiting /\ Seen' = Seen
    BY <2>1 DEF Waiting, Seen
  <2> QED
    BY <2>2 DEF Waiting, Seen, Service!vars
<1>4. CASE S # {} /\ \A c \in S : reply'[c].status = "err" /\ reply'[c].out = <<>>
  <2>1. Seen' = [c \in Callers |-> IF c \in S THEN Service!Error ELSE Seen[c]]
    BY <1>4 DEF Seen, Service!Error
  <2>2. Service!Answer(S)
    BY <1>1, <1>4, <2>1 DEF Service!Answer, Waiting, Seen
  <2> QED
    BY <2>2 DEF Service!Next, Waiting
<1>5. CASE /\ S # {}
           /\ \A c \in S : /\ reply'[c].status = "ok"
                           /\ reply'[c].out = [k \in DOMAIN asked[c] |-> Embedding[asked[c][k]]]
  <2>1. Seen' = [c \in Callers |-> IF c \in S THEN Service!Results(asked[c]) ELSE Seen[c]]
    BY <1>5 DEF Seen, Service!Results
  <2>2. Service!Answer(S)
    BY <1>1, <1>5, <2>1 DEF Service!Answer, Waiting, Seen
  <2> QED
    BY <2>2 DEF Service!Next, Waiting
<1> QED
  BY <1>3, <1>4, <1>5

LEMMA SubmitSimulates ==
    ASSUME Inv, NEW c \in Callers, NEW p \in Payloads, Submit(c, p)
    PROVE  Service!Next
<1>1. /\ pc \in [Callers -> {"idle", "sending", "waiting"}]
      /\ pc[c] = "idle" /\ pc' = [pc EXCEPT ![c] = "sending"]
      /\ reply' = [reply EXCEPT ![c] = NoReply]
      /\ asked' = [asked EXCEPT ![c] = p]
  BY DEF Submit, Inv, QueueInv, QueueTypeOK
<1>2. DOMAIN reply = Callers
  BY DEF Inv, RunTypeOK
<1>3. c \notin Waiting /\ Waiting' = Waiting \union {c}
  BY <1>1 DEF Waiting
<1>4. Seen' = [Seen EXCEPT ![c] = Service!None]
  <2>1. \A d \in Callers : reply'[d] = IF d = c THEN NoReply ELSE reply[d]
    BY <1>1, <1>2
  <2>2. NoReply.status = "none" /\ NoReply.out = <<>>
    BY DEF NoReply
  <2> QED
    BY <2>1, <2>2 DEF Seen, Service!None
<1>5. Service!Ask(c, p)
  BY <1>1, <1>3, <1>4 DEF Service!Ask, Waiting, Seen
<1> QED
  BY <1>5 DEF Service!Next

LEMMA CancelSimulates ==
    ASSUME Inv, NEW c \in Callers, Cancel(c)
    PROVE  Service!Next
<1>1. /\ pc \in [Callers -> {"idle", "sending", "waiting"}]
      /\ pc[c] # "idle" /\ pc' = [pc EXCEPT ![c] = "idle"]
      /\ reply' = reply /\ asked' = [asked EXCEPT ![c] = <<>>]
  BY DEF Cancel, Inv, QueueInv, QueueTypeOK
<1>2. c \in Waiting /\ Waiting' = Waiting \ {c}
  BY <1>1 DEF Waiting
<1>3. Seen' = Seen
  BY <1>1 DEF Seen
<1>4. Service!Abandon(c)
  BY <1>1, <1>2, <1>3 DEF Service!Abandon, Waiting, Seen
<1> QED
  BY <1>4 DEF Service!Next

\* A send that finds the worker gone is answered with an error.
LEMMA SendFailsSimulates ==
    ASSUME Inv, NEW c \in Callers, SendFails(c)
    PROVE  [Service!Next]_(Service!vars)
<1>1. /\ pc \in [Callers -> {"idle", "sending", "waiting"}]
      /\ pc[c] = "sending" /\ pc' = [pc EXCEPT ![c] = "idle"]
      /\ reply' = [reply EXCEPT ![c] = Failure] /\ asked' = asked
  BY DEF SendFails, Inv, QueueInv, QueueTypeOK
<1>2. DOMAIN reply = Callers /\ Failure.status = "err" /\ Failure.out = <<>>
  BY DEF Inv, RunTypeOK, Failure
<1>3. {c} \in SUBSET Waiting
  BY <1>1 DEF Waiting
<1>4. /\ \A d \in Callers : pc'[d] = IF d \in {c} THEN "idle" ELSE pc[d]
      /\ \A d \in Callers \ {c} : reply'[d] = reply[d]
      /\ \A d \in {c} : reply'[d].status = "err" /\ reply'[d].out = <<>>
  BY <1>1, <1>2
<1> QED
  BY <1>1, <1>3, <1>4, AnswerStep

\* Whom the worker can answer waits for it.
LEMMA AddresseesWait ==
    ASSUME Inv
    PROVE  Addressees(batch) \in SUBSET Waiting /\ Addressees(queue) \in SUBSET Waiting
<1>1. /\ \A i \in DOMAIN batch : i \in DOMAIN Line /\ Line[i] = batch[i]
      /\ \A i \in DOMAIN queue : i + Len(batch) \in DOMAIN Line /\ Line[i + Len(batch)] = queue[i]
  BY LineAt DEF Inv, QueueInv
<1>2. Addressees(batch) \subseteq Callers /\ Addressees(queue) \subseteq Callers
  BY AddresseesAreCallers DEF Inv, QueueInv, QueueTypeOK
<1>3. \A i \in DOMAIN batch : batch[i].to \in Callers => pc[batch[i].to] = "waiting"
  BY <1>1 DEF Inv, QueueInv, OneJobPerCaller
<1>4. \A i \in DOMAIN queue : queue[i].to \in Callers => pc[queue[i].to] = "waiting"
  BY <1>1 DEF Inv, QueueInv, OneJobPerCaller
<1> QED
  BY <1>2, <1>3, <1>4 DEF Addressees, Waiting

\* An error for a batch, or for everything the worker had when it panicked, is
\* one answer.
LEMMA ErrorSimulates ==
    ASSUME Inv, BatchFails \/ RunPanics
    PROVE  [Service!Next]_(Service!vars)
<1>1. Failure.status = "err" /\ Failure.out = <<>>
  BY DEF Failure
<1>2. PICK S \in SUBSET Waiting :
         /\ \A c \in Callers : pc'[c] = IF c \in S THEN "idle" ELSE pc[c]
         /\ \A c \in Callers : reply'[c] = IF c \in S THEN Failure ELSE reply[c]
         /\ asked' = asked
  <2>1. CASE BatchFails
    <3> DEFINE T == Addressees(batch)
    <3>1. /\ \A c \in Callers : pc'[c] = IF c \in T THEN "idle" ELSE pc[c]
          /\ \A c \in Callers : reply'[c] = IF c \in T THEN Failure ELSE reply[c]
          /\ asked' = asked
      BY <2>1 DEF BatchFails, AnswerBatch, Reply
    <3> QED
      BY <3>1, AddresseesWait
  <2>2. CASE RunPanics
    <3> DEFINE T == Addressees(batch) \union Addressees(queue)
    <3>1. /\ \A c \in Callers : pc'[c] = IF c \in T THEN "idle" ELSE pc[c]
          /\ \A c \in Callers : reply'[c] = IF c \in T THEN Failure ELSE reply[c]
          /\ asked' = asked
      BY <2>2 DEF RunPanics, WorkerDies, Reply
    <3>2. T \in SUBSET Waiting
      BY AddresseesWait
    <3> QED
      BY <3>1, <3>2
  <2> QED
    BY <2>1, <2>2
<1>3. S \subseteq Callers
  BY DEF Waiting
<1>4. /\ \A c \in Callers \ S : reply'[c] = reply[c]
      /\ \A c \in S : reply'[c].status = "err" /\ reply'[c].out = <<>>
  BY <1>1, <1>2, <1>3
<1> QED
  BY <1>2, <1>4, AnswerStep

LEMMA DeliverSimulates ==
    ASSUME Inv, Deliver
    PROVE  [Service!Next]_(Service!vars)
<1> DEFINE S == Addressees(batch)
<1>1. S \in SUBSET Waiting /\ S \subseteq Callers
  BY AddresseesWait DEF Waiting
<1>2. /\ asked' = asked
      /\ \A c \in Callers : pc'[c] = IF c \in S THEN "idle" ELSE pc[c]
      /\ \A c \in Callers \ S : reply'[c] = reply[c]
      /\ \A c \in S : reply'[c] = AnswerFor(c)
  BY <1>1 DEF Deliver, AnswerBatch, Reply
<1>3. ASSUME NEW c \in S PROVE reply'[c].status = "ok"
  <2>1. AnswerFor(c).status = "ok"
    <3>1. \A out, tokens : Success(out, tokens).status = "ok"
      BY DEF Success
    <3> QED
      BY <3>1 DEF AnswerFor
  <2> QED
    BY <1>2, <2>1
<1>4. OwnVectors'
  BY DeliverReplies DEF ReplyInv
<1> HIDE DEF S
<1>5. \A c \in S : reply'[c].out = [k \in DOMAIN asked[c] |-> Embedding[asked[c][k]]]
  BY <1>1, <1>2, <1>3, <1>4 DEF OwnVectors
<1> QED
  BY <1>1, <1>2, <1>3, <1>5, AnswerStep

\* Every step of the embed worker and of its callers, panics included, is a step
\* of ModelService or none its callers see.
THEOREM ImplementsService == SafeSpec => Service!SafeSpec
<1>1. Init => Service!Init
  <2> SUFFICES ASSUME Init PROVE Service!Init
    OBVIOUS
  <2>1. Waiting = {}
    BY DEF Init, QueueInit, Waiting
  <2>2. Seen = [c \in Callers |-> Service!None]
    BY DEF Init, QueueInit, Seen, NoReply, Service!None
  <2> QED
    BY <2>1, <2>2 DEF Init, QueueInit, Waiting, Seen, Service!Init
<1>2. Inv /\ [Next]_vars => [Service!Next]_(Service!vars)
  <2> SUFFICES ASSUME Inv, [Next]_vars PROVE [Service!Next]_(Service!vars)
    OBVIOUS
  <2>1. ASSUME NEW c \in Callers, Enqueue(c) PROVE [Service!Next]_(Service!vars)
    <3>1. /\ pc[c] = "sending" /\ pc' = [pc EXCEPT ![c] = "waiting"]
          /\ UNCHANGED <<asked, reply>>
      BY <2>1 DEF Enqueue
    <3>2. pc \in [Callers -> {"idle", "sending", "waiting"}]
      BY DEF Inv, QueueInv, QueueTypeOK
    <3>3. \A d \in Callers : pc'[d] # "idle" <=> pc[d] # "idle"
      BY <3>1, <3>2
    <3> QED
      BY <3>1, <3>3, UnseenStep
  <2>2. ASSUME NEW c \in Callers, CallerStep(c) PROVE [Service!Next]_(Service!vars)
    <3>1. \/ \E p \in Payloads : Submit(c, p)
          \/ Enqueue(c) \/ SendFails(c) \/ Cancel(c)
      BY <2>2 DEF CallerStep
    <3> QED
      BY <2>1, <3>1, SubmitSimulates, SendFailsSimulates, CancelSimulates
  <2>3. CASE CollectStep \/ Plan \/ ChunkDone \/ UNCHANGED vars
    <3>1. UNCHANGED <<pc, asked, reply>>
      BY <2>3 DEF CollectStep, RecvFirst, CollectMore, Plan, WindowCloses, ChunkDone,
                  queueVars, callerVars, vars
    <3> QED
      BY <3>1, UnseenStep
  <2> QED
    BY <2>2, <2>3, ErrorSimulates, DeliverSimulates DEF Next, Run
<1> QED
  BY <1>1, <1>2, Invariance, PTL DEF SafeSpec, Service!SafeSpec
=============================================================================
