----------------------------- MODULE EmbedWorker -----------------------------
(***************************************************************************)
(* embed_worker of dispatcher.rs: deduplication of the texts of a batch,   *)
(* the LRU cache read before the model runs, the chunks of the run, the    *)
(* cache update and the replies.                                           *)
(*                                                                         *)
(* run_chunks appears here through what it promises (ChunkRunner shows it):*)
(* chunk results arrive in chunk order, or the batch fails as a whole.     *)
(***************************************************************************)
EXTENDS JobQueue, SequencesExt

CONSTANTS
    Vectors,             \* what the model can return for a text
    NoVec,               \* no vector: not in the cache
    Embedding,           \* Embedding[t]: what the model returns for text t
    CacheSetting,        \* cache_entries as configured, 0 included
    EngineMayFallShort   \* may the engine return fewer vectors than texts?

ASSUME EmbedAssumption ==
    /\ IsFiniteSet(Items)
    /\ NoVec \notin Vectors
    /\ Embedding \in [Items -> Vectors]
    /\ CacheSetting \in Nat
    /\ EngineMayFallShort \in BOOLEAN

CacheEntries == AtLeastOne(CacheSetting)

VARIABLES
    recency,    \* the texts in the LRU cache, most recently used first
    store,      \* store[t]: the vector cached for t
    cached,     \* cached[t]: the vector this batch took from the cache up front
    unique,     \* the texts this batch must compute, in first-seen order
    done,       \* how many of them have gone through the model
    computed    \* the vectors that came back for them

cacheVars == <<recency, store>>
runVars   == <<cached, unique, done, computed>>
vars      == <<queueVars, cacheVars, runVars>>

NoneCached == [t \in Items |-> NoVec]

Init ==
    /\ QueueInit
    /\ recency = <<>>
    /\ store = NoneCached
    /\ cached = NoneCached
    /\ unique = <<>>
    /\ done = 0
    /\ computed = <<>>

-----------------------------------------------------------------------------
\* Planning a batch (the loop over its jobs before the model runs).

TextsOf(jobs) == UNION {{jobs[i].items[k] : k \in DOMAIN jobs[i].items} : i \in DOMAIN jobs}

Hits   == {t \in TextsOf(batch) : store[t] # NoVec}
Misses == TextsOf(batch) \ Hits

\* t is first seen before u when going through the batch job by job.
SeenBefore(t, u) ==
    \E i \in DOMAIN batch : \E k \in DOMAIN batch[i].items :
        /\ batch[i].items[k] = t
        /\ \A m \in 1..k : batch[i].items[m] # u
        /\ \A j \in 1..(i - 1) : \A m \in DOMAIN batch[j].items : batch[j].items[m] # u

Orderings(S) ==
    {o \in [1..Cardinality(S) -> S] :
        /\ \A t \in S : \E i \in DOMAIN o : o[i] = t
        /\ \A i, j \in DOMAIN o : o[i] = o[j] => i = j}

FirstSeenOrder(o) == \A i, j \in DOMAIN o : i < j => SeenBefore(o[i], o[j])

Remembered == {recency[i] : i \in DOMAIN recency}

SameOrder(o) ==
    \A i, j \in DOMAIN o : i < j =>
        \E k, l \in DOMAIN recency : k < l /\ recency[k] = o[i] /\ recency[l] = o[j]

\* Slip: LruCache::peek.
PeekOnly == recency' = recency

\* LruCache::get moves each hit to the front as it is found.
Touch ==
    \E found \in Orderings(Hits), rest \in Orderings(Remembered \ Hits) :
        /\ FirstSeenOrder(found)
        /\ SameOrder(rest)
        /\ recency' = Reverse(found) \o rest

Plan ==
    /\ WindowCloses
    /\ Touch
    /\ cached' = [t \in Items |-> IF t \in Hits THEN store[t] ELSE NoVec]
    /\ \E o \in Orderings(Misses) : FirstSeenOrder(o) /\ unique' = o
    /\ UNCHANGED <<store, done, computed>>

-----------------------------------------------------------------------------
\* The run: run_chunks over unique.chunks(max_batch).

ChunkEnd == IF done + MaxBatch < Len(unique) THEN done + MaxBatch ELSE Len(unique)

\* The engine contract says one vector per text; OnnxEmbedder takes as many
\* rows as the model's output has and pairs them with the token counts, so a
\* model that returns fewer rows yields fewer vectors, in order.
Returned == IF EngineMayFallShort THEN 0..(ChunkEnd - done) ELSE {ChunkEnd - done}

ChunkDone ==
    /\ phase = "run"
    /\ done < Len(unique)
    /\ \E n \in Returned :
          computed' = computed \o [i \in 1..n |-> Embedding[unique[done + i]]]
    /\ done' = ChunkEnd
    /\ UNCHANGED <<queueVars, cacheVars, cached, unique>>

RunForgotten ==
    /\ cached' = NoneCached
    /\ unique' = <<>>
    /\ done' = 0
    /\ computed' = <<>>

\* run_chunks returns the error of the first failed chunk, and every request
\* of the batch gets it, whichever texts were in that chunk.
BatchFails ==
    /\ done < Len(unique)
    /\ AnswerBatch([c \in Callers |-> Failure])
    /\ RunForgotten
    /\ UNCHANGED cacheVars

IsComputed(t) == \E i \in DOMAIN unique : unique[i] = t

\* Slip: the position within its chunk, not within the batch.
PositionInChunk(t) == 1 + (((CHOOSE i \in DOMAIN unique : unique[i] = t) - 1) % MaxBatch)

PositionOf(t) == CHOOSE i \in DOMAIN unique : unique[i] = t

\* Slip: only what the cache had.
ResolveCached(t) == cached[t]

Resolve(t) == IF IsComputed(t) THEN computed[PositionOf(t)] ELSE cached[t]

\* Slip: nothing is evicted.
KeptAll(o) == Reverse(o) \o recency

\* cache.put of every computed text, in the order a HashMap iterates: any.
\* The last CacheEntries texts used stay.
Kept(o) ==
    LET used == Reverse(o) \o recency
    IN  SubSeq(used, 1, IF Len(used) < CacheEntries THEN Len(used) ELSE CacheEntries)

\* Slip: replies are read from the live cache, after the insertions.
ReadFromLiveCache ==
    /\ Len(unique) <= Len(computed)
    /\ \A o \in Orderings({unique[i] : i \in DOMAIN unique}), t \in TextsOf(batch) :
          \E i \in DOMAIN Kept(o) : Kept(o)[i] = t

\* Every cache.put finds its vector, and every text is computed or cached.
Deliverable ==
    /\ Len(unique) <= Len(computed)
    /\ \A t \in TextsOf(batch) : IsComputed(t) \/ cached[t] # NoVec

CachePut(o) ==
    /\ recency' = Kept(o)
    /\ store' = [t \in Items |->
                    IF \A i \in DOMAIN Kept(o) : Kept(o)[i] # t THEN NoVec
                    ELSE IF IsComputed(t) THEN computed[PositionOf(t)] ELSE store[t]]

\* Tokens are counted for every occurrence of a computed text (one per text
\* here), none for a text that came from the cache.
Billed(texts) == Cardinality({k \in DOMAIN texts : IsComputed(texts[k])})

JobFor(c) == batch[CHOOSE i \in DOMAIN batch : batch[i].to = c]

AnswerFor(c) ==
    LET texts == JobFor(c).items
    IN  Success([k \in DOMAIN texts |-> Resolve(texts[k])], Billed(texts))

Deliver ==
    /\ done = Len(unique)
    /\ Deliverable
    /\ AnswerBatch([c \in Addressees(batch) |-> AnswerFor(c)])
    /\ \E o \in Orderings({unique[i] : i \in DOMAIN unique}) : CachePut(o)
    /\ RunForgotten

\* computed[*index] is out of bounds, or the expect() on cached fails.
RunPanics ==
    /\ done = Len(unique)
    /\ ~Deliverable
    /\ WorkerDies
    /\ RunForgotten
    /\ recency' = <<>>
    /\ store' = NoneCached

-----------------------------------------------------------------------------
Run == ChunkDone \/ BatchFails \/ Deliver \/ RunPanics

CallerStep(c) ==
    /\ \/ \E p \in Payloads : Submit(c, p)
       \/ Enqueue(c)
       \/ SendFails(c)
       \/ Cancel(c)
    /\ UNCHANGED <<cacheVars, runVars>>

CollectStep == (RecvFirst \/ CollectMore) /\ UNCHANGED <<cacheVars, runVars>>

Next == (\E c \in Callers : CallerStep(c)) \/ CollectStep \/ Plan \/ Run

\* The worker task and the blocking threads are scheduled; a caller that wants
\* a slot gets one in turn, for tokio's channel hands slots out in order.
Fairness ==
    /\ WF_vars(CollectStep)
    /\ WF_vars(Plan)
    /\ WF_vars(Run)
    /\ \A c \in Callers :
          SF_vars((Enqueue(c) \/ SendFails(c)) /\ UNCHANGED <<cacheVars, runVars>>)

SafeSpec == Init /\ [][Next]_vars
Spec     == SafeSpec /\ Fairness

-----------------------------------------------------------------------------
MaybeVec == Vectors \union {NoVec}

TypeOK ==
    /\ QueueTypeOK
    /\ reply \in [Callers -> [status : {"none", "ok", "err"},
                              out : Seq(Vectors), tokens : Nat]]
    /\ recency \in Seq(Items)
    /\ store \in [Items -> MaybeVec]
    /\ cached \in [Items -> MaybeVec]
    /\ unique \in Seq(Items)
    /\ done \in Nat
    /\ computed \in Seq(Vectors)

\* A successful reply holds exactly one vector per text of the caller's own
\* request, in its order, each the model's vector for that text: batching,
\* deduplication, chunking and the cache never mix requests up.
OwnVectors ==
    \A c \in Callers :
        reply[c].status = "ok" =>
            reply[c].out = [k \in DOMAIN asked[c] |-> Embedding[asked[c][k]]]

\* Only an engine that returns fewer vectors than texts panics the worker: every
\* text is computed or was taken from the cache before anything was evicted, so
\* no batch and no cache size leaves one without its vector.
WorkerSurvives ==
    [][phase # "stopped" /\ phase' = "stopped" => Len(computed) < Len(unique)]_vars

\* The LRU cache and the worker's view of it agree: at most CacheEntries texts,
\* none twice, exactly those with a vector, and it is the model's vector.
CacheConsistent ==
    /\ Len(recency) <= CacheEntries
    /\ \A i, j \in DOMAIN recency : recency[i] = recency[j] => i = j
    /\ \A t \in Items :
          store[t] = IF \E i \in DOMAIN recency : recency[i] = t
                     THEN Embedding[t] ELSE NoVec

\* A text this batch took from the cache is evicted only when every entry the
\* batch did not use is gone too: reading refreshes recency before the
\* insertions of the same batch.
HitsOutliveIdleEntries ==
    [][\A t, u \in Items :
          /\ phase = "run" /\ phase' = "recv"
          /\ cached[t] # NoVec
          /\ cached[u] = NoVec /\ store[u] # NoVec
          /\ store'[u] # NoVec
          => store'[t] # NoVec]_vars

\* The worker implements the service its callers see: every request ends with
\* its own results or an error, or is given up by its caller.  It holds across a
\* panic of the worker too, when the answer is an error.
Service == INSTANCE ModelService WITH
    Result <- Embedding,
    pending <- {c \in Callers : pc[c] # "idle"},
    reply <- [c \in Callers |-> [status |-> reply[c].status, out |-> reply[c].out]]

ServiceSpec == Service!Spec
=============================================================================
