---------------------------- MODULE ChunkRunner ----------------------------
(***************************************************************************)
(* run_chunks of dispatcher.rs and the SessionPool of onnx.rs: the worker  *)
(* task keeps up to PoolSize chunk runs in flight on the blocking pool and *)
(* awaits them in order; each run borrows a session under a mutex and a    *)
(* condition variable, uses it unlocked and gives it back.  The two were   *)
(* written apart; they meet in the number of sessions, which the registry  *)
(* passes to both.                                                         *)
(*                                                                         *)
(* A worker calls run_chunks for one batch after another on the same pool: *)
(* what a batch leaves behind is what the next one starts from.            *)
(***************************************************************************)
EXTENDS Naturals, Sequences, FiniteSets

CONSTANTS
    SessionIds,    \* the sessions the pool is built with, one at least
    MaxChunks,     \* bound: chunks in one batch
    MaxRetired,    \* bound: sessions lost to panics, in the life of the pool
    MayWakeSpuriously   \* Condvar::wait may return without a notification

ASSUME ChunkAssumption ==
    /\ IsFiniteSet(SessionIds) /\ SessionIds # {}
    /\ MaxChunks \in Nat
    /\ MaxRetired \in Nat
    /\ MayWakeSpuriously \in BOOLEAN

PoolSize == Cardinality(SessionIds)
Chunks   == 1..MaxChunks

VARIABLES
    runner,     \* the worker: "ready" between batches, "running" inside run_chunks
    size,       \* chunks of this batch
    spawned,    \* how many were handed to the blocking pool
    awaited,    \* how many of those were popped from in_flight and awaited
    failed,     \* failure.is_some()
    results,    \* results so far, each the number of the chunk it came from
    outcome,    \* what the last batch returned
    task,       \* task[i]: where the run of chunk i is
    held,       \* held[i]: the sessions chunk i has borrowed, one or none
    idle,       \* the sessions in the pool
    retired     \* the sessions lost to a panic

runnerVars == <<runner, size, spawned, awaited, failed, results, outcome>>
poolVars   == <<task, held, idle, retired>>
chunkVars  == <<runnerVars, poolVars>>

Finished == {"ok", "err", "panicked"}
States   == {"none", "spawned", "parked", "woken", "inference", "returning", "tail"} \union Finished

ChunkInit ==
    /\ runner = "ready"
    /\ size = 0
    /\ spawned = 0
    /\ awaited = 0
    /\ failed = FALSE
    /\ results = <<>>
    /\ outcome = "none"
    /\ task = [i \in Chunks |-> "none"]
    /\ held = [i \in Chunks |-> {}]
    /\ idle = SessionIds
    /\ retired = {}

InFlight == (awaited + 1)..spawned

-----------------------------------------------------------------------------
\* run_chunks

Begin(n) ==
    /\ runner = "ready"
    /\ runner' = "running"
    /\ size' = n
    /\ spawned' = 0
    /\ awaited' = 0
    /\ failed' = FALSE
    /\ results' = <<>>
    /\ outcome' = "none"
    /\ task' = [i \in Chunks |-> "none"]
    /\ UNCHANGED <<held, idle, retired>>

\* Slips: the chunks run out unnoticed; one run too many; a failure is ignored.
SpawnPastEnd == ~failed /\ Cardinality(InFlight) < PoolSize
SpawnOneMore == ~failed /\ Cardinality(InFlight) <= PoolSize /\ spawned < size
SpawnOnFailure == Cardinality(InFlight) < PoolSize /\ spawned < size

MaySpawn == ~failed /\ Cardinality(InFlight) < PoolSize /\ spawned < size

Spawn ==
    /\ runner = "running"
    /\ MaySpawn
    /\ spawned' = spawned + 1
    /\ task' = [task EXCEPT ![spawned + 1] = "spawned"]
    /\ UNCHANGED <<runner, size, awaited, failed, results, outcome, held, idle, retired>>

\* Slip: the error of the join handle is dropped.
AwaitIgnoringPanics ==
    LET i == awaited + 1
    IN  /\ runner = "running"
        /\ ~MaySpawn
        /\ i \in InFlight
        /\ task[i] \in Finished
        /\ awaited' = i
        /\ results' = IF task[i] = "ok" THEN Append(results, i) ELSE results
        /\ failed' = (failed \/ task[i] = "err")
        /\ UNCHANGED <<runner, size, spawned, outcome, poolVars>>

\* The spawn loop is over; in_flight.pop_front() and its await.
Await ==
    LET i == awaited + 1
    IN  /\ runner = "running"
        /\ ~MaySpawn
        /\ i \in InFlight
        /\ task[i] \in Finished
        /\ awaited' = i
        /\ results' = IF task[i] = "ok" THEN Append(results, i) ELSE results
        /\ failed' = (failed \/ task[i] # "ok")
        /\ UNCHANGED <<runner, size, spawned, outcome, poolVars>>

\* Slips: the first failure returns at once; a failure is not reported.
ReturnOnFailure ==
    /\ runner = "running"
    /\ ~MaySpawn
    /\ failed \/ InFlight = {}
    /\ runner' = "ready"
    /\ outcome' = IF failed THEN "err" ELSE "ok"
    /\ UNCHANGED <<size, spawned, awaited, failed, results, poolVars>>

ReturnOk ==
    /\ runner = "running"
    /\ ~MaySpawn
    /\ InFlight = {}
    /\ runner' = "ready"
    /\ outcome' = "ok"
    /\ UNCHANGED <<size, spawned, awaited, failed, results, poolVars>>

Return ==
    /\ runner = "running"
    /\ ~MaySpawn
    /\ InFlight = {}
    /\ runner' = "ready"
    /\ outcome' = IF failed THEN "err" ELSE "ok"
    /\ UNCHANGED <<size, spawned, awaited, failed, results, poolVars>>

-----------------------------------------------------------------------------
\* A chunk's run on a blocking thread: the engine's embed, score_pairs or
\* evaluate around SessionPool::with.

Becomes(i, state) == task' = [task EXCEPT ![i] = state]

\* Tokenizing or building the input tensor fails before a session is asked for.
FailEarly(i) ==
    /\ task[i] = "spawned"
    /\ \E s \in {"err", "panicked"} : Becomes(i, s)
    /\ UNCHANGED <<runnerVars, held, idle, retired>>

\* Slip: the session is not taken out of the pool.
BorrowShared(i) ==
    /\ task[i] \in {"spawned", "woken"}
    /\ \E s \in idle : held' = [held EXCEPT ![i] = {s}]
    /\ Becomes(i, "inference")
    /\ UNCHANGED <<runnerVars, idle, retired>>

\* idle.pop() under the mutex, first or after a wakeup.
Borrow(i) ==
    /\ task[i] \in {"spawned", "woken"}
    /\ \E s \in idle :
          /\ held' = [held EXCEPT ![i] = {s}]
          /\ idle' = idle \ {s}
    /\ Becomes(i, "inference")
    /\ UNCHANGED <<runnerVars, retired>>

\* Nothing to pop: the thread waits on the condition variable.
Park(i) ==
    /\ task[i] \in {"spawned", "woken"}
    /\ idle = {}
    /\ Becomes(i, "parked")
    /\ UNCHANGED <<runnerVars, held, idle, retired>>

WakeSpuriously(i) ==
    /\ MayWakeSpuriously
    /\ task[i] = "parked"
    /\ Becomes(i, "woken")
    /\ UNCHANGED <<runnerVars, held, idle, retired>>

\* The closure returned, a value or an error: push under the mutex.
GiveBack(i) ==
    /\ task[i] = "inference"
    /\ idle' = idle \union held[i]
    /\ held' = [held EXCEPT ![i] = {}]
    /\ Becomes(i, "returning")
    /\ UNCHANGED <<runnerVars, retired>>

\* Slip: nobody is notified.
NotifyNobody(i) ==
    /\ task[i] = "returning"
    /\ Becomes(i, "tail")
    /\ UNCHANGED <<runnerVars, held, idle, retired>>

\* notify_one, after the mutex is released.
Notify(i) ==
    /\ task[i] = "returning"
    /\ IF \E j \in Chunks : task[j] = "parked"
       THEN \E j \in Chunks :
               /\ task[j] = "parked"
               /\ task' = [task EXCEPT ![i] = "tail", ![j] = "woken"]
       ELSE Becomes(i, "tail")
    /\ UNCHANGED <<runnerVars, held, idle, retired>>

\* The closure panicked: unwinding drops the session, no push, no notify.
Retire(i) ==
    /\ task[i] = "inference"
    /\ Cardinality(retired) < MaxRetired
    /\ retired' = retired \union held[i]
    /\ held' = [held EXCEPT ![i] = {}]
    /\ Becomes(i, "panicked")
    /\ UNCHANGED <<runnerVars, idle>>

\* What follows the session: a result, the closure's error, a bad shape, or a
\* panic while pooling the output.
Finish(i) ==
    /\ task[i] = "tail"
    /\ \E s \in Finished : Becomes(i, s)
    /\ UNCHANGED <<runnerVars, held, idle, retired>>

-----------------------------------------------------------------------------
RunnerStep == (\E n \in 0..MaxChunks : Begin(n)) \/ Spawn \/ Await \/ Return

TaskStep(i) == Borrow(i) \/ Park(i) \/ GiveBack(i) \/ Notify(i) \/ Finish(i)

ChunkNext ==
    \/ RunnerStep
    \/ \E i \in Chunks : TaskStep(i) \/ FailEarly(i) \/ Retire(i) \/ WakeSpuriously(i)

\* The worker task and every blocking thread run; nothing has to fail, to
\* panic or to wake spuriously.
ChunkFairness ==
    /\ WF_chunkVars(Spawn \/ Await \/ Return)
    /\ \A i \in Chunks : WF_chunkVars(TaskStep(i))

ChunkSafeSpec == ChunkInit /\ [][ChunkNext]_chunkVars
ChunkSpec     == ChunkSafeSpec /\ ChunkFairness

-----------------------------------------------------------------------------
ChunkTypeOK ==
    /\ runner \in {"ready", "running"}
    /\ size \in 0..MaxChunks
    /\ spawned \in 0..MaxChunks
    /\ awaited \in 0..MaxChunks
    /\ failed \in BOOLEAN
    /\ results \in Seq(Chunks)
    /\ outcome \in {"none", "ok", "err"}
    /\ task \in [Chunks -> States]
    /\ held \in [Chunks -> SUBSET SessionIds]
    /\ idle \in SUBSET SessionIds
    /\ retired \in SUBSET SessionIds

\* A batch that returns Ok returns one result per chunk, in chunk order,
\* whatever order the runs ended in.
ResultsInChunkOrder ==
    outcome = "ok" =>
        /\ Len(results) = size
        /\ \A i \in DOMAIN results : results[i] = i /\ task[i] = "ok"

\* run_chunks drains: when it returns, Ok or Err, no run of the batch is still
\* going and every session is back in the pool or was retired, so that the
\* next batch never finds a thread of this one.
DrainedOnReturn ==
    runner = "ready" =>
        /\ \A i \in Chunks : task[i] \in Finished \union {"none"}
        /\ idle \union retired = SessionIds

\* Session::run needs exclusive access: a session is idle, retired or held by
\* one run, never two of these, and a run is in inference exactly while it
\* holds one.
SessionsExclusive ==
    /\ idle \intersect retired = {}
    /\ \A i \in Chunks :
          /\ held[i] \intersect (idle \union retired) = {}
          /\ task[i] = "inference" <=> held[i] # {}
          /\ \A s, t \in held[i] : s = t
          /\ \A j \in Chunks \ {i} : held[i] \intersect held[j] = {}

\* A run parks only for sessions that are gone for good: the dispatcher never
\* has more runs in flight than the pool was built with, so as long as none
\* was retired nobody waits.
ParksOnlyAfterRetirement ==
    retired = {} => \A i \in Chunks : task[i] # "parked"

\* "a caller ... parks when all k are busy" (onnx.rs:25): whoever is parked
\* waits for a run that has a session now, or for a wakeup on its way.
ParkedAwaitsBusySession ==
    (\E i \in Chunks : task[i] = "parked") =>
        \E j \in Chunks : task[j] \in {"inference", "returning", "woken"}

\* "The first failure stops new chunks from starting" (dispatcher.rs:177): a
\* failed batch wastes at most the PoolSize - 1 chunks behind its first failed
\* one, however the runs interleave.
FailureStopsNewChunks ==
    failed =>
        \E i \in 1..awaited :
            /\ task[i] \in {"err", "panicked"}
            /\ \A j \in 1..(i - 1) : task[j] = "ok"
            /\ spawned < i + PoolSize

\* The batch as its worker sees it: it returns, if panics leave the pool a
\* session, with all results in chunk order or with an error.
Batch == INSTANCE BatchRun WITH
    busy <- runner = "running",
    results <- IF outcome = "ok" THEN results ELSE <<>>

BatchSpec == Batch!Spec
=============================================================================
