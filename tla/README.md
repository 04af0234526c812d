# ch-model-bridge in TLA+

`bridged` keeps ONNX models in memory on a ClickHouse host; `bridge-client`, a
process ClickHouse pools, forwards whole blocks of rows to it over a unix
socket; `model-bridge` (crate `bridge-cli`) downloads model files and issues the
passports the daemon verifies. This directory holds TLA+ models of the parts of
that system where order, failure and sharing decide whether it is right, the
TLC configurations that check them, and proofs that TLAPS checks. Source paths
below are relative to `src/crates/`.

## 1. The system: components, state, operations

| Component | State it keeps | Operations | Talks to |
|---|---|---|---|
| dispatcher queue (`bridged/src/dispatcher.rs`) | per model: a bounded channel of jobs, each with a one-shot reply | `ModelHandle::embed/rerank/evaluate`, `collect_batch` | HTTP and socket handlers on one side, a worker on the other |
| embed worker (same file) | the LRU cache; per batch: `position`, `unique`, `cached`, `computed` | plan, run chunks, update the cache, reply | queue, `run_chunks`, engine |
| rerank and evaluate workers (same file) | per batch: the concatenated items and the span of each request | the same without a cache | queue, `run_chunks`, engine |
| `run_chunks` (same file) | `in_flight`, the results, the first failure | spawn on the blocking pool, await in order | session pool |
| session pool (`bridged/src/onnx.rs`) | idle sessions, a mutex, a condition variable | `with` | blocking threads |
| socket claim (`bridged/src/main.rs`, `uds.rs`) | the HTTP port, the file at the socket path | bind HTTP, probe, unlink, bind, listen, accept, shut down | other instances, the file system |
| binary channel server (`uds.rs`) | one handler per connection | `serve`, `handle`, `process` | client, dispatcher |
| bridge-client (`bridge-client/src/main.rs`) | the stream, the retry window, the block in work | `run`, `round_trip`, `attempt`, `*_block` | ClickHouse's pipes, the daemon |
| wire protocol (`protocol/src/lib.rs`) and RowBinary (`bridge-client/src/main.rs`) | none but a cursor | encode and decode frames; read and write the rows of ClickHouse's pipe | client and server; ClickHouse |
| registry, passports (`bridged/src/registry.rs`, `protocol/src/passport.rs`) | name to model, built once | `load_models_dir`, `verify`, `register_*`, `resolve` | model files on disk |
| CLI (`bridge-cli/src/main.rs`) | model directories and passports on disk | `fetch`, `passport`, `gen-configs` | the network, model files |
| HTTP API (`http.rs`) | none | validation and response shaping around one handle call | dispatcher |
| ONNX engines (`onnx.rs`, `engine.rs`) | sessions, tokenizer | `embed`, `rerank`, `evaluate` | session pool |
| metrics (`metrics.rs`) | counters | add | nobody's decisions |
| functional suite (`functional-tests/`) | daemons it spawned | plays ClickHouse, HTTP clients and broken peers | all of the above, from outside |

What is hard here, and what each part therefore has to get right:

- **Queue and workers.** Requests of independent callers are merged, cut into
  chunks and taken apart again, while callers disconnect and the cache evicts.
  Every caller must get its own results, in its own order; nothing may be lost,
  answered twice or overtaken; a failure must reach everyone it concerns.
- **`run_chunks` and the pool.** Two pieces of code that meet only in the number
  of sessions. Chunks end in any order and may panic; results must come back in
  chunk order, a batch must leave nothing running behind it, and a parked
  thread must have somebody to wake it.
- **Socket claim.** Four system calls, other instances between any two of them,
  and a file that no exit removes.
- **Client and server.** The daemon restarts under a pooled client at any point
  of a round trip, and a block's rows must still get their own answers or fail
  as a whole, in bounded time.
- **Bytes and shapes.** A request crosses two binary formats or one JSON body,
  is padded into a rectangle with strangers' rows, flattened, run, and unpacked
  again. Lengths are cast to `u32`; a damaged frame must be refused and not
  guessed at; padding must not show in a result; the two channels must be one
  service.
- **Files.** The CLI and a starting daemon share a file system and no lock;
  either may be killed anywhere.

## 2. Modules and the code they model

| Module | Models | State ↔ code |
|---|---|---|
| `JobQueue` | the front half of every worker: callers, channel, `collect_batch`, replies | `queue` is the `mpsc` channel, `batch`/`queued` are `collect_batch`'s locals, `pc`/`asked`/`reply` are the callers; a caller that disconnects leaves `Gone` in its job |
| `EmbedWorker` | `embed_worker`; extends `JobQueue` | `recency`/`store` are the `LruCache`, `cached`, `unique`, `computed` the locals of the same name, `done` the chunks that have run |
| `SpanWorker` | `rerank_worker` and `evaluate_worker` (one loop twice); extends `JobQueue` | `lined` is `all_pairs` or `all_values`, `spans`, `offset` and `scores` the locals; both loops over the batch go request by request |
| `ModelService` | the promise of a `ModelHandle` call: one answer per request, of one's own items, errors shared by a batch | what `EmbedWorker` and `SpanWorker` refine |
| `ChunkRunner` | `run_chunks` and `SessionPool::with` together | `spawned`/`awaited`/`failed`/`results` of `run_chunks`; `idle`, `held`, `retired` sessions; `task[i]` is where a blocking thread is |
| `BatchRun` | the promise of `run_chunks`: all results in chunk order, or an error | what `ChunkRunner` refines, and what `EmbedWorker` and `SpanWorker` assume of a run |
| `SocketClaim` | `main` from the HTTP bind on and `uds::bind` | `st[d]` between two system calls, `path` the file, `env` how the instances were started |
| `BridgeClient` | `bridge-client` and `uds::serve`/`handle` | `link` is the stream with the frame in each direction, `deadline` the retry window, `answers` the groups answered, `daemon` up, down, or alive without its accept loop |
| `Cursor` | reading and writing flat buffers: words, counts, strings, and the failure that sticks | a cursor is a position and what was read; a failed read breaks it for good, as `?` does |
| `Wire` | `protocol::wire`: request and reply frames, both ways; extends `Cursor` | |
| `RowBinary` | the rows and columns of ClickHouse's pipe, both ways; extends `Wire` | |
| `Engine` | `onnx.rs`: truncation, padding, flat tensors, pooling, output shapes, the probe a model must pass to load | |
| `Gateway` | one request end to end over HTTP (`http.rs`), through bridge-client's pipe and frame, or straight to the socket (`uds::process`); extends `RowBinary` and `Engine` | `entries` is the registry; `pc[c]` where the caller is and `stage[c]` where the daemon's handler of its connection is; `wire[c]` and `back[c]` the bytes on that connection nobody has read yet, `apart[c]` whether others stood there before the request; `heard[c]` the decoded request, `reply[c]` the daemon's answer, `answer[c]` what the caller reads |
| `ModelFiles` | `fetch`, `passport`, `load_models_dir`, `verify`, the engines' `load` | `disk`, `part`, `passport` are files; `cli` and `startup` the two processes; `read` what each open of a file returned |
| `SortedSets` | a sort, as `load_models_dir` sorts its passports, the client keeps a group's positions, `rerank` sorts its results and a mask picks tokens; used by `BridgeClient`, `ModelFiles`, `Engine` and `Gateway` | |
| `MC*` | instances for TLC | items, models, blocks and directories as model values |
| `JobQueueProofs`, `EmbedWorkerProofs`, `ModelFilesProofs`, `GatewayProofs` | theorems about the module each is named after, `GatewayProofs` about `Engine` too | |
| `WorkerRunProofs` | theorems about `SpanWorker` and `ChunkRunner` | |
| `SocketProofs` | theorems about `SocketClaim` and `BridgeClient` | |
| `RowBinaryProofs` | theorems about `Cursor`, `Wire` and `RowBinary` | |
| `DataProofs` | lemmas about numbers, sequences, recursion and sorting that the others share | |

The modules that are proved together have different names for what a module
usually calls `Init`, `Next` or `TypeOK`: `ChunkInit`, `ClaimNext`, `ChunkTypeOK`.

Each handler is one action up to the next point where another process can act
(an `await`, a lock released, a system call), and so are the replies that
callers see one by one in the loops of `SpanWorker`. What a handler does between
two such points (deduplicating a batch; updating the cache and sending every
reply of an embed batch) is one step of the model. Definitions whose comment
starts with "Slip" are not used by the specifications: they are plausible
mistakes, kept next to the definition each would replace, to show that a
property can fail.

The loop of `uds::handle` is one action per turn, `Handle`: whatever a frame's
prefix does not count is read by the next turn as a frame of its own, also while
the caller is done with its answer. A caller of `Gateway` may keep its
connection for the next request, with what is left on it.

How the pieces meet: `EmbedWorker` and `SpanWorker` take from `run_chunks` only
what `BatchRun` promises; `BridgeClient` takes from the dispatcher only what
`ModelService` promises (an answer to the request, or an error, in the end) and
from `SocketClaim` that a daemon can be up, down or deaf. `Gateway` composes the
two formats, the HTTP handlers and the engines; how batches form there is left
to any merge of waiting requests, which covers what `JobQueue` can form.

Data is abstract. A text, pair or feature row is a model value; a vector is the
pair of the model and the item it was computed from, which is what the
properties need to tell one caller's answer from another's. File contents stand
for their own checksums. Time is a deadline that passes at some point. Frames
have a size in `BridgeClient`, and bytes in `Wire`, `RowBinary` and `Gateway`:
there a unit stands for a byte and is below `Base`, a `u32` or `f32` is a word
of two units, and every cast of a length wraps at the word as `as u32` does. In
`Engine` a limit or a padding of 0 is a setting like any other (`Some(0)`), and
`None` is the absence of one.

## 3. What the runs check

Passing runs:

- **`EmbedWorker`**: two callers, three texts, requests that overlap and repeat a
  text against a cache of two, cancellation at any point; up to three requests
  whose callers are gone, which with those two fill the channel of four slots;
  `max_batch` zero, so that the `max(1)` of chunks, rounds and capacity is at
  work; an engine that may return too few vectors, which panics the worker.
  `OwnVectors` (each reply is the model's vectors for one's own texts),
  `OneJobPerCaller` (nothing lost or run twice between channel, batch and reply),
  `NoOvertaking` (waiting callers keep their order), `BatchBounded` (rounds and
  channel), `CacheConsistent`, `HitsOutliveIdleEntries` (what a batch read from
  the cache outlives what it did not use), `WorkerSurvives` (the worker stops over
  a run that fell short and over nothing else: no batch, of whatever size against
  the cache, finds a vector missing), and `ServiceSpec`: the worker implements
  `ModelService`, fairness included, so every request ends. `sessions` and
  `cache_entries` of zero are left to the proofs, which hold for any settings.
- **`SpanWorker`**: three callers with requests of one and of three items
  against chunks of two, so chunks straddle requests and requests straddle
  chunks; callers go away between any two steps of the loops. `OwnScores`,
  `SpansCoverBatch` (no cut runs past the scores, and the last one takes exactly
  the rest), `ServiceSpec`.
- **`ChunkRunner_run`**: up to four chunks over three sessions, two of which
  panics may retire, spurious wakeups. `ResultsInChunkOrder`, `DrainedOnReturn`,
  `SessionsExclusive`, `ParksOnlyAfterRetirement`, `ParkedAwaitsBusySession`,
  `FailureStopsNewChunks`, and `BatchSpec`: it implements `BatchRun`, fairness
  included, so every batch returns. Batches follow one another on the same pool.
- **`SocketClaim_lock`**: three instances on every assignment of two HTTP ports,
  failing probes and removals, crashes and shutdowns. With one port:
  `ServingIsReachable`, `DrainingIsReachable`, `RefusedOnlyForLiveDaemon`;
  whatever the ports, `StaleFileNeverBlocks`. The type invariant also says that
  the path points to no instance that has let go of its listener: an accept error
  drops it (uds.rs:38), and the file is stale from then on.
- **`BridgeClient_run`**: one client; blocks with interleaved models, ragged
  feature rows, an unknown model, replies of the wrong width, of no declared
  width and over the frame limit, requests over the limit; a daemon that stops,
  starts and loses its accept loop at any step, without any bound on how often.
  `OwnRows` (a written block holds each row's own answer; a failed one leaves
  nothing), `BlocksEnd` (no block hangs the process), `RestartsRiddenOut` (once
  the daemon stays up, a request that has met no failure yet gets the daemon's
  answer, even if its stream died with an earlier daemon).
- **`ModelFiles_run`**: fetches, passports issued, interruptions, starts and
  stops of one CLI and one daemon in any order (two CLIs at one directory at a
  time are not modelled), from four directories: without passports, complete, with a
  tampered file, with a passport that lists nothing. `SumsFollowFiles` (no
  passport runs ahead of the files it names), `ServesEveryPassport` (a daemon that
  serves has skipped no passport for being bad: one whose name no other carries
  is in the registry, and every name found is served by a passport of that name;
  where two share a name, see `ModelFiles_namesake`), `StartupEnds`, `QuietStartIsVerified` (with no
  other process at the files, every listed file a model was loaded from is the
  one its passport names); its type invariant says that no file is ever
  incomplete under its final name.
- **`Gateway`**: two callers and some fifty requests over the three channels,
  merged in any way into batches of seven kinds of models: the stub, embedders
  with and without fixed padding, cross-encoders, one of them exported for a
  single row and one with two output columns, a tabular model. Frames are cut
  short at several points, carry a wrong version, task or length, or trailing
  bytes; texts are not UTF-8, longer than the token limit, longer than a frame,
  longer than a length prefix can say; connections are kept from one request to
  the next, also with bytes left over on them. `OwnAnswers` (every row is the model's
  answer to that item alone: neither padding, neighbours nor formats show),
  `HeardAsAsked` (a request is heard as it was meant or refused, and leaves nothing
  on its connection unless its frame is longer than its prefix says),
  `ChannelsAgree` (what HTTP answers to a plain request that is not empty the
  binary channel answers too; HTTP refuses empty ones and the socket answers them),
  `ProbeSuffices` (a model that loads does not fail for its shape).

What `Gateway` shows beside its properties is where they need a condition:

- A request is itself misread only when a number inside it wraps: a text of 2^32
  bytes or more, or as many items or values (`Countable`). The reply to a bare
  socket wraps in the same way (`CountableAnswer`).
- When every part is countable and only the length of the frame wraps, the
  request is refused: what its prefix counts does not decode (`CutRefused`), the
  first reply is an error, and the caller takes it. But `uds::handle` loops: the
  bytes behind that prefix are read as the next length and the next frame, and
  these may decode, to a request nobody asked (`Overruns`, `Strays`). The code has
  no check that would stop this, so nothing is claimed of what is heard there,
  nor of a later request on a connection where something was left (`apart`).
  bridge-client leaves such a connection: an error ends the process. The run has
  such a request from ClickHouse's pipe, of 40 and 20 units in one block; the
  frames the suite sends itself do not wrap, one has a prefix that says too much.
- The probe of one row with which a model is loaded (onnx.rs:246, :315, :381)
  cannot see a graph exported for one row, nor padding fixed below the truncation
  limit: such models load and then fail every batch of more than one row, or of
  long texts. A model with two output columns fails its probe, so the daemon
  never starts.
- Padding fixed two or more tokens below the truncation limit can do worse than
  fail (`Skewed`). `run` takes the width of its tensors from the first encoding
  and `Tensor::from_array` checks only the total (onnx.rs:178, :192). With a
  padding of 2 and a limit of 4, texts of 3, 2 and 4 tokens fill a 3 by 3 tensor,
  and each is answered from tokens of another, without an error. The comment at
  onnx.rs:119 ("Model inputs must be rectangular") is acted on for tokenizers
  without padding only; one that ships with it is taken as it is.
- `--stub-dim 0` is accepted by the daemon and answered over HTTP, while the
  client refuses an answer of dimension 0 (`Dimensioned`).
- axum's default body limit is external (`BodyLimit`), and so are replies over
  the frame limit, which only the binary channel has (`ReplyFits`).

Runs that find a violation. Each property states what a comment or test of the
repository says, and the counterexample shows what the code does:

- **`ChunkRunner_exhausted`**: once panics have retired every session, a run
  parks while no session is busy; nobody will wake it, and its worker and all
  its callers hang (onnx.rs:79 against :24).
- **`SocketClaim_race`**: with different HTTP ports the port is no lock. An
  instance between `bind(2)` and `listen(2)` refuses connections like a stale
  file, is unlinked, and serves where nobody can reach it (uds.rs:25 against
  functional-tests/tests/socket_claim.rs:5).
- **`BridgeClient_oversized`**: a request over the frame limit is answered by
  closing the connection, which the client takes for a restart and retries until
  its window ends (bridge-client main.rs:176 against :167).
- **`ModelFiles_namesake`**: two good passports carry one name. Both are
  verified, loaded and counted, and the later in path order replaces the earlier
  in the registry without a word (`NothingOmitted`; registry.rs:93 against
  registry.rs:155 and functional-tests/tests/models.rs:808).
- **`ModelFiles_race`**: a file replaced after its verification and before it is
  opened again is served under a passport it does not match; with several
  sessions, by some of them only (registry.rs:195 against
  functional-tests/tests/passports.rs:1).

### Bounds, and why they are enough

- Two or three callers: the workers treat requests uniformly, and a
  mix-up needs one request, a neighbour, and for order a third behind them.
  `MaxOrphans` bounds requests whose caller is gone at a time; one is enough to
  have one before, between or after live requests, and is what `SpanWorker` has
  beside three callers; the three of `EmbedWorker` and its two callers are five
  requests for a channel of four slots, so its capacity binds.
- Three texts and a cache of two: hits, misses, repeats and evictions within one
  batch all occur. `EmbedWorker` has chunks of one text against batches
  of up to three distinct ones, more than its cache, `SpanWorker` chunks of two.
- Four chunks and three sessions: a batch that waits for a free session, one that
  ends with a partial round, a failure with two runs in flight behind it.
- Three instances: a daemon, one that races it, and one that comes after.
- One client: clients share nothing but the daemon's state, which changes
  freely. Every block exercises a different path through grouping and replies.
- `Gateway`: `Base` 8 makes a `u32` wrap at 64, within reach of texts of 66
  units and of frames; `MaxFrame` 50 and `BodyLimit` 40 are below it, so requests
  exist on both sides of every limit. Two callers, with one connection each, are
  enough to merge two requests of different lengths into one batch; connections
  share nothing but the registry and the batches.
- Three passports: the catalog model, a tabular one, and a hand-written one that
  carries the same name and leaves a file out. Restarts are unbounded.

### Fairness

- Workers, `run_chunks` and blocking threads: weak fairness on their steps. The
  tokio runtime and its blocking pool schedule what is ready, and inference
  ends. A caller's wait for a channel slot is strongly fair, for tokio's bounded
  channel hands slots to waiting senders in order; without that a sender could
  lose every free slot to a newer one.
- A caller is never forced to submit, cancel or disconnect; a panic or an error
  is never forced or excluded.
- `SocketClaim`: a startup goes on, and a shutdown ends. Nothing makes a daemon
  start or crash.
- `BridgeClient`: the client's steps, the server's handlers and the clock are
  weakly fair. Nothing makes a daemon start. That a handler answers at all is
  what `ServiceSpec` shows of the workers; where it does not hold (all
  sessions retired, see above) the client hangs too, for it reads without a
  timeout.
- `ModelFiles`: the daemon's startup goes on; nothing makes the CLI go on.

## 4. What is proved

TLAPS checks these for every value of the constants that satisfies the named
assumptions.

`EmbedWorkerProofs` (with `JobQueueProofs`), under `QueueAssumption` and
`EmbedAssumption`, that is, for any number of callers, any finite set of texts,
any nonempty requests, any settings, zero included, and any engine that is a
function of the text:

- `TypeCorrect`, `RepliesAreOwn` (`OwnVectors`), `CacheStaysConsistent`,
  `NoRequestLost` (`OneJobPerCaller`), `RoundsAreBounded` (`BatchBounded`),
  `WorkerNeverPanics` (`WorkerSurvives`, and that with an engine that keeps its
  contract the worker does not stop at all).

The inductive invariant is `Inv`. `QueueInv` holds the front half: types, one
job per waiting caller, an empty batch between rounds. It is proved action by
action in `JobQueueProofs`, independently of what the worker computes.
`PlanInv` says that during a run every text of the batch is either among
`unique` or was taken from the cache, with the model's own vector; this is what
neither `OwnVectors` nor `WorkerSurvives` says and both need. `RunInv` ties
`computed` to the prefix of `unique` that has run: it is `Embedding` along that
prefix, as long as the engine keeps its contract. `CacheInv` relates recency
list, bound and stored vectors, and `ReplyInv` carries the answers given.
Together they are preserved by cancellation, by an error and by a panic, and
`Deliverable` follows from them at the end of a run.

`SocketProofs` has both ends of the socket. The claim, under `SocketAssumption`,
for any set of instances and any ports, crashes and probe failures:
`ClaimTypeCorrect` (`ClaimTypeOK`: the path points to no instance that has left it
or not bound it), `ServingStaysReachable`, `DrainingStaysReachable`,
`RefusalsAreJustified`. The invariant says that with
one port at most one instance holds it, and where the file points at each of
that instance's steps: bound by it from `bind` on, and Stale or Absent or a
draining instance's before.

`WorkerRunProofs` has what happens to a batch once it is collected. The rerank and
evaluate workers (with `JobQueueProofs`), under `QueueAssumption` and
`SpanAssumption`: `TypeCorrect`, `RepliesAreOwn` (`OwnScores`), `CutsStayInside`
(`SpansCoverBatch`), `OneRequestPerCaller` (`OneJobPerCaller`). Where a request's
items stand in the line is the sum of the spans before it; rather than sum them
again after every step, the invariant says that there are positions `starts`,
one per request and one for the end, such that each follows from the one before
by its span and the line holds that request's items there (`Cuts`). Each loop step extends or drops one end of `starts`.
`ScoreInv` says the scores are those of the line as far as it has run, and
`FirstCut` reads from both what the next reply will hold.

In both workers `NobodyOvertakes` proves `NoOvertaking`, an action property: the
line of waiting requests changes by an append, by losing its first k requests,
or by a cancellation that moves nobody, so places keep their order (`OrderKept`).
`HitsAreEvictedLast` proves `HitsOutliveIdleEntries` of the embed worker, from
one more invariant, `HitInv`: from the plan of a batch to its replies, what it
read from the cache is in front of everything it did not ask for, where
`pop_lru` comes last.

In both workers `ImplementsService` is the safety half of the refinement to
`ModelService`: every step, a panic included, is a step of the service or none
its callers see.

The chunk runner, under `ChunkAssumption`: `ChunkTypeCorrect`,
`ResultsStayInOrder`, `BatchesDrain` (`DrainedOnReturn`), `SessionsStayExclusive`,
`NobodyParksInAFullPool` (`ParksOnlyAfterRetirement`), `NoWakeupIsLost`
(`ParkedAwaitsBusySession`, assuming `MaxRetired` is below the number of
sessions), `FailuresStopSpawning`, and `ImplementsBatchRun`, the safety half of
the refinement. The invariant has a part for the loop (`RunnerInv`), for where
each blocking thread can be (`TaskInv`), for the results (`ResultInv`), for who
has which session (`PoolInv`), and for wakeups (`WakeInv`: if an idle session
and a parked thread meet, a wakeup is on its way). That nobody parks in a full
pool is an argument by cardinality: runs in flight never outnumber the sessions,
and each thread that holds one takes one away.

The client in `SocketProofs`, under `ClientAssumption`: `TypeCorrect`, and `RowsAreOwn`
(`OwnRows`) for any blocks, any number of clients, and a daemon that goes and
comes back at any step. `GroupsProperties` says that grouping loses no row and
that a group has one model; it rests on `AscendingProperties` of `DataProofs`,
which counts ranks (n elements have n different ranks below n). `PlaceOwn` says that placement then hands each row
its own answer. The invariant adds that only a client that waits has frames on
its stream, and only those of the request in hand, so a retry never meets a
stale reply; `UsableOwn` says that the number of floats alone tells a reply of
the right width.

`ModelFilesProofs`, under `FilesAssumption` and `SetupsAssumption` (what is on
disk to begin with is what the CLI leaves behind): `TypeCorrect`,
`PassportsFollowFiles` (`SumsFollowFiles`), `NothingSkipped`
(`ServesEveryPassport`), and `QuietStart` (`QuietStartIsVerified`), for any
models, files, directories, cores and session counts. `CliInv` says what the
CLI's checksums stand for while it may be killed between any two steps: of its
files, pinned contents are never written over, so a checksum once taken stays
true. `PassedInv` says that the loop over the passports leaves under each name
the last one it has passed; a name with one passport therefore keeps it, which is
what `ServesEveryPassport` says, and a shared name does not keep both, which is
what `ModelFiles_namesake` shows. `QuietInv`, preserved only by steps that find and
leave the CLI idle, ties what was verified and what was read to the disk.

`RowBinaryProofs`, under `BaseAssumption`, `WireAssumption`, `RowAssumption` and
`GroupsAssumption` (ten groups of a varuint hold any `u32`), is about the two
formats, for any width of a unit and any contents and lengths:

- `RequestRead`, `ResponseRead`: `decode_request` and `decode_response` give back
  what was encoded, as long as a `u32` counts it.
- `DecodesWhole`, `CutRefused`: what decodes is the start of no longer payload
  that does; so no proper prefix of a request is taken for a request.
- `BlockRead`: a block of rows is read as the rows written, with what is not text
  replaced, and no proper prefix of it is read at all.
- `ColumnOfArrays`, `ColumnOfScores`: ClickHouse reads back the column the client
  wrote.

Every kind of piece (unit, word, string, array, row) has a lemma that it is read
where it stands, whatever is around it, and one that any read goes forward,
stays inside the buffer and reads the same of every buffer that begins alike
(`Follows`); the second is what shows that a cut is always noticed.

`GatewayProofs`, under these and `EngineAssumption`, `ModelAssumption`,
`RequestsAssumption`, `ConfigAssumption` and `SentinelAssumption`: the five
invariants of `Gateway`, for any models, any sets of them served, any requests of
any channel, damaged or cut anywhere, and any batches: `TypeHolds` (`TypeOK`),
`HeardHolds` (`HeardAsAsked`), `OwnHolds` (`OwnAnswers`), `ProbeHolds`
(`ProbeSuffices`) and `AgreeHolds` (`ChannelsAgree`). The assumptions say what a
model and a request are made of, that what travels as text is text and a matrix
is not ragged, and that the values standing for nothing are no values.

The argument has two halves. The first is about the engines. `InferReturns`: a
batch returns for each item what the item gets alone. A padded row shows what
was there before the padding and nothing else (`PaddedShows`), what a mask hides
changes no state, logit or mean (`MaskedUnseen`, `MeanPadded`), encoded rows are
the rows of the tensor they are flattened to and cut from (`EvenRows`,
`CutRowsOfRows`), and `pool` reads each row's own numbers by offset (`PoolMeans`).
`LoadsProbed` gets from one row of one token all that a graph may do wrong in a
batch, and `InferReturns` names the two things it cannot.

The second is the inductive invariant `IInv`: the registry holds the cards of
models that load, and `Holds` is true of each caller. It has two cases for a
request that no left-over bytes precede and whose parts a `u32` counts. In the
first (`Lock`) caller and daemon are in step, so `pc` and `stage` together are one
phase (`Phase`) of eight, and a definition each says what is known in it:
`IsPosted` and `IsWritten` what stands on the way in, `IsSent` what the frame on
the connection decodes to, `IsShut` that a closed connection was not asked
anything plain, `IsQueued` what was heard, `IsReplied` and `IsAnswering` that the
reply is a refusal, an error, or the rows of the request heard, `IsDone` what the
answer is in terms of the request asked. `Lock` also says that a frame no longer
than its prefix leaves nothing on the connection, so the next turn of `handle`
waits. In the second case (`Stray`) the request's frame was longer than its
prefix: its first reply is an error, nothing but that error is taken for its
answer, and what the handler makes of the rest is left open. Every request,
whatever precedes it, has `Typed`, `Placed` and `Served`: what the daemon replies
is the models' answer to what it heard (`Sincere`), which `ProbeSuffices` needs
of strays too.

None of the five properties is inductive: `OwnAnswers` says nothing before there
is an answer, and `ChannelsAgree` compares two that never met. A step moves one
caller from one phase to the next and leaves what is said of the others alone,
except `Serve`, which answers a whole batch at once: there each request finds its
own part between those before and those after it (`FlattenPart`). `ChannelsAgree`
follows from what `IsDone` says of either answer, since both are `Own` of equal
requests. `OwnHolds` excludes what its property excludes: fixed padding two or
more tokens below the limit (`Skewed`), and numbers a `u32` does not count.

`DataProofs` has the lemmas these share. The library's induction theorems take a
predicate, which no installed prover can instantiate; they are stated here of
the *set* of numbers or sequences a claim holds for (`Induction`,
`StrongInduction`, `SeqInduction`) and proved from the well-foundedness of the
natural numbers (`LeastNumber`). `Recursion` and `Computation` do the same for
what a recursive function computes, and give the recursive function inside
`FlattenSeq` its value step by step.

Only model-checked: liveness, and with it the fairness half of the refinements
and `StaleFileNeverBlocks`, `RestartsRiddenOut`, `BlocksEnd` and `StartupEnds`,
which promise an end: the prover has no rule for `ENABLED`, on which fairness
rests. The violations are TLC's too.

## 5. Not modelled

- Metrics: relaxed counters that nothing reads to decide.
- The tokenizer and the ONNX session. `Engine` gives them as external functions,
  as rich as the properties need: a token's state depends on its place and on
  every token its mask shows, and what stands at a masked place is noise. The
  norm of a vector looks at nothing but the vector and is left out.
- JSON parsing and the wording of errors; `/health`, `/v1/models` and `/metrics`,
  which only read. axum's body limit is external and is modelled by its effect.
- `prompt_tokens`: modelled as the code counts it, at every occurrence of a
  computed text (dispatcher.rs:301, though :20 speaks of tokens actually run), and
  part of `OwnScores` for pairs; for texts nothing is compared with it.
- A connect error the client does not retry (a permission error), models given
  with `--model` (documented as unverified, and of which a duplicate name
  replaces the earlier one), and the configuration generator, which is pure text.
- What a passport does not list is loaded unverified (passport.rs:52 refuses an
  empty list only); `QuietStartIsVerified` is stated for listed files.
- The client reads a reply without a timeout (main.rs:151), so there is no bound
  to check: it ends when the worker's service does.
- The functional suite's own machinery: spawning daemons, temporary directories,
  its HTTP client. The peers it plays are requests of `Gateway`.

## 6. What is left

Nothing of the core logic is left out by plan. Worth doing next: composing
`BridgeClient` with `SocketClaim` instead of a daemon that comes and goes freely
(which allows more, so no property would be lost); the step lemmas under which
the liveness properties are argued (what each fair action achieves, without
`ENABLED`) as theorems; `BridgeClient`'s `Usable` from `Gateway`'s frames, so that
the two views of a reply are one.
