# Verification of stateful-runtime

TLA+ models of the stateful edge runtime (`src/src/`, Rust): an in-memory record
and collection store, fed from Kafka through JavaScript handlers and read over
HTTP.  TLC checks the models on small instances; TLAPS proves every safety property
and refinement of the passing runs for every value of the constants, under the
hypotheses section 5 names.

## 1. The system

| Part | Code (`src/src/`) | State it keeps | Operations |
|---|---|---|---|
| Record store | `store/mod.rs`, `entity.rs`, `index.rs` | primary maps, hash and sorted indexes, tombstones, `memory_bytes` | `upsert`, `delete`, `get`, lookups, `apply_ops` |
| Retention task | `store/retention.rs`, `Store::sweep_retention`, `trim_all_expired` | ticker, the keys the sweep has collected | one sweep per interval, `stop` |
| Collection store | `store/collection.rs` | partition keys to deques, its own `memory_bytes` | `push`, `remove`, `scan`, `multi_scan`, `trim_*` |
| Kafka ingestion | `ingestion/` | tasks in flight, a semaphore, a readiness flag; offsets at the broker | receive, process, commit, `stop` |
| Limits | `limits/` | token buckets, request semaphore | `allow`, `try_acquire_request_permit`, `check_store_budget` |
| JS pool | `js/mod.rs` | slots behind mutexes, a round-robin counter | `execute_route/ingest/cron/query/lifecycle` |
| JS runtime | `js/runtime.rs`, `js/ops.rs` | an isolate per call | store and collection ops called by scripts |
| HTTP edge | `http/mod.rs` | nothing between requests | rate check, permit, budget, body, script, response |
| Cron | `cron/mod.rs` | one task per job | `on_cron` once per interval, `stop` |
| Health, router, metrics, configuration | `http/health.rs`, ... | flags, counters | read and set |
| Main | `main.rs` | the handles of all tasks | start, readiness poller, shutdown |

HTTP handlers, Kafka tasks, the retention task and the cron tasks are tokio tasks
on several worker threads.  They share the two stores through `Arc`s.  The stores
lock each map on its own (DashMap shards, an `RwLock` per sorted index, relaxed
atomics for the counters): no lock spans an operation.  A JS slot is locked while
a script runs; the ops an ingest or cron script returns are applied after the slot
has been released.  A restart loses everything but what the broker keeps.

What is hard here, and which property of each part depends on it:

* **Record store.** One operation touches the primary map, every index, the
  tombstones and the counter in separate steps, and operations on one key overlap.
  Correct: indexes follow records, the counter follows the sizes, the limit bounds
  the records, expired records and old tombstones go, operations end.
* **Collection store.** The partition guard is released between emptying a
  partition and dropping it, and scans lock partitions one by one.  Correct: deques
  keep the newest items, each id once and in order; removals cost no other item;
  memory is accounted; scans miss nothing.
* **Ingestion.** Messages finish in any order, fail at any step, and commits travel
  asynchronously; the process may crash.  Correct: nothing is lost or applied
  twice by one process, permits come back, every message is dealt with, stop works.
* **Limits and edge.** The handler has a dozen returns and may be dropped at
  every await.  Correct: permits balance, the rate is bounded and no refusal is
  undue, a refused request has not run.
* **JS pool.** A slot is drawn before it is known to be free.  Correct: one script
  per slot, nobody waits for a call that has gone, every call gets its turn.
* **Main and health.** A dozen early returns, tasks that stop only between two
  steps, one flag that all consumers share and a poller that copies it late.
  Correct: `on_init` comes first, stopping means stopped, ready means ready.
* **Scripts.** A batch may be refused half way, on top of what the script has
  written itself; a range lookup reads an index and the records apart.  Correct: a
  batch takes effect as a prefix, a lookup finds what is there.
* **Configuration.** Correct: an accepted bundle names no file that is missing, and
  its indexes can be told apart.  (What the pool reads beyond that, an
  `on_ingest.js`, is not validated, and any read may fail.)

`PROJECT.json` lists the components and, at their lines, the hazards.

## 2. Modules

| Module | Models | Steps of the model |
|---|---|---|
| `Configuration` | the types of `config/`, validation, index names, which routes can be built | operators only |
| `Lifecycle` | `main`, readiness, the loops of cron, retention and the consumers | EXTENDS `Configuration`; one action per step of `main` or of a task between two awaits |
| `Scripts` | handlers, `apply_ops`, store ops, range lookups | EXTENDS `Store`; its own steps, or one of `Store` |
| `Store` | upsert, delete, `sweep_retention` | one action per access to a shared structure; `pc[t]` and `call[t]` are the locals of a thread |
| `RecordStore` | nothing: what a single writer is promised | an atomic, size-bounded map |
| `CollectionStore` | push, remove, trim, multi_scan | one action per change of a deque under its guard; stamping, dropping empty partitions and charging memory apart |
| `BoundedLog` | nothing: what a single caller is promised | atomic operations on sets of the newest items |
| `Ingestion` | consumer loop, `process_message`, broker, crash and restart | one action per await point or shared access |
| `LogReader` | nothing: in-order, gapless, at-least-once reading | apply, save, restart |
| `RateLimiter` | `Bucket::allow` and its map | one action per call of `allow` (it runs under the bucket's mutex) |
| `JsPool` | slots, their mutexes, worker threads | draw, join the line, run, finish, cancel, return |
| `Edge` | `handle_edge_request`, semaphore, budget; ingestion and cron as callers | EXTENDS `JsPool`; one action per stretch between awaits |
| `MC*` | instances: constants that are functions, symmetry, liveness | |
| `Sums` | nothing: sums of functions over finite sets, and how they change | lemmas only |
| `*Proofs` | theorems | |

The refinement mappings (`Abstract`, `Implements...`) stand in the detailed modules, so
that the runs check, and the theorems state, the same formula.

`Edge` composes requests, limits and the pool.  `Scripts` composes the handlers with
the store, and `Lifecycle` the process with its bundle; what a task does when it runs
is in the other modules.  `Store` leaves the choice of
operations to its threads, so it stands below every caller; `Ingestion` sees the
store through one counter, because what it adds is the order of messages.

Correspondence worth knowing when reading them beside the code:

* **Store.** `budget` is the window between `entities.get` and
  `memory_bytes.store`; `unindex`, `prune`, `hung` walk `remove_from_indexes`;
  `index` walks `add_to_indexes`; `mem` stores the *projected* counter, as the code
  does, not a sum.  `hung` is the state of a thread that removes the set of a hash
  index while it holds the guard of the same DashMap shard: parking_lot locks are
  not reentrant, so it never leaves it.  `Stuck` says of a thread that it is there or
  can only go there.  `raced` and `delraced` are history: the
  keys on which two operations, or a delete and another one, have overlapped.
* **CollectionStore.** `push` sorts with `order_by`, and items of equal date may
  come out in any order; then it pops the front.  `trim` visits partitions one by
  one and drops the empty ones afterwards, whatever they hold by then (`Drop`).
  An item's date is read before the guard is taken (`BeginPush`).
* **Ingestion.** `held` is the message received inside the `select!` branch while it
  waits for a permit; `commits` are the offsets sent with `CommitMode::Async`;
  `FailStep` includes an `apply_ops` that fails half way, the budget check after it and
  the call that commits.  `ever`, `failed` and
  `first` are history.
* **JsPool.** `ahead[c]` are the calls that `c` still has to let pass: tokio's mutex
  is fair, so this set only shrinks.  A script runs in one poll: `Finish` is never
  preceded by a cancel, and the worker thread is taken (`WorkerFree`).
* **Configuration.** A name is the sequence of its parts between dots, so that
  `InternalName`, which joins two with a dot, can make two names equal, as the code
  can; `Resolve` is `resolve_index_name`, an exact match first and then a unique suffix.
* **Lifecycle.** `main` is the step `main` is at, in the order of `MainOrder`; a failing
  step is the `?` at its line and ends the process with whatever runs: among them the
  metrics behind the store (`CreateStore`) and a script that is there and cannot be read
  (`CreatePool`).  A path axum cannot read is `wellformed = FALSE`: `build_router` panics.  A task is `idle`
  in its `select!`, `busy` in a branch, and sees its stop only when idle.  `poller`
  separates the read of the shared flag from the write of its copy (`main.rs:112`).
  `Kill` is a signal nothing handles.  `ran` is history.
* **Scripts.** A worker's script is in its `body` while it is loaded, in its `handler`
  when that was found (`Found`: a declared `on_cron` or hook is not, because
  `load_script` wraps the source in a function), then `applying` what it returned, or
  `stopped` by an operation that was refused: a record that is too large or over the
  limit, an entity type the schema does not have (`known`), a push the collections do
  not take.  `Direct` are the ops of `ops.rs`, in the
  middle of a script.  `look[r]` holds the keys a lookup has still to read; `steady`,
  `calm` and `base` are history.
* **Edge.** `Disconnect` is hyper dropping the handler; it is possible only where
  the handler awaits (body, slot).

Where data is abstracted: a record's payload is a model value with a size and an
index key per index; a key is a pair of type and key; two DashMap keys are taken to
be in different shards (the hang needs only one); a clock read and the step that
uses it are one action where nothing else can tell; the usage a budget check reads
is any of a few values; the two 503s of the budget are one status, and so are the
500 and 503 of a failed script (the 500 of a reply that cannot be serialized is one of
its own); f64 tokens are exact fractions.  A range is a set of
index keys; which keys a limit leaves, the order of the tree, is any choice.  What a
collection says to an operation of a batch is whether it accepts it.

## 3. Checks

`tlc -workers 2 -config <cfg> <module>`; every run takes less than three minutes
on two workers.

| Run | Instance | States | Shows |
|---|---|---|---|
| `store_concurrent` | 2 workers, 2 keys, 2 values, hash index, limit 2 | 2.2 M | `TypeOK` `IndexExact` `IndexComplete`: an operation that overlaps no other on its key leaves the key exactly indexed; and a live record without an entry is one that an upsert, which is not stuck, is about to list |
| `store_retention` | 1 worker, the sweeper, clock to 2 | 91 k | `ExpiredEvicted` `TombstoneReaped` `OperationsFinish` |
| `store_hash_hang` | 1 worker, hash index | violation | `OperationsFinish` fails |
| `scripts_handlers` | 1 writer with scripts of 3 kinds and 8 batches, 1 reader, 3 keys, 2 sorted indexes, sizes 1 to 3, limit 4, entity limit 2 | 1.6 M | `MemoryTracksRecords` `ImplementsRecordStore` (`Store` refines `RecordStore`) `BatchIsPrefix` `LookupFindsSteady` `LookupFillsLimit` |
| `collection_concurrent` | 2 workers, sweeper, 1 partition of capacity 2, 3 ids, 4 pushes | 421 k | `WellFormed` `MemoryCovers` `EmptyPartitionIsDropped` `PushKeepsNewest` `TrimExact` |
| `collection_one_caller` | 1 worker, a reader, 2 partitions, 3 pushes | 237 k | `MemoryTracksItems` `ScanSeesSteady` `ImplementsBoundedLog`: `CollectionStore` refines `BoundedLog` |
| `ingestion_concurrent` | 3 messages, 2 permits, every step may fail, 1 crash | 26 k | `PermitsBalance` `CommitFollowsApply` `AppliedOncePerRun` `EveryMessageProcessed` `StopEndsLoop` |
| `ingestion_serial` | 4 messages, 1 permit, no failure, 2 crashes | 6 k | `NoMessageLost` `CountsEachMessage` `ImplementsLogReader`: with one message in flight `Ingestion` refines `LogReader` |
| `ingestion_overtaken` | 2 messages, 2 permits, no failure, 1 crash | violation | `NoMessageLost` fails |
| `rate_limiter` | 2 keys, 2 per second, 3 ticks per second, 2 seconds | 68 k | `RateBounded` `RefusesOnlyExcess` |
| `edge_requests` | 2 requests, 2 jobs, 1 permit, 2 slots, 2 threads | 127 k | `SlotExclusive` `LinesInOrder` `PermitsBalance` `StatusTellsEffect` `RequestsEnd` |
| `lifecycle` | 5 bundles that start, with up to 2 consumers, a cron and both hooks, and some 110 with one defect or none; 1 request | 132 k | `StoppedTasksRest` `ReadyTellsTruth` `FlagIsCleared` `PlainNamesResolve` `ShutdownCompletes` `SubscribedShows` |

The types of the variables (`TypeOK`) are checked where the counter must stay a machine
word (`store_concurrent`), and proved for every module that has proofs.

Why the bounds are enough:

* Two workers are what it takes to race; a third adds no new pair of steps.  Two
  keys let a race on one be told from work on the other; a third makes the limit
  bite after two.  Values differ in index field, lack one, or differ in size.
  `Word` is one above the largest sum where the counter must wrap or saturate.
* The batches of `scripts_handlers` contain every kind of operation, with each reason
  to be refused (too large, over the limit, of an unknown type, refused by the
  collection, not to be parsed) in front of and behind others; a limit of 1 cuts ranges that list up to three
  keys.
* Two consumers are what it takes to share a flag: one fails, or ends, while the other
  consumes.  The bundles with one defect visit each check of the validation from both
  sides; the schemas are all pairs of entities over three names, one of which is the
  dotted join of the others.
* Capacity 2 with 4 pushes overflows with an item in the middle; values dated in
  the past, the future and by the clock make every order; two partitions let a scan
  see one change while it reads the other.
* A message can overtake another with two in flight, and three leave one waiting
  for a permit; two crashes show a restart after a restart.
* `Unit` 3 and `Rps` 2 leave fractions of a token at most ticks.
* One permit and two requests make a request find none; two jobs and two threads
  fill the pool; `Wrap` 2 makes the counter wrap.  Clocks, pushes, messages and
  crashes are bounded by `MaxTime`, `MaxPushes`, `LastPush`, `NumMessages`,
  `MaxCrashes`.

Deadlock is not checked where the bounds end every behaviour or callers may stop
(most runs); it is in `store_retention`, where the ticker never ends.

Each property of a passing run is broken by a mutant of the code that
`PROJECT.json` lists; the mutated operators stand, marked *Mutant*, before the ones
they stand for.

## 4. Fairness

* `Store`, `CollectionStore`: weak fairness of each thread that has begun an
  operation, and of the retention task, whose ticker keeps firing.  Lock waits are
  short or, in `hung`, modelled as not enabled.  No fairness for beginning an
  operation.
* `Ingestion`: weak fairness of the loop and of each task.  Strong fairness of
  `LeaveLoop`: `tokio::select!` picks among its ready branches at random, so the stop
  branch, ready again and again, is not passed over for ever; the message branch can
  disable it in between.
* `Lifecycle`: weak fairness of the steps of `main` once they are begun (a hook and a
  sweep end), of the poller and of the branches a task has entered.  Strong fairness of
  `SeeStop`, for the same reason as `LeaveLoop`: ticks and messages that keep coming do
  not keep `select!` from the stop branch for ever.  No signal has to come.
* `Edge`: strong fairness of the next step of each task, because a step needs one of
  the worker threads and other tasks take them again and again; tokio's run queues
  serve them all.  Clients are assumed to send the body or to close the connection in
  the end.  Nothing makes a client or a job call again.  That scripts end is an
  assumption of `edge_requests` (`Outcomes`); section 6 says what happens otherwise.

## 5. Proofs

`tlapm` checks eight modules (8,452 obligations).  Assumptions are those named in the
modules that declare the constants (`StoreAssumption`, `ScriptAssumption`,
`CollectionAssumption`, `LifecycleAssumption`, `IngestionAssumption`,
`RateAssumption`, `BucketAssumption`, `PoolAssumption`, `EdgeAssumption`): sizes and
limits are machine words or naturals, marker values are not data, keys, partitions and
callers are finitely many.

Some theorems hold only in part of the configurations of the code; what restricts them
is a named hypothesis of the theorem, true in the run that checks the property, and
section 6 names the configuration that shows what happens without it:

| Hypothesis | Says | Without it |
|---|---|---|
| `OneWriter` | at most one worker writes | `MCStore_hard_limit` |
| `HasLimit`, `LimitBelowMax` | the hard limit is set, which validation enforces, and less than the largest `usize` minus one; at that limit the saturated sum would pass the check | (not run) |
| `OneCaller` | at most one caller of the collection | `MCCollection_lost_push`, `MCCollection_lost_memory` |
| `DropTakesNoItem` | no partition is dropped with items in it | the same |
| `OneAtATime` | `Permits = 1` | `ingestion_overtaken`, `MCIngestion_lost_update` |
| `SortedOnly` | all indexes are sorted | `store_hash_hang` |
| `NothingFails`, `AppliesInFull` | no step of a task, or not the `apply_ops` half way, fails | `MCIngestion_failed_skipped` |
| `HasCommitted` | the group has committed an offset before the first start | `MCIngestion_latest_reset` |

* **Sums** - what a fold of `+` over a function on a finite set is: a sum of naturals
  bounds each of its terms, changes by the change of one term, and is zero when they all
  are.  `SumFunction` is a recursion over the set, chosen by `CHOOSE`; that the recursion
  has a solution, and its value, are proved from `NatInductionOnSet`, an induction over
  the subsets of `Nat` that needs no operator as a parameter.
* **StoreProofs** - `TypeCorrect`, `IndexesExact`, `IndexesComplete`, for any
  numbers of threads, keys and indexes of either kind.  `IndexComplete` leaves out the
  keys under work while a thread is stuck in a hash index: such an upsert has taken the
  entry of a live record and never puts it back.  `SortedIndexesComplete` is the full
  claim, without that exclusion, where all indexes are sorted: nothing is stuck there
  (`NotPruning`), so `NeverLost`: overlapping upserts never cost a record its entry.  `TypeInv` adds to `TypeOK`
  which locals fit which step (`Fits`).  `IndexExact` speaks of quiet keys only and
  is not inductive: `ExactInv` says for a key at work what each index must list at
  each step, namely what `Reflects(t, i)` tells: the old record in the indexes the
  loop has not reached, none in those it has cleared, the new one in those it has
  filled again.  `CompleteInv` adds that a delete which no other operation has
  overlapped works alone, on a key that has no record (`DeleteAlone`).
* **ScriptProofs** - `ScriptsUseTheStore`: every behaviour of `Scripts` is one of
  `Store`, because a script step leaves the store alone and the operation a batch begins
  is one of the type `Op` (`ScriptsOK`); so `IndexExact` holds under any number of
  scripts (`ScriptsKeepIndexes`).  From it, `LookupsFindSteady`: a record no operation
  has touched since a lookup began is at rest, still there, and either read or still to
  be read (`Kept`).  It needs `IndexExact` in the step that reads the tree.
  `LookupsFillLimit` adds that what a calm lookup has cut from the tree are records all
  of them, as many as matched or as the limit allows (`Fills`).  The rest is about one
  writer.  `WriterTracksMemory`: `Tracks` says for each step what the counter is to the
  total size, a delete having taken its record and not yet given back its bytes, an
  upsert carrying the total it will store.  With it, `WriterHasRecordStore`: the insert
  of an upsert is `Put` of the map, the first step of a delete is `Remove`, all others
  stutter.  `WriterAppliesPrefix`: the recursion of `Outcome` over the batch has a
  solution (`OutcomeExists`), so that each operation is one more `Effect` (`OutcomeIs`);
  `Batched` says whether the operation under way has written yet.
* **CollectionProofs** - `DequesAreWellFormed`, `PushesKeepNewest`, `TrimsAreExact`,
  `EmptyPartitionsAreDropped`, `ScansSeeSteady`, for any callers, partitions, limits
  and items.  The first part says what sort, pop, remove and trim make of a sequence
  (`OrderingFacts`, `EndFacts`, `WithoutFacts`: a sort keeps the items since ids are
  distinct, what is popped comes before what is kept).  `DequeInv` adds to `WellFormed`
  which locals fit which step; on it rest the two action properties.  A scan is
  covered by `ScanInv`: what stays visible is either read already or still readable in
  a partition to come.  `MemoryIsCovered` and `TypesAreKept`: each step that moves items
  or the counter keeps `mem - (LiveBytes + PendingBytes)` as it is, except `Drop`, which
  can only raise it; so it never falls below 0 and the saturating subtraction never
  saturates.  It is 0 for good if no drop takes an item (`MemoryTracksUnlessLost`), and
  then the deques also implement `BoundedLog` (`CollectionIsBoundedLog`); one caller
  drops only what is still empty (`OneCallerLosesNoItem`: `SeenEmptyIs`), which gives
  `OneCallerTracksMemory` and `OneCallerHasBoundedLog`.
* **LifecycleProofs** - `TypeCorrect`, `InitComesFirst`, `StopIsComplete`,
  `ReadinessIsTrue`, `ClearedStaysUnready`, `FlagEndsClear`, for any bundles and number
  of tasks.  `IInv` adds that nothing that handles events exists before `on_init` has
  succeeded (`StartedAfterInit`), that no group is told to stop before its turn
  (`NothingStopped`), and that each copy of the Kafka flag implies a consumer that
  consumes, until the consumers are stopped (`FlagsFollow`): the poller's copy and
  `/readyz` are late, never early.  `IndexNamesResolve` and `NoScriptMissing` are about
  the bundle alone, and need that `main` gets past `load` with a valid one only
  (`Accepted`); the first reasons about names as sequences (`NamesResolve`).  The second
  says that no file the pool is told to read is missing, not that reading it succeeds.
* **IngestionProofs** - `TypeCorrect`, `PermitsConserved`, `CommitsFollowApplies`,
  `AppliesOnce`.  The additions: messages at or behind the consumer's position are
  fresh (`AheadIsFresh`), and the step of a task tells whether it has applied
  (`StepTells`).  With one permit: `OneTaskCounts`, where what a task has read is what the
  counter still is (`ReadIsCurrent`); `SerialLosesNone` and `SerialReadsLog`, where the
  message in flight is the last one received (`InLine`), commits on their way never
  exceed the next offset (`CommitsRise`), and all messages below it have been applied
  (`NoneSkipped`).
* **RateLimiterProofs** - `TypeCorrect`, `RateIsBounded`, `RefusalsAreDue`, for every
  rate.  The calls admitted since any earlier one, and what is left in the bucket,
  never amount to more than a burst and what has been earned (`Solvent`); and unless
  the bucket is full they amount to that, counted from some call on (`Tight`).  The
  first bounds the rate, the second makes every refusal due.
* **EdgeProofs** - `UsesPool`: every behaviour of `Edge` is one of `PoolSpec`; then
  `SlotsAreExclusive` and `LinesStayInOrder` are proved of the pool alone, with the
  addition that a call which runs has let everybody pass (`RunningPassed`), and
  carried over.  `TypeCorrect`, `PermitsConserved` and `StatusIsTrue` follow from an
  invariant that ties the step of a request to the stage of its call
  (`StartedByStage`).

Model-checked only: liveness (`ExpiredEvicted`, `TombstoneReaped`, `OperationsFinish`,
`EveryMessageProcessed`, `StopEndsLoop`, `RequestsEnd`, `ShutdownCompletes`,
`SubscribedShows`), which needs `ENABLED` and is out of the prover's reach.  Of the
passing runs every other property is stated by a theorem.  The properties of the runs
that fail and of the configurations of section 6 are not theorems, since they fail; that
`MCCollection_expiry` holds is liveness too.

## 6. Findings

Two runs are expected to fail; each refutes a statement of the documents.

* `store_hash_hang` (`store/mod.rs:491`): removing the last key of a hash-index value
  calls `values.remove` under the guard of `values.get` and never returns.  One thread
  is enough.  Sorted indexes are not concerned.
* `ingestion_overtaken` (`ingestion/kafka.rs:182`): each task commits its own offset
  when it ends, so a later message commits over an earlier one still in flight; a
  crash then loses the earlier.  `PRD.md:222` wants at least once.

Further configurations reproduce other disagreements met while modelling, or
answer a narrower question; they are run by hand like the others:

| Configuration | Shows |
|---|---|
| `MCStore_stale_index` | delete removes the record and then its entries; an overlapping upsert inserts and then lists: if the delete unlists first the entry stays, although `PRD.md:202` says "Deletion does not leave stale index references." |
| `MCStore_index_atomicity` | a live record is missing from its index during an upsert, even by one writer |
| `MCStore_hard_limit` | two upserts pass the limit together and their accounting is overwritten |
| `MCStore_eviction_memory` | an eviction between the reads of an upsert is subtracted twice; the next subtraction wraps the counter and all writes are refused |
| `MCStore_evicts_fresh` | a record renewed between scan and eviction is evicted |
| `MCCollection_lost_push` | a push between emptying and dropping a partition is lost |
| `MCCollection_lost_memory` | its bytes stay charged for ever |
| `MCCollection_expiry` | (holds) without `order_by`, the sweeper still trims every expired item in the end |
| `MCIngestion_failed_skipped` | a failed message is skipped for good by the commit of the next |
| `MCIngestion_latest_reset` | a crash before the first commit restarts at the end of the log |
| `MCIngestion_lost_update` | two messages in flight increment one counter once |
| `MCIngestion_no_rebuild` | a restart resumes at the committed offset with an empty store |
| `MCScripts_declared` | a cron or lifecycle handler that is declared as a function, as x-timeline plan 175 and `examples/x-timeline/scripts/crons/trim.js` do, is never run and nothing reports it |
| `MCLifecycle_fail_fast` | a bundle whose routes cannot be built has run `on_init` when the process gives up, although mvp plan 153 says "Fail fast" |
| `MCLifecycle_sigterm` | a SIGTERM ends the process without `on_shutdown`, although mvp plan 262 says "Graceful shutdown on SIGTERM/SIGINT" |
| `MCLifecycle_hook_fails` | a failing `on_shutdown` leaves the tasks running until the process ends, although x-timeline plan 256 lists their stops |
| `MCLifecycle_requests_cut` | a request that is open when `main` returns gets no answer |
| `MCLifecycle_all_subscribed` | the process is ready while one of two sources has failed, although `PRD.md:296` says "Kafka subscribed" |
| `MCEdge_runaway` | a script that loops is never interrupted: `timeout` polls it first, on the same thread |

What follows for the passing runs: the exactness of the counter and the abstract
record store are claims about one writer, `NoMessageLost` and `CountsEachMessage`
about one message in flight without failures and with a committed group, `RequestsEnd`
about scripts that end, `OperationsFinish` about sorted indexes, and `IndexComplete`
about keys whose operations do not hang.  `ShutdownCompletes` takes it that whatever a
task does in its branch ends: `retention.stop().await` waits for the sweep under way, so a sweep that evicts the last key of a hash-index value
(`store_hash_hang`) keeps the process from exiting, and so does a handler or a hook that
never returns (`MCEdge_runaway`).  They are stated there because they fail elsewhere, and the configurations above show where.

## 7. Not modelled

* Lookups of hash indexes (`index_lookup_*`): the operation that empties a set of a hash
  index never returns (`store_hash_hang`), and what they read otherwise is one set.
  `get` and the snapshots read one map.  Composite and index keys are values here: that
  numbers are ordered as strings (`store/index.rs:47`) is not visible.
* `op_execute_query`: the query runs inside the script that asks for it, in an isolate of
  its own, and its writes are among those of that script.
* V8: isolates, heap limits, the conversions of values.
* Parsing of YAML, query strings and bodies; the page of the metrics; logging.
* Metrics: counters and gauges that nothing in the program reads.
* Kafka rebalances, several partitions of a topic, several consumers of one topic: the
  code treats each message on its own; commits of different partitions do not interfere.

## 8. Plan

Done: `Store`, `CollectionStore`, `Ingestion`, `RateLimiter`, `JsPool`, `Edge`,
`Configuration`, `Lifecycle`, `Scripts`, their abstract specifications, and the proofs
of section 5.  Next, in this order:

1. `Store` with many writers: how far `memory_bytes` can be from the total size, as a
   bound in the number of writers and the largest record.
2. The retention sweep in `WriterTracksMemory`: what an eviction between two operations,
   not within one, does to the counter.
3. The composition of `Ingestion` tasks with the batches of `Scripts`.
