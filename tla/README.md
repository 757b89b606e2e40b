# TLA+ models of the Manager and Executor modules

This directory holds TLA+ specifications of the task-scheduling core in `src/`. The core is made of:

- the **Manager** (`src/modular/manager/manager.go`), which creates tasks, keeps them in queues and hands them out;
- the **Executor** (`src/modular/executor/`), whose worker goroutines ask the Manager for tasks, run them and report back;
- the task model (`src/core/task/task.go`).

The models are checked with TLC. `PROJECT.json` lists:

- the components, the runs and the mutants;
- the map from every model definition to the source lines it translates;
- the findings;
- the hazards: what in this code is hard to test and what covers it.

## 1. The system: inventory

| Component | State it keeps | Operations |
|---|---|---|
| Manager event loop (`eventLoop`) | `gcBlockHeight`, the tickers | GC-object ticker: cut `[start,end]`, check the safe distance, `Push`, advance `gcBlockHeight`. Also `syncConsensusInfo`, `discontinueBuckets` and `Statistics`. |
| Manager queues and strategies | upload, replicate, seal, receive, gcObject, download, challenge and recovery queues (the taskqueue package is not in `src/`) | retire strategies `GC*Queue` and `ResetGCObjectTask`; filter strategies `FilterGCTask` and `FilterUploadingTask`; deduplication with `TaskUploading` and `TaskRecovering` |
| Manager `PickUpTask` | none (pure) | weighted random choice among the candidates of one AskTask |
| Manager `RejectUnSealObject` | none | send a reject transaction up to 3 times, then listen for the rejection |
| Executor worker pool | `maxExecuteNum` goroutines, counters | `AskTask`: ask, reserve resources, defer the release and the report, dispatch by type |
| Executor handlers | each task's fields | `HandleGCObjectTask`, `HandleRecoverPieceTask`, `HandleSealObjectTask` (with `sealObject` and `listenSealObject`) and `HandleReceivePieceTask`. The zombie and meta GC handlers only log. |
| Chain, metadata service, piece store, SP DB | external | queries and transactions; the models treat them as the environment |

### How the parts interact

A task moves through the system like this:

1. The Manager pushes a task into a queue.
2. An Executor worker calls `AskTask`. The Manager filters its queues, picks one candidate with `PickUpTask`, marks it running (Retry + 1) and returns it.
3. The worker reserves resources and runs the handler, which reports progress or the final result with `ReportTask`.
4. The Manager updates or retires the queued task, or answers `ErrCanceledTask` when the task is no longer queued.

The Manager and the Executor are separate processes, and either may restart while the other runs.

### The behaviours that make it hard

- Several workers run concurrently.
- A task that expires while it runs can be handed out a second time.
- Reports come late or twice.
- The metadata service lags the chain.
- A Push into a full queue runs a retire strategy over the queued tasks.
- The Manager restarts and forgets its queues (`LoadTaskFromDB` is commented out in `Start`).
- The primary recovery uses goroutines, a buffered and an unbuffered channel, and a `select`.
- Errors are dropped through shadowed `err` variables.

### What makes each part correct

- **GC** (abstractly, `GCObjectSpec`):
  - it never deletes pieces of an object that is not yet past the reorg margin;
  - it never loses a block range;
  - it retires a range only once all its objects are collected (a failed piece delete is a tolerated space leak, spec §5);
  - progress is monotone (spec §4.6).
- **PickUpTask:**
  - it returns a candidate;
  - each candidate is chosen with probability priority/total (spec §8.4).
- **Recovery:**
  - it decodes only from at least dataShards pieces;
  - it fails with "not enough" only when too few pieces arrived;
  - late downloads are discarded;
  - goroutines terminate;
  - every task ends either failed or done (not checked by a run: the shadowed `err` that breaks it is the pattern `reject_unseal` shows).

## 2. Modules

### `GCObject.tla` (instance `MCGCObject.tla`)

This module models the GC-object pipeline shared by three actors.

The state:

- `gcBlockHeight` and `gcQueue`, a set of task records `[start, end, current, last, retry, update, inc]`;
- per worker, a program counter, its own copy of the task and the objects left to visit;
- the environment: `chainHeight`, the metadata service's `metaHeight`, the clock `now` and the piece store `pieces`;
- `incarnation`, the Manager restarts;
- `collected`, the history of retired ranges;
- `issued`, the history of objects the object loop went over.

`Expired` is where the model makes a choice. Its implementation is not in the repository. The comment at task.go:61 reads "ExceedTimeout and ExceedRetry", while spec §3 defines it as either. Both GCObject and UploadQueues take the disjunction, `ExceedTimeout(t) \/ ExceedRetry(t)`. The disjunction only adds resets and evictions to what the conjunction allows, so the safety properties of the passing runs also hold under the conjunction.

A worker keeps its own copy of the task (`Copy`). The copy holds only the fields of its reports that the Manager reads. `LastDeletedObjectId` is recorded by the code but read by nobody, so the model leaves it out.

The actions map to the code as follows.

| Action | Code |
|---|---|
| `GCObjectTick` | the ticker case of `eventLoop`, with `PushGC` as the queue Push and `ResetGCObjectTask` as its retire strategy. `ResetGCObjectTask` only re-arms an expired task with `SetRetry(0)` and leaves its update time alone, as manager.go does |
| `AskTask` | the Manager's dispatch (filter `FilterGCTask`, Retry + 1), then either the handler starts or the reservation fails and nothing is reported |
| `ListDeletedObjects` | the listing, the metadata-lag check and the empty result |
| `GCOneObject` | one iteration of the object loop: storage-params failure, skip test, delete and progress report with its cancellation |
| `FinishGC` | the deferred block, which sets current = end+1 on success and reports |
| `ReportTask` | AskTask's own deferred report |
| `ManagerRestart`, `ExecutorRestart` | process restarts |

Three faults of the code's external calls are part of the actions:

- `ReportLost`: `GfSpClient.ReportTask` fails, so the Manager never sees the report. `reportProgress` does not take the resulting error for a cancellation, and the worker goes on.
- `DispatchLost`: `GfSpClient.AskTask` fails after the Manager dispatched, or the reservation fails. The task is not run and not reported.
- `DeletePiece`: the piece-store delete may fail. Its error is ignored, and the pieces stay as a space leak, which spec §5 tolerates.

The queue and the Manager's report handler are not in `src/`. They are modelled from the spec and marked `spec_modelled` in the map:

- a dispatched task stays queued;
- a report updates current, last and UpdateTime, and removes the task once current > end;
- a report for a key that is not queued is canceled.

A key is the range together with the creation time; the incarnation stands for the creation time.

### `GCObjectSpec.tla`: what GC promises

This is the abstract specification of GC. It has no queue, worker, retry or restart, and four variables:

- `height`, the chain;
- `deleted`, the objects garbage-collected;
- `stored`, the objects whose pieces are in the store;
- `retired`, the ranges declared collected.

It has three actions:

- `Grow`: the chain grows by one block.
- `Delete(o)`: collects an object whose deleting block is `gcSafeBlockDistance` deep. Its pieces go, or stay when the delete fails.
- `Retire(r)`: declares a range collected once every object deleted inside it was collected.

No action ever puts pieces back, removes the pieces of an object it does not collect, or un-retires a range.

`GCObject` defines `Abstract == INSTANCE GCObjectSpec WITH height <- chainHeight, deleted <- issued, stored <- pieces, retired <- collected`. Its property `GCRefinement == Abstract!Spec` says that every step of the detailed model stutters or is one abstract step. That covers the ticker, a worker's delete and reports, a late report of a canceled or re-dispatched run, and either restart.

### `PickUpTask.tla`

`Walk` is the loop of `PickUpTask`, written as a RECURSIVE operator. One `Pick` step draws every order that `sort.Slice` may produce and every `r` in `[0, total)`. `RefPick` is the reference definition of the weighted choice, where task k owns the draws in `[prefix(k-1), prefix(k))`.

### `RecoverPiece.tla`

This module models one run of `HandleRecoverPieceTask`.

- **Handler:** the gates (`Gate`), the secondary branch (`RecoverSecondary`), the primary branch's endpoint lookup and fan-out (`StartPrimary`), the two `select` cases (`ReceiveDone`, `ReceiveQuit`) and `Decode` with the checksum and PutPiece.
- **Download goroutines:** one per EC piece. `Download` stores the piece and sends on doneCh. `CountDown` is the atomic decrement; the goroutine that reaches 0 moves to `quit`, where the only way on is the rendezvous in `ReceiveQuit`.
- **Errors:** modelled as in the code. `Fail` sets the task error. `ReturnSilently` is a return where only a shadowed `err` was set.

### `SealObject.tla`

This module models the seal path of one object, which three actors share:

- **Seal handler** (`HandleSealObjectTask`): `SubmitSeal` is one iteration of `sealObject`'s submit loop, and `SealListen` drives `listenSealObject`.
- **Receive handler** (`HandleReceivePieceTask`) on a secondary: `ReceiveListen` runs the same listen loop. `ReceiveCheck` re-queries the object, sets `Sealed`, and on a slot mismatch deletes the integrity meta and pieces (`piecesKept`).
- **Manager** `RejectUnSealObject`: `StartReject`, then `SendReject` and `PollReject`, which is `ListenRejectUnSealObject`.

The callers share these pieces:

- `listen[c]` holds the locals of `listenSealObject` and of `Gnfd.ListenObjectSeal` for each caller `c`. `ListenPoll` is one query of the object.
- `IncludeSeal` and `IncludeReject` are the chain including a broadcast transaction.

The signer is asynchronous, so a submit that returned an error may still leave a transaction in flight. Every chain query may fail.

`FairSpec` adds weak fairness for each of the three handlers (`SealHandler`, `ReceiveHandler`, `RejectHandler`). The chain gets no fairness.

### `UploadQueues.tla` (instance `MCUploadQueues.tla`)

This module models the replicate queue and the recovery queue.

The state:

- `queue[k]`, a set of task records `[obj, id, update, retry]`, keyed by the object;
- each worker's copy of the task it runs;
- the clock `now`;
- the SP DB's `progress` for each object;
- `writes`, the DB writes of the retire strategy that are still in flight;
- `reserved`, the units that live spans hold in the Executor's resource scope.

A task needs `Need[k]` units, its `EstimateLimit`. The scope admits `ScopeLimit` units.

The actions map to the code as follows.

| Action | Code |
|---|---|
| `Create` | the Manager's dedup check (`TaskUploading` or `TaskRecovering`), then the queue Push with the retire strategy `GCReplicatePieceQueue` or `GCRecoverQueue` |
| `AskTask` | `AskTask` up to `ReserveResource`: it reads `RemainingResource`, then the Manager dispatches a task that `FilterUploadingTask` accepts and whose need fits that limit (`Matches`, PopByLimit), with Retry + 1 and a fresh UpdateTime |
| `AskTaskNoMatch` | `ErrNoTaskMatchLimit`, after which the worker sleeps |
| `Reserve` | `ReserveResource`. `BeginSpan` fails; or `ReserveResources` fails because the scope no longer has room; or the units are reserved. After a failure the worker returns with no report. |
| `ReportTask` | the handler of the task's kind returns, then `AskTask`'s defers run: the report, then `ReleaseResource`. A success for a queued key removes the task and records done. |
| `ExpiredWrite` | the goroutine that `GCReplicatePieceQueue` starts |
| `Tick` | the clock advances |

The queue, the report handler and the resource manager are not in `src/` and follow the spec. A reservation succeeds, atomically, only if it keeps the scope within its limit, and `span.Done` returns it. The `id` field and `MaxTasks` only name task instances for the properties.

## 3. Runs

| Run | Module and cfg | Expect | What it shows |
|---|---|---|---|
| gc_safety | MCGCObject / MCGCObject.cfg | pass | with lost reports, lost dispatches and failed deletes, `NoRangeLost` holds, and `GCObject` refines `GCObjectSpec` (`GCRefinement`): only safe objects are collected, no pieces are restored, and a range is retired only after its loop went over every object in it |
| gc_progress_monotone | MCGCObject / MCGCObjectMonotone.cfg | violation | a GC task's CurrentBlockNumber moves back (see the list below) |
| pick_candidate | PickUpTask / MCPickUpTask.cfg | pass | a candidate is always returned |
| pick_proportional | PickUpTask / MCPickUpTaskProportional.cfg | violation | with priorities ⟨1,2⟩ the lower-priority task gets 2 of the 3 draws; with ⟨1,1⟩ the second task is never picked. The spec disagrees with itself: its §4.3 step 2 gives the code's ≥ rule, and its §8 property 4 requires priority / total |
| recover_decode | RecoverPiece / MCRecoverPiece.cfg | pass | decode only runs with at least dataShards pieces stored (`DecodeHasEnoughPieces`); under `FairSpec` the handler always returns, whichever downloads fail (`HandlerReturns`) |
| recover_not_enough | RecoverPiece / MCRecoverPieceNotEnough.cfg | violation | all 3 pieces arrive, yet the task fails with RecoveryPieceNotEnough because `select` took quitCh first |
| recover_decode_race | RecoverPiece / MCRecoverPieceDecodeRace.cfg | violation | a goroutine still downloading when decode starts, which is a data race on `recoveryDataSources` |
| recover_leak | RecoverPiece / MCRecoverPieceLeak.cfg | violation | the last goroutine blocks forever on the unbuffered quitCh |
| seal_safety | SealObject / MCSealObject.cfg | pass | a seal task ends without error only when the object is sealed; a receive task sets Sealed only when it is sealed; under `FairSpec` both handlers return, and a failed seal task's `RejectUnSealObject` runs to an end even if the chain never includes a transaction (`SealTaskResolves`) |
| reject_unseal | SealObject / MCSealObjectReject.cfg | violation | `RejectUnSealObject` returns nil while the object is still created and a seal is in flight |
| queue_filter | MCUploadQueues / MCUploadQueues.cfg | pass | Retry stays ≤ MaxRetry + 1; a task instance is handed out again only after its running handout timed out; the scope holds exactly the needs of the running tasks and never more than its limit, though the limit each worker asked with can be stale (`ReservationsMatchRunning`) |
| queue_expired_write | MCUploadQueues / MCUploadQueuesExpiredWrite.cfg | violation | an object whose latest replicate task succeeded shows REPLICATE_OBJECT_ERROR |

What the two GC runs show:

- **gc_safety** covers lag, re-dispatch, reservation failures, cancellation and restarts of both processes.
- **gc_progress_monotone:** `ResetGCObjectTask` re-arms a task a worker still runs. A second worker takes it, and its failure report carries the progress it was dispatched with. Reports are applied to the queued task whichever worker sends them. So the trace also fits a late success report from the first worker followed by the second worker's failure report; either way, the queued progress moves back.

What the seal and queue violation runs show:

- **reject_unseal:** a send succeeds, but its listen times out, and no later attempt returns an error. TLC's trace has two failed sends and then a successful one; three successful sends whose listens all time out give the same result. Because of the shadowed `err` at manager.go:530, the function returns the outer `err`, which is nil. Meanwhile the seal transaction is still in flight.
- **queue_expired_write:** an expired task is evicted by a Push, and its DB write stays in flight. A new task for the same object is created and succeeds. Then the late write replaces done with error.

Every property of a passing run has a mutant in `PROJECT.json`, a plausible bug in the mapped code that TLC catches:

- `FilterGCTask` not installed breaks `TypeOK`, whose retry bound is what the filter guarantees;
- `<=` instead of `<` in the skip test, which breaks `GCRefinement`: a range is retired although an object in it was skipped;
- the metadata-lag check dropped;
- a retire strategy that evicts expired GC tasks;
- the walk comparing before adding;
- breaking out one piece early;
- `CountDown` testing the counter's value from before the decrement, so no goroutine sends on quitCh and, when every download fails, the handler waits forever (`HandlerReturns`);
- `listenSealObject` dropping the last error;
- `FilterUploadingTask` testing the timeout before the retry count;
- `FilterUploadingTask` accepting a running task;
- `ReserveResource` taking the reservation as granted because the Manager matched the task against the limit. Two workers that read the same remaining limit then overfill the scope (`ReservationsMatchRunning`);
- `RejectUnSealObject`'s loop going back to the send without counting the iteration. Under fairness the Manager then polls and resends forever (`SealTaskResolves`).

Two more behaviours were seen while modelling the queues. They are left out of the runs:

- A run handed out before a timeout re-dispatch can report success. That retires the key under the re-dispatched run, and a new task for the object may then run beside it.
- A recovery or replicate task that exceeded its retries stays queued until a Push into a full queue evicts it, and while it is queued no new task for the object is admitted.

Both depend on the Manager's report handler, which is not in the repository.

### Bounds and why they are enough

**MCGCObject:**

- 2 workers (symmetric);
- 3 objects, deleted at blocks 1, 2 and 2, so that two objects share a block and the `<` skip test matters;
- ranges of 2 blocks;
- safe distance 1;
- queue capacity 1, so that every second Push meets a full queue and runs the retire strategy;
- timeout 1, and MaxRetry 0, so that a dispatched task is expired at once and the second-dispatch path is reached;
- 5 blocks, 3 clock ticks and 1 Manager restart.

Every action and every disjunct fires. There are about 1 000 000 distinct states, explored in about 40 s with 2 workers. The three faults multiply the states. Two abstractions keep the run short: the workers' copy of a task holds only the fields the Manager reads, and the never-read `LastDeletedObjectId` is left out.

**PickUpTask:** up to 3 candidates with priorities in {1,2,3}. This includes equal priorities, where the unstable sort matters.

**RecoverPiece:** dataShards 2 and parity 1. This is the smallest setting where the loop can break before the last goroutine.

**SealObject:** MaxRetry 1 (two submits), two ListenObjectSeal calls of two polls each, three reject sends with two polls each. These are the code's structure at its smallest. The reject run needs all three sends, so `RejectUnSealObjectRetry` keeps its real value of 3. The passing run has about 140 000 states, and its liveness check takes about a second.

**UploadQueues:** 2 objects, 2 workers (both symmetric), capacity 1, timeout 1, MaxRetry 1, 4 clock ticks and 4 tasks. The scope's limit is 2 units: a replicate task needs 2 and a recovery task 1. So one running recovery task leaves room for another recovery task but not for a replicate task, and two workers that read the same empty scope can be handed one of each. With MaxRetry 1 a task can be handed out twice: the second time after a timeout, and then it exceeds its retries. Capacity 1 makes every second Create evict. The run has about 1 000 000 states, in about 30 s.

### Fairness

`seal_safety` uses `SealObject`'s `FairSpec`. It assumes weak fairness for the seal handler, the receive handler and the Manager's `RejectUnSealObject`: each is a goroutine, and its chain queries and sends return on error or timeout. The chain is not assumed to include anything, so `SealTaskResolves` holds only because every loop counts its iterations.

`recover_decode` and `recover_leak` use fairness. Their `FairSpec` assumes weak fairness for the handler and for each goroutine: the Go scheduler runs every runnable goroutine, and the downloads and chain calls return because they carry the task's context. Under this fairness the handler always returns, because the last goroutine's send on quitCh is always enabled while the handler is still in the select. A goroutine blocked on a channel that nobody reads any more stays blocked, and that is the leak.

The RecoverPiece and SealObject runs set `CHECK_DEADLOCK FALSE`, because each models one handler run, and a handler run terminates. The GC and PickUpTask runs end in terminal states of the bounds, or in the `Done` stutter step. The UploadQueues run checks deadlock: an idle worker whose ask finds no task takes the `AskTaskNoMatch` step, as the worker loop does.

## 4. Not modelled, and the plan

The build order is:

1. **GC core** (done).
2. **Dispatch fairness** (PickUpTask, done).
3. **Recovery fan-out** (done).
4. **Seal path** (done).
5. **Upload queues** (replicate and recovery queues done). Composing them with the seal path is left. So are the upload, resumable-upload, seal and receive queues, whose strategies have the same shape.
6. **Abstract GC spec** (safety part done): `GCObjectSpec` and `GCRefinement`.
7. **GC liveness:** "every safe range is eventually collected" does not hold as the code stands. A task that failed keeps Retry ≥ 1, and only a Push into a full queue resets it (the hazard at manager.go:450). In the bounded model the chain stops at `MaxHeight`, so the Pushes that would eventually reset the task stop too. A counterexample would then come from the bound rather than from the code, and the property is not checked.

These parts are left out:

- `discontinueBuckets`, `syncConsensusInfo` and `Statistics`: sequential chain or database calls with no control state.
- The executor's per-type counters (`doing*TaskCnt`): they feed only `Statistics`. The recovery case's defer adds 1 where it should subtract it.
- Executor shutdown: the worker loop's `ctx.Done` case has no `return`, so workers never exit after cancellation. This is listed as a hazard. No model has a shutdown.
- `LoadTaskFromDB`: disabled in `Start`.
- The zombie and meta GC handlers: they only log.
- The RPC clients other than `AskTask` and `ReportTask`, database CRUD and schemas. `AskTask` and `ReportTask` are modelled by their outcomes, reached or lost.
- The rcmgr scope itself: it is not in `src/`. UploadQueues models the Executor's use of it with one resource dimension, following the spec's admission rule. `ReserveResource` leaves the span open when `ReserveResources` fails. The model shows that this holds no units, but what an open span costs otherwise depends on code outside the repository. The Manager's and the Receiver's `ReserveResource` have the same shape and are not instantiated. The spec says a worker whose reservation fails reports and releases. The code returns without a report, and the task waits for its timeout.
- Segment and piece keys: abstracted to one piece set per object.
