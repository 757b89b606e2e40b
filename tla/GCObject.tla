------------------------------ MODULE GCObject ------------------------------
(***************************************************************************)
(* Garbage collection of deleted objects.                                  *)
(*                                                                         *)
(* Three actors share the gcObjectQueue:                                   *)
(*  - the Manager event loop, whose gcObjectTicker cuts the chain into     *)
(*    block ranges [start, end] and pushes one GCObject task per range     *)
(*    (manager.go eventLoop), with ResetGCObjectTask as the queue's retire *)
(*    strategy and FilterGCTask as its filter strategy;                    *)
(*  - the Executor workers, each asking for a task and running             *)
(*    HandleGCObjectTask (execute_task.go), reporting progress after       *)
(*    every collected object;                                              *)
(*  - the environment: the chain grows, the metadata service indexes       *)
(*    deleted objects behind the chain, the clock advances, and either     *)
(*    process restarts.                                                    *)
(*                                                                         *)
(* A task handed out stays in the queue with Retry + 1 (that is what makes *)
(* FilterGCTask's "Retry == 0" mean "not running"); a report refreshes its *)
(* progress and UpdateTime, and removes it once CurrentBlockNumber > End.  *)
(***************************************************************************)
EXTENDS Naturals, Sequences, FiniteSets, SequencesExt

CONSTANTS
  Workers,               \* executor worker goroutines (maxExecuteNum of them)
  Objects,               \* ids of the objects that are deleted on chain
  DeleteAt,              \* [Objects -> Nat]: the block that deletes each object
  GCStartHeight,         \* the configured initial gcBlockHeight
  GCObjectBlockInterval, \* gcObjectBlockInterval
  GCSafeBlockDistance,   \* gcSafeBlockDistance
  QueueCap,              \* capacity of gcObjectQueue
  GCTimeout,             \* Timeout of a GCObject task, in clock ticks
  GCMaxRetry,            \* MaxRetry of a GCObject task
  MaxHeight,             \* bound: highest chain block explored
  MaxTime,               \* bound: last clock tick explored
  MaxManagerRestarts     \* bound: Manager restarts explored

ASSUME /\ Workers # {}
       /\ Objects \subseteq Nat
       /\ DeleteAt \in [Objects -> Nat]
       /\ {GCStartHeight, GCObjectBlockInterval, GCSafeBlockDistance,
           GCTimeout, GCMaxRetry, MaxHeight, MaxTime,
           MaxManagerRestarts} \subseteq Nat
       /\ QueueCap \in Nat \ {0}

VARIABLES
  chainHeight,   \* Consensus().CurrentHeight()
  metaHeight,    \* responseEndBlockID: last block the metadata service indexed
  now,           \* wall clock, in ticks
  gcBlockHeight, \* ManageModular.gcBlockHeight
  gcQueue,       \* ManageModular.gcObjectQueue: a set of task records
  pieces,        \* objects whose pieces are still in the piece store
  issued,        \* history: objects the object loop deleted (DeletePiece issued)
  worker,        \* per worker: program counter, its copy of the task, objects to go
  collected,     \* history: ranges whose task the Manager retired as finished
  incarnation    \* how many times the Manager process has restarted

vars == <<chainHeight, metaHeight, now, gcBlockHeight, gcQueue, pieces, issued,
          worker, collected, incarnation>>

Heights == 0..(MaxHeight + GCObjectBlockInterval + 1)

Task == [start : Heights, end : Heights, current : Heights,
         retry : 0..(GCMaxRetry + 1),
         update : 0..MaxTime,
         inc : 0..MaxManagerRestarts]

CopyTask == [start : Heights, end : Heights, current : Heights,
             inc : 0..MaxManagerRestarts]

\* The executor's copy of a task: the fields of its reports that the
\* Manager reads (LastDeletedObjectId is recorded but read by nobody).
Copy(t) == [start |-> t.start, end |-> t.end, current |-> t.current, inc |-> t.inc]

NoTask == [start |-> 0, end |-> 0, current |-> 0, inc |-> 0]

\* A task's key names its range and its creation time; one Manager
\* incarnation creates each range once, so the incarnation stands for the
\* creation time.
Key(t) == <<t.start, t.inc>>

HasKey(k) == \E q \in gcQueue : Key(q) = k

QueuedWithKey(k) == CHOOSE q \in gcQueue : Key(q) = k

-----------------------------------------------------------------------------
(* Task attributes (core/task/task.go, Task interface).                    *)

ExceedTimeout(t) == t.update + GCTimeout < now

ExceedRetry(t) == t.retry > GCMaxRetry

\* The implementation of Expired is not in the repository.  Its comment
\* (task.go) reads "whether ExceedTimeout and ExceedRetry"; the spec (§3)
\* defines it as the disjunction, which is taken here.  The disjunction only
\* adds resets and evictions, so every behaviour under the conjunction is
\* also a behaviour of this model.
Expired(t) == ExceedTimeout(t) \/ ExceedRetry(t)

\* InitGCObjectTask: a fresh task for [start, end], not yet handed out.
InitGCObjectTask(start, end) ==
  [start |-> start, end |-> end, current |-> start, retry |-> 0,
   update |-> now, inc |-> incarnation]

-----------------------------------------------------------------------------
(* Queue strategies installed by ManageModular.Start.                      *)

\* Mutant of ResetGCObjectTask: evicts an expired task, as GCReceiveQueue does.
ResetGCObjectTaskEvicting(t) == [evict |-> Expired(t), task |-> t]

\* ResetGCObjectTask: returns false (never evicts); an expired task is kept
\* and re-armed with SetRetry(0).
ResetGCObjectTask(t) ==
  [evict |-> FALSE,
   task  |-> IF Expired(t) THEN [t EXCEPT !.retry = 0] ELSE t]

\* Mutant of FilterGCTask: the filter strategy is not installed.
FilterGCTaskAny(t) == TRUE

\* FilterGCTask: only a task that is not running may be handed out.
FilterGCTask(t) == t.retry = 0

\* The Manager's side of AskTask: the task stays queued, marked as running.
Dispatch(t) == [t EXCEPT !.retry = @ + 1, !.update = now]

\* The Manager's side of ReportTask for a GCObject task t.
Canceled(t) == ~HasKey(Key(t))

ApplyReport(t) ==
  IF Canceled(t) THEN gcQueue
  ELSE LET q == QueuedWithKey(Key(t)) IN
       IF t.current > t.end
         THEN gcQueue \ {q}
         ELSE (gcQueue \ {q}) \cup
                {[q EXCEPT !.current = t.current, !.update = now]}

CollectedAfter(t) ==
  IF ~Canceled(t) /\ t.current > t.end
    THEN collected \cup {<<t.start, t.end>>} ELSE collected

\* A report the Manager receives and applies.
Report(t) ==
  /\ gcQueue' = ApplyReport(t)
  /\ collected' = CollectedAfter(t)

\* GfSpClient.ReportTask fails to connect or the RPC fails: the Manager
\* never sees the report, and the executor gets ErrRpcUnknown, which
\* reportProgress does not take for ErrCanceledTask.
ReportLost == UNCHANGED <<gcQueue, collected>>

-----------------------------------------------------------------------------
(* Manager: the gcObjectTicker case of eventLoop.                          *)

\* Mutant of SafeToCollect: the reorg safety margin is ignored.
SafeToCollectAnyDepth(end) == end <= chainHeight

\* The range ending at end is gcSafeBlockDistance blocks deep on chain.
SafeToCollect(end) == end + GCSafeBlockDistance <= chainHeight

\* taskqueue Push: into a queue below capacity it succeeds; into a full one
\* the retire strategy visits the queued tasks and the Push succeeds only if
\* it evicted a victim.
PushGC(t) ==
  LET full    == Cardinality(gcQueue) >= QueueCap
      retired == {q \in gcQueue : full /\ ResetGCObjectTask(q).evict}
      kept    == {IF full THEN ResetGCObjectTask(q).task ELSE q : q \in gcQueue \ retired}
      ok      == ~full \/ retired # {}
  IN [ok |-> ok, queue |-> IF ok THEN kept \cup {t} ELSE kept]

\* The gcObjectTicker case: cut [start, end] once it is deep enough, push it,
\* and advance gcBlockHeight only if the Push succeeded.
GCObjectTick ==
  LET end  == gcBlockHeight + GCObjectBlockInterval
      push == PushGC(InitGCObjectTask(gcBlockHeight, end))
  IN /\ SafeToCollect(end)
     /\ gcQueue' = push.queue
     /\ gcBlockHeight' = IF push.ok THEN end + 1 ELSE gcBlockHeight
     /\ UNCHANGED <<chainHeight, metaHeight, now, pieces, issued, worker, collected, incarnation>>

-----------------------------------------------------------------------------
(* Executor: AskTask and HandleGCObjectTask.                               *)

Idle == [pc |-> "idle", task |-> NoTask, todo |-> <<>>]

\* GfSpClient.AskTask fails to connect or its RPC fails after the Manager
\* answered (ErrRpcUnknown), or ReserveResource fails: the worker returns
\* without running or reporting the task the Manager dispatched.
DispatchLost == UNCHANGED worker

\* A worker asks; the Manager hands out a task its filter accepts, and the
\* worker runs it unless the dispatch is lost.
AskTask(w) ==
  /\ worker[w].pc = "idle"
  /\ \E t \in gcQueue :
       /\ FilterGCTask(t)
       /\ gcQueue' = (gcQueue \ {t}) \cup {Dispatch(t)}
       /\ \/ worker' = [worker EXCEPT ![w] =
                          [pc |-> "list", task |-> Copy(t), todo |-> <<>>]]
          \/ DispatchLost
  /\ UNCHANGED <<chainHeight, metaHeight, now, gcBlockHeight, pieces, issued, collected, incarnation>>

\* The deferred block of HandleGCObjectTask: on success CurrentBlockNumber
\* becomes End + 1; either way the task is reported, and the worker then
\* owes the Executor's own deferred ReportTask.
FinishGC(w, t, succeeded) ==
  LET final == IF succeeded THEN [t EXCEPT !.current = t.end + 1] ELSE t
  IN /\ Report(final) \/ ReportLost
     /\ worker' = [worker EXCEPT ![w] =
                     [pc |-> "report", task |-> final, todo |-> <<>>]]

ByDeleteAt(a, b) == DeleteAt[a] < DeleteAt[b] \/ (DeleteAt[a] = DeleteAt[b] /\ a < b)

\* ListDeletedObjectsByBlockNumberRange: the objects deleted in [start, end]
\* that the metadata service has indexed, in deletion order.
DeletedObjectsInRange(t) ==
  {o \in Objects : DeleteAt[o] \in t.start..t.end /\ DeleteAt[o] <= metaHeight}

\* Mutant of MetadataUpToDate: the metadata lag check is dropped.
MetadataUpToDateAlways(t) == TRUE

MetadataUpToDate(t) == metaHeight >= t.start /\ metaHeight >= t.end

ListDeletedObjects(w) ==
  LET t    == worker[w].task
      objs == DeletedObjectsInRange(t)
  IN /\ worker[w].pc = "list"
     /\ \/ FinishGC(w, t, FALSE)                     \* query failed
        \/ /\ ~MetadataUpToDate(t)                   \* try again later
           /\ FinishGC(w, t, FALSE)
        \/ /\ MetadataUpToDate(t) /\ objs = {}       \* has no object
           /\ FinishGC(w, t, TRUE)
        \/ /\ MetadataUpToDate(t) /\ objs # {}
           /\ worker' = [worker EXCEPT ![w].pc = "gc",
                                       ![w].todo = SetToSortSeq(objs, ByDeleteAt)]
           /\ UNCHANGED <<gcQueue, collected>>
     /\ UNCHANGED <<chainHeight, metaHeight, now, gcBlockHeight, pieces, issued, incarnation>>

\* Mutant of AlreadyCollected: "<=" for "<".
AlreadyCollectedAtOrBefore(o, t) == DeleteAt[o] <= t.current

\* DeletePiece of the object's primary and secondary pieces; its error is
\* ignored, so the pieces may stay in the store.
DeletePiece(o) == {pieces \ {o}, pieces}

\* The skip test of the object loop.
AlreadyCollected(o, t) == DeleteAt[o] < t.current

\* One iteration of the object loop, or its exit when the list is done.
GCOneObject(w) ==
  LET t == worker[w].task IN
  /\ worker[w].pc = "gc"
  /\ \/ /\ worker[w].todo = <<>>                     \* isSucceed
        /\ FinishGC(w, t, TRUE)
        /\ UNCHANGED <<pieces, issued>>
     \/ /\ worker[w].todo # <<>>
        /\ LET o  == Head(worker[w].todo)
               t2 == [t EXCEPT !.current = DeleteAt[o]]
           IN \/ /\ FinishGC(w, t, FALSE)            \* storage params query failed
                 /\ UNCHANGED <<pieces, issued>>
              \/ /\ AlreadyCollected(o, t)           \* skip
                 /\ worker' = [worker EXCEPT ![w].todo = Tail(@)]
                 /\ UNCHANGED <<gcQueue, collected, pieces, issued>>
              \/ /\ ~AlreadyCollected(o, t)
                 /\ pieces' \in DeletePiece(o)
                 /\ issued' = issued \cup {o}
                 /\ \/ /\ Report(t2) /\ Canceled(t2)
                       \* canceled: return; the deferred block reports t2 again,
                       \* which the Manager again finds canceled
                       /\ worker' = [worker EXCEPT ![w] =
                                       [pc |-> "report", task |-> t2, todo |-> <<>>]]
                    \* not canceled, or the answer did not come back
                    \/ /\ Report(t2) \/ ReportLost
                       /\ worker' = [worker EXCEPT ![w].task = t2,
                                                   ![w].todo = Tail(@)]
  /\ UNCHANGED <<chainHeight, metaHeight, now, gcBlockHeight, incarnation>>

\* The deferred e.ReportTask of ExecuteModular.AskTask, after the handler.
ReportTask(w) ==
  /\ worker[w].pc = "report"
  /\ Report(worker[w].task) \/ ReportLost
  /\ worker' = [worker EXCEPT ![w] = Idle]
  /\ UNCHANGED <<chainHeight, metaHeight, now, gcBlockHeight, pieces, issued, incarnation>>

-----------------------------------------------------------------------------
(* Restarts.  The Manager keeps gcBlockHeight and the queue in memory and  *)
(* Start does not call LoadTaskFromDB; the Executor keeps nothing.         *)

ManagerRestart ==
  /\ incarnation < MaxManagerRestarts
  /\ incarnation' = incarnation + 1
  /\ gcQueue' = {}
  /\ gcBlockHeight' = GCStartHeight
  /\ UNCHANGED <<chainHeight, metaHeight, now, pieces, issued, worker, collected>>

ExecutorRestart ==
  /\ worker' = [w \in Workers |-> Idle]
  /\ UNCHANGED <<chainHeight, metaHeight, now, gcBlockHeight, gcQueue, pieces, issued,
                 collected, incarnation>>

-----------------------------------------------------------------------------
(* Environment.                                                            *)

NewBlock ==
  /\ chainHeight < MaxHeight
  /\ chainHeight' = chainHeight + 1
  /\ UNCHANGED <<metaHeight, now, gcBlockHeight, gcQueue, pieces, issued, worker, collected, incarnation>>

MetadataIndex ==
  /\ metaHeight < chainHeight
  /\ metaHeight' = metaHeight + 1
  /\ UNCHANGED <<chainHeight, now, gcBlockHeight, gcQueue, pieces, issued, worker, collected, incarnation>>

ClockTick ==
  /\ now < MaxTime
  /\ now' = now + 1
  /\ UNCHANGED <<chainHeight, metaHeight, gcBlockHeight, gcQueue, pieces, issued, worker,
                 collected, incarnation>>

-----------------------------------------------------------------------------

Init ==
  /\ chainHeight = 0
  /\ metaHeight = 0
  /\ now = 0
  /\ gcBlockHeight = GCStartHeight
  /\ gcQueue = {}
  /\ pieces = Objects
  /\ issued = {}
  /\ worker = [w \in Workers |-> Idle]
  /\ collected = {}
  /\ incarnation = 0

Next ==
  \/ GCObjectTick
  \/ \E w \in Workers : AskTask(w) \/ ListDeletedObjects(w) \/ GCOneObject(w)
                        \/ ReportTask(w)
  \/ ManagerRestart
  \/ ExecutorRestart
  \/ NewBlock
  \/ MetadataIndex
  \/ ClockTick

Spec == Init /\ [][Next]_vars

-----------------------------------------------------------------------------
(* Properties.                                                             *)

TypeOK ==
  /\ chainHeight \in 0..MaxHeight
  /\ metaHeight \in 0..chainHeight
  /\ now \in 0..MaxTime
  /\ gcBlockHeight \in Heights
  /\ gcQueue \subseteq Task
  /\ pieces \subseteq Objects
  /\ issued \subseteq Objects
  /\ worker \in [Workers -> [pc : {"idle", "list", "gc", "report"},
                             task : CopyTask, todo : Seq(Objects)]]
  /\ collected \subseteq Heights \X Heights
  /\ incarnation \in 0..MaxManagerRestarts

(* No GC range is ever lost: every block below gcBlockHeight lies in a     *)
(* range that is still queued or that has been collected.  The ticker only *)
(* advances gcBlockHeight after a successful Push, and the gcObjectQueue's *)
(* retire strategy restarts expired tasks instead of evicting them.        *)
NoRangeLost ==
  \A b \in GCStartHeight..(gcBlockHeight - 1) :
    \/ \E q \in gcQueue : b \in q.start..q.end
    \/ \E r \in collected : b \in r[1]..r[2]

(* Refinement: the collected objects are those the object loop deleted,   *)
(* the stored ones those still in the piece store, and the collected       *)
(* ranges those the Manager retired.                                       *)
Abstract == INSTANCE GCObjectSpec
              WITH height <- chainHeight, deleted <- issued, stored <- pieces,
                   retired <- collected

(* GCObject implements GCObjectSpec: every step of the Manager, of the     *)
(* workers running HandleGCObjectTask and of a restart either stutters or  *)
(* is one abstract step.  The chain only grows; the object loop deletes    *)
(* only objects whose deletion is safe, and no step restores pieces or      *)
(* removes those of another object; a range is retired only in a step      *)
(* after the loop went over every object deleted in it.  This holds with   *)
(* DeletePiece errors ignored, reports lost by the RPC client, and         *)
(* whatever the interleaving of reports from workers running one range.    *)
GCRefinement == Abstract!Spec

(* The progress of a queued GC task never moves back: a step leaves every  *)
(* task still queued under the same key with a CurrentBlockNumber at least *)
(* as large ("progress is monotone" for GC-object tasks).  Workers report  *)
(* progress after every deleted object and once more when they finish.    *)
GCProgressMonotone ==
  [][\A q \in gcQueue : \A q2 \in gcQueue' :
       Key(q2) = Key(q) => q2.current >= q.current]_vars
=============================================================================
