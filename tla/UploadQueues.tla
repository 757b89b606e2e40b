---------------------------- MODULE UploadQueues ----------------------------
(***************************************************************************)
(* The Manager's replicate and recovery queues (manager.go) and the         *)
(* executor workers that take tasks from them.                              *)
(*                                                                         *)
(* Start installs the strategies: GCReplicatePieceQueue retires an expired *)
(* replicate task and writes REPLICATE_OBJECT_ERROR to the SP DB from a    *)
(* goroutine; GCRecoverQueue retires a recovery task that exceeded its     *)
(* retries or its timeout; FilterUploadingTask decides which queued task a *)
(* worker may be handed.  A new task is pushed only when TaskUploading or  *)
(* TaskRecovering finds no queued task with its key, the object.           *)
(*                                                                         *)
(* The queue itself (taskqueue) and the Manager's report handler are not   *)
(* in the repository and follow the spec: a Push into a full queue evicts  *)
(* one task the retire strategy accepts, or fails; a handed-out task stays *)
(* queued with Retry + 1 and a fresh UpdateTime; a successful report       *)
(* removes the task and records the object as done, a failed one leaves it *)
(* queued, and a report for a key no longer queued is canceled.            *)
(*                                                                         *)
(* The workers share the Executor's resource scope (executor.go).  AskTask *)
(* reads RemainingResource, the Manager hands out only a task whose        *)
(* EstimateLimit fits what was read (PopByLimit), and only then does the   *)
(* worker reserve it, so another worker's reservation can come between.    *)
(* The resource manager is not in the repository and follows the spec: a   *)
(* reservation succeeds atomically iff it keeps the scope within its       *)
(* limit, and span.Done returns it.                                        *)
(***************************************************************************)
EXTENDS Naturals, FiniteSets, FiniteSetsExt

CONSTANTS
  Objects,    \* object IDs; a task's key is its object
  Workers,    \* executor worker goroutines
  QueueCap,   \* capacity of each queue
  Timeout,    \* the task timeout, in clock ticks
  MaxRetry,   \* the task's max retry
  ScopeLimit, \* the Executor scope's limit, in resource units
  Need,       \* [Kinds -> Nat]: a task's EstimateLimit, by kind
  MaxTime,    \* bound: the clock stops here
  MaxTasks    \* bound: the most tasks the Manager creates

Kinds == {"replicate", "recovery"}

ASSUME /\ ScopeLimit \in Nat
       /\ Need \in [Kinds -> Nat \ {0}]

Times == 0..MaxTime

Task == [obj : Objects, id : 1..MaxTasks, update : Times, retry : 0..(MaxRetry + 2)]

VARIABLES
  queue,      \* queue[k]: the tasks in the replicate and recovery queues
  worker,     \* each worker: idle, or running a copy of a handed-out task
  now,        \* the clock the tasks' UpdateTime and timeout are read against
  progress,   \* the SP DB's upload progress state of each object
  writes,     \* objects with a GCReplicatePieceQueue DB write still in flight
  succeeded,  \* history: the object's latest replicate task was reported done
  created,    \* history: the number of tasks created, which identifies each
  reserved    \* the units live spans hold in the Executor's scope

vars == <<queue, worker, now, progress, writes, succeeded, created, reserved>>

-----------------------------------------------------------------------------
(* Task attributes (core/task/task.go).  Expired is taken, as in GCObject, *)
(* to be the spec's disjunction; task.go's comment reads "ExceedTimeout    *)
(* and ExceedRetry".  The disjunction only adds evictions.                 *)

ExceedTimeout(t) == t.update + Timeout < now

ExceedRetry(t) == t.retry > MaxRetry

Expired(t) == ExceedTimeout(t) \/ ExceedRetry(t)

InitTask(o) == [obj |-> o, id |-> created + 1, update |-> now, retry |-> 0]

Has(k, o) == \E q \in queue[k] : q.obj = o

-----------------------------------------------------------------------------
(* The strategies of manager.go.                                           *)

\* GCReplicatePieceQueue: retire an expired task (the DB write it starts in
\* a goroutine is added by Push).
GCReplicatePieceQueue(t) == Expired(t)

\* GCRecoverQueue
GCRecoverQueue(t) == ExceedRetry(t) \/ ExceedTimeout(t)

RetireTaskStrategy(k, t) ==
  IF k = "replicate" THEN GCReplicatePieceQueue(t) ELSE GCRecoverQueue(t)

\* Mutant of FilterUploadingTask: the timeout test comes before the retry test.
FilterUploadingTaskTimeoutFirst(t) ==
  ExceedTimeout(t) \/ (~ExceedRetry(t) /\ t.retry = 0)

\* Mutant of FilterUploadingTask: a running task is handed out again.
FilterUploadingTaskAcceptRunning(t) == ~ExceedRetry(t)

\* FilterUploadingTask, installed on both queues: never a task that exceeded
\* its retries; a timed-out one, or one never handed out.
FilterUploadingTask(t) ==
  ~ExceedRetry(t) /\ (ExceedTimeout(t) \/ t.retry = 0)

\* TaskUploading (only the replicate queue is modelled of the four it reads)
\* and TaskRecovering.
TaskUploading(o) == Has("replicate", o)

TaskRecovering(o) == Has("recovery", o)

Repeated(k, o) == IF k = "replicate" THEN TaskUploading(o) ELSE TaskRecovering(o)

-----------------------------------------------------------------------------

Idle == [pc |-> "idle", kind |-> "replicate",
         task |-> [obj |-> CHOOSE o \in Objects : TRUE, id |-> 1, update |-> 0, retry |-> 0]]

Init ==
  /\ queue = [k \in Kinds |-> {}]
  /\ worker = [w \in Workers |-> Idle]
  /\ now = 0
  /\ progress = [o \in Objects |-> "none"]
  /\ writes = {}
  /\ succeeded = [o \in Objects |-> FALSE]
  /\ created = 0
  /\ reserved = 0

\* The Manager creates a task for o unless one is already queued, and pushes
\* it.  Into a full queue the Push evicts one task the retire strategy
\* accepts (for a replicate task its goroutine's DB write is now in flight),
\* or fails with the queue unchanged.
Create(k, o) ==
  /\ created < MaxTasks
  /\ ~Repeated(k, o)
  /\ LET t == InitTask(o) IN
       \/ /\ Cardinality(queue[k]) < QueueCap
          /\ queue' = [queue EXCEPT ![k] = @ \cup {t}]
          /\ UNCHANGED writes
       \/ /\ Cardinality(queue[k]) >= QueueCap
          /\ \E v \in queue[k] :
               /\ RetireTaskStrategy(k, v)
               /\ queue' = [queue EXCEPT ![k] = (@ \ {v}) \cup {t}]
               /\ writes' = IF k = "replicate" THEN writes \cup {v.obj} ELSE writes
       \/ /\ Cardinality(queue[k]) >= QueueCap
          /\ \A v \in queue[k] : ~RetireTaskStrategy(k, v)
          /\ UNCHANGED <<queue, writes>>
  /\ created' = IF queue' # queue THEN created + 1 ELSE created
  /\ succeeded' = IF k = "replicate" /\ queue' # queue
                     THEN [succeeded EXCEPT ![o] = FALSE] ELSE succeeded
  /\ UNCHANGED <<worker, now, progress, reserved>>

\* RemainingResource: what the scope admits beyond the live spans.
RemainingResource == ScopeLimit - reserved

\* The Manager's side of AskTask (PopByLimit): a queued task the filter
\* accepts and whose EstimateLimit fits the asker's limit.
Matches(k, t, limit) == FilterUploadingTask(t) /\ Need[k] <= limit

\* AskTask up to the call of ReserveResource: the worker reads its limit
\* and the Manager hands it a matching task, marking the task running.
AskTask(w) ==
  /\ worker[w].pc = "idle"
  /\ \E k \in Kinds : \E t \in queue[k] :
       LET d == [t EXCEPT !.retry = @ + 1, !.update = now] IN
       /\ Matches(k, t, RemainingResource)
       /\ queue' = [queue EXCEPT ![k] = (@ \ {t}) \cup {d}]
       /\ worker' = [worker EXCEPT ![w] = [pc |-> "reserve", kind |-> k, task |-> d]]
  /\ UNCHANGED <<now, progress, writes, succeeded, created, reserved>>

\* AskTask when no queued task matches: the Manager answers
\* ErrNoTaskMatchLimit and the worker sleeps and asks again.
AskTaskNoMatch(w) ==
  /\ worker[w].pc = "idle"
  /\ \A k \in Kinds : \A t \in queue[k] : ~Matches(k, t, RemainingResource)
  /\ UNCHANGED vars

\* Mutant of ReserveResource: the reservation is taken as granted because
\* the Manager already matched the task against the limit.
ReserveResourceUnchecked(need) == {reserved + need}

\* ReserveResource: BeginSpan fails, or ReserveResources fails because the
\* scope no longer has room (reserved unchanged), or reserves need units.
ReserveResource(need) ==
  {reserved} \cup (IF reserved + need <= ScopeLimit THEN {reserved + need} ELSE {})

\* The worker reserves the task's EstimateLimit.  If that fails, AskTask
\* returns the error: the task is neither run nor reported.
Reserve(w) ==
  /\ worker[w].pc = "reserve"
  /\ reserved' \in ReserveResource(Need[worker[w].kind])
  /\ worker' = IF reserved' = reserved
                 THEN [worker EXCEPT ![w] = Idle]
                 ELSE [worker EXCEPT ![w].pc = "run"]
  /\ UNCHANGED <<queue, now, progress, writes, succeeded, created>>

\* Mutant of ReleaseResource: the deferred span.Done() is missing.
ReleaseResourceSkipped(need) == reserved

\* ReleaseResource: span.Done() returns the span's reservation.
ReleaseResource(need) == reserved - need

\* The handler of the task's kind returns, then AskTask's defers run: the
\* report, then the release of the span.  A success for a queued key
\* removes the task (the replicate one records the object as done); a
\* failure, or a report for a key no longer queued (canceled), changes
\* nothing.
ReportTask(w) ==
  /\ worker[w].pc = "run"
  /\ LET k == worker[w].kind
         o == worker[w].task.obj
     IN \/ /\ Has(k, o)
           /\ queue' = [queue EXCEPT ![k] = {q \in @ : q.obj # o}]
           /\ progress' = IF k = "replicate" THEN [progress EXCEPT ![o] = "done"] ELSE progress
           /\ succeeded' = IF k = "replicate" THEN [succeeded EXCEPT ![o] = TRUE] ELSE succeeded
        \/ UNCHANGED <<queue, progress, succeeded>>
  /\ reserved' = ReleaseResource(Need[worker[w].kind])
  /\ worker' = [worker EXCEPT ![w] = Idle]
  /\ UNCHANGED <<now, writes, created>>

\* The goroutine GCReplicatePieceQueue started runs UpdateUploadProgress.
ExpiredWrite ==
  /\ \E o \in writes :
       /\ progress' = [progress EXCEPT ![o] = "error"]
       /\ writes' = writes \ {o}
  /\ UNCHANGED <<queue, worker, now, succeeded, created, reserved>>

Tick ==
  /\ now < MaxTime
  /\ now' = now + 1
  /\ UNCHANGED <<queue, worker, progress, writes, succeeded, created, reserved>>

Next ==
  \/ \E k \in Kinds, o \in Objects : Create(k, o)
  \/ \E w \in Workers : AskTask(w) \/ AskTaskNoMatch(w) \/ Reserve(w) \/ ReportTask(w)
  \/ ExpiredWrite
  \/ Tick

Spec == Init /\ [][Next]_vars

-----------------------------------------------------------------------------

Running(w) == worker[w].pc \in {"reserve", "run"}

(* Retry never exceeds MaxRetry + 1 (spec invariant 1): FilterUploadingTask *)
(* rejects a task that exceeded its retries before it looks at the timeout, *)
(* so a timed-out task on its last attempt is not handed out again.        *)
RetryWithinBound ==
  /\ \A k \in Kinds : \A t \in queue[k] : t.retry <= MaxRetry + 1
  /\ \A w \in Workers : Running(w) => worker[w].task.retry <= MaxRetry + 1

(* FilterUploadingTask does not hand out a task that is running: two        *)
(* workers run the same task instance only if the earlier handout had       *)
(* timed out when the later one was made.                                  *)
InstanceRunsOnceUnlessTimedOut ==
  \A w1, w2 \in Workers :
    /\ w1 # w2 /\ Running(w1) /\ Running(w2)
    /\ worker[w1].kind = worker[w2].kind
    /\ worker[w1].task.id = worker[w2].task.id
    /\ worker[w1].task.update <= worker[w2].task.update
    => worker[w1].task.update + Timeout < worker[w2].task.update

(* The progress the gateway shows for an object whose latest replicate task *)
(* was reported done is never REPLICATE_OBJECT_ERROR, the "expired" state  *)
(* the retire strategy writes for an earlier task.                         *)
DoneNotShownExpired ==
  \A o \in Objects : succeeded[o] => progress[o] # "error"

(* The scope holds exactly the EstimateLimits of the tasks being run, and  *)
(* never more than its limit.  AskTask reserves only after the Manager     *)
(* matched the task against a RemainingResource read before the call, so   *)
(* another worker may have reserved in between; ReserveResources must      *)
(* refuse then.  A span whose reservation failed holds nothing though      *)
(* ReserveResource never calls its Done, and the deferred ReleaseResource  *)
(* returns the reservation once the handler and its report are done.       *)
ReservationsMatchRunning ==
  /\ reserved = MapThenSumSet(LAMBDA w : Need[worker[w].kind],
                              {w \in Workers : worker[w].pc = "run"})
  /\ reserved <= ScopeLimit
=============================================================================
