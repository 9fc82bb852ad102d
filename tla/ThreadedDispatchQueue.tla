------------------------ MODULE ThreadedDispatchQueue ------------------------
(***************************************************************************)
(* Threading/ThreadedDispatchQueue.cpp and DispatchQueue.cpp: a TaskQueue  *)
(* and the thread that drains it, started by the first task and joined by  *)
(* the teardown.  Any thread submits work, waits for it and tears down,    *)
(* and so does the work itself.  The TaskQueue is taken at its word: its   *)
(* critical sections are atomic and its waits are guards; a task has any   *)
(* delay (asyncAfter), so it enters the deque at any place.                *)
(***************************************************************************)
EXTENDS Naturals, FiniteSets, SequencesExt

CONSTANTS
  Callers,            (* the threads other than the queue's own              *)
  Handler,            (* the queue's own thread                              *)
  MaxTasks,           (* bound: how many tasks and barriers are inserted     *)
  MaxTeardowns        (* bound: how often fullTeardown() is called           *)

ASSUME DispatchQueueAssumption ==
  /\ Handler \notin Callers
  /\ IsFiniteSet(Callers)
  /\ MaxTasks \in Nat /\ MaxTeardowns \in Nat

VARIABLES
  tasks,                (* TaskQueue::_tasks: records [id, by, barrier]      *)
  taskIdCounter,        (* TaskQueue::_taskIdCounter                         *)
  currentRunningTasks,  (* TaskQueue::_currentRunningTasks                   *)
  first,                (* TaskQueue::_first                                 *)
  disposed,             (* TaskQueue::_disposed                              *)
  thread,               (* _thread is set                                    *)
  mutex,                (* who holds _mutex while it joins the thread        *)
  syncByTask,           (* _disableSyncCallsInCallingThread                  *)
  pc,                   (* the call each thread is in                        *)
  work,                 (* the task or barrier each thread executes          *)
  fulfilled,            (* the callers whose sync() promise is set           *)
  teardowns,            (* how many calls of fullTeardown()                  *)
  tornDown,             (* history: one of them returned off the handler     *)
  letGo                 (* history: the task that let go of its own thread   *)

queueVars  == <<tasks, taskIdCounter, first>>
threadVars == <<thread, mutex>>
calls      == <<teardowns, tornDown, letGo>>
vars == <<queueVars, currentRunningTasks, disposed, threadVars, syncByTask, pc, work, fulfilled, calls>>

Threads == Callers \cup {Handler}
Nobody  == Handler
Ids     == 1 .. MaxTasks
None    == [id |-> 0, by |-> Nobody, barrier |-> FALSE]
Task    == [id : Ids, by : Threads, barrier : BOOLEAN]

(* The thread is in user code: its own, or that of the work it executes. *)
InCode(t) == pc[t] = "free"
Busy(t) == work[t] # None

(* isCurrent(): the queue's own thread, and one inside the function of sync(). *)
IsCurrent(t) == t = Handler \/ Busy(t)

Goes(t, from, to) == pc[t] = from /\ pc' = [pc EXCEPT ![t] = to]

(* The bound on ids, counted with the insertions already under way. *)
CanSubmit ==
  taskIdCounter + Cardinality({t \in Threads : pc[t] \in {"enqueue", "enqueueSync"}}) < MaxTasks

-----------------------------------------------------------------------------
Init ==
  /\ tasks = <<>>
  /\ taskIdCounter = 0
  /\ currentRunningTasks = 0
  /\ first = TRUE
  /\ disposed = FALSE
  /\ thread = FALSE
  /\ mutex = Nobody
  /\ syncByTask \in BOOLEAN
  /\ pc = [t \in Threads |-> IF t = Handler THEN "unborn" ELSE "free"]
  /\ work = [t \in Threads |-> None]
  /\ fulfilled = {}
  /\ teardowns = 0
  /\ tornDown = FALSE
  /\ letGo = None

InsertTask(by, barrier) ==
  /\ taskIdCounter < MaxTasks
  /\ taskIdCounter' = taskIdCounter + 1
  /\ \E k \in 1 .. Len(tasks) + 1 :
       tasks' = InsertAt(tasks, k, [id |-> taskIdCounter', by |-> by, barrier |-> barrier])

(* async(), asyncAfter(): _disposed is read before the lock is taken. *)
AsyncBegin(t) ==
  /\ CanSubmit
  /\ ~disposed
  /\ Goes(t, "free", "enqueue")
  /\ UNCHANGED <<queueVars, currentRunningTasks, disposed, threadVars, syncByTask, work, fulfilled, calls>>

EnqueueFirst(t) ==
  /\ Goes(t, "enqueue", IF first THEN "start" ELSE "free")
  /\ InsertTask(Nobody, FALSE)
  /\ UNCHANGED <<first, currentRunningTasks, disposed, threadVars, syncByTask, work, fulfilled, calls>>

Enqueue(t) ==
  /\ Goes(t, "enqueue", IF first THEN "start" ELSE "free")
  /\ InsertTask(Nobody, FALSE)
  /\ first' = FALSE
  /\ UNCHANGED <<currentRunningTasks, disposed, threadVars, syncByTask, work, fulfilled, calls>>

(* sync() by a task and a promise: when the queue is disposed nobody sets it. *)
SyncTaskBegin(t) ==
  /\ syncByTask
  /\ CanSubmit
  /\ ~IsCurrent(t)
  /\ Goes(t, "free", IF disposed THEN "await" ELSE "enqueueSync")
  /\ UNCHANGED <<queueVars, currentRunningTasks, disposed, threadVars, syncByTask, work, fulfilled, calls>>

EnqueueSyncUnstarted(t) ==
  /\ Goes(t, "enqueueSync", "await")
  /\ InsertTask(t, FALSE)
  /\ first' = FALSE
  /\ UNCHANGED <<currentRunningTasks, disposed, threadVars, syncByTask, work, fulfilled, calls>>

EnqueueSync(t) ==
  /\ Goes(t, "enqueueSync", IF first THEN "startSync" ELSE "await")
  /\ InsertTask(t, FALSE)
  /\ first' = FALSE
  /\ UNCHANGED <<currentRunningTasks, disposed, threadVars, syncByTask, work, fulfilled, calls>>

(* startThread() *)
StartThread(t) ==
  /\ mutex = Nobody
  /\ pc[t] \in {"start", "startSync"}
  /\ thread' = TRUE
  /\ pc' = [pc EXCEPT ![t] = IF @ = "start" THEN "free" ELSE "await", ![Handler] = "loop"]
  /\ UNCHANGED <<queueVars, currentRunningTasks, disposed, mutex, syncByTask, work, fulfilled, calls>>

SyncReturn(t) ==
  /\ t \in fulfilled
  /\ Goes(t, "await", "free")
  /\ fulfilled' = fulfilled \ {t}
  /\ UNCHANGED <<queueVars, currentRunningTasks, disposed, threadVars, syncByTask, work, calls>>

-----------------------------------------------------------------------------
(* sync() over TaskQueue::barrier(), which does not start the thread. *)

(* The barrier of t is at the front of q and nothing runs: its function does. *)
BarrierEnter(t, q) ==
  /\ q # <<>>
  /\ q[1].barrier /\ q[1].by = t
  /\ currentRunningTasks = 0
  /\ currentRunningTasks' = currentRunningTasks + 1
  /\ work' = [work EXCEPT ![t] = q[1]]
  /\ pc' = [pc EXCEPT ![t] = "free"]

BarrierLocked(t) ==
  /\ ~syncByTask
  /\ CanSubmit
  /\ ~IsCurrent(t)
  /\ InCode(t)
  /\ InsertTask(t, TRUE)
  /\ \/ BarrierEnter(t, tasks')
     \/ /\ currentRunningTasks # 0 \/ tasks'[1].id # taskIdCounter'
        /\ pc' = [pc EXCEPT ![t] = "barrierWait"]
        /\ UNCHANGED <<currentRunningTasks, work>>
  /\ UNCHANGED <<first, disposed, threadVars, syncByTask, fulfilled, calls>>

BarrierRetry(t) ==
  /\ pc[t] = "barrierWait"
  /\ BarrierEnter(t, tasks)
  /\ UNCHANGED <<queueVars, disposed, threadVars, syncByTask, fulfilled, calls>>

(* dispose() emptied the deque under it: it returns, its function has not run. *)
BarrierDropped(t) ==
  /\ tasks = <<>>
  /\ Goes(t, "barrierWait", "free")
  /\ UNCHANGED <<queueVars, currentRunningTasks, disposed, threadVars, syncByTask, work, fulfilled, calls>>

BarrierFinish(t) ==
  /\ t # Handler
  /\ InCode(t) /\ Busy(t)
  /\ \/ tasks' = tasks /\ \A i \in DOMAIN tasks : tasks[i] # work[t]
     \/ \E i \in DOMAIN tasks : tasks[i] = work[t] /\ tasks' = RemoveAt(tasks, i)
  /\ currentRunningTasks' = currentRunningTasks - 1
  /\ work' = [work EXCEPT ![t] = None]
  /\ UNCHANGED <<taskIdCounter, first, disposed, threadVars, syncByTask, pc, fulfilled, calls>>

-----------------------------------------------------------------------------
(* handler() *)

(* The handler finds a task: one at a time (_maxConcurrentTasks is one), never   *)
(* before a barrier.                                                           *)
TakeTaskWhenever ==
  /\ ~disposed
  /\ tasks # <<>> /\ ~tasks[1].barrier
  /\ tasks' = Tail(tasks)
  /\ currentRunningTasks' = currentRunningTasks + 1
  /\ work' = [work EXCEPT ![Handler] = tasks[1]]
  /\ Goes(Handler, "loop", "free")
  /\ UNCHANGED <<taskIdCounter, first, disposed, threadVars, syncByTask, fulfilled, calls>>

TakeTask ==
  /\ ~disposed
  /\ currentRunningTasks = 0
  /\ tasks # <<>> /\ ~tasks[1].barrier
  /\ tasks' = Tail(tasks)
  /\ currentRunningTasks' = currentRunningTasks + 1
  /\ work' = [work EXCEPT ![Handler] = tasks[1]]
  /\ Goes(Handler, "loop", "free")
  /\ UNCHANGED <<taskIdCounter, first, disposed, threadVars, syncByTask, fulfilled, calls>>

(* The function returns; that of a sync() sets the promise of its caller. *)
TaskReturn ==
  /\ Goes(Handler, "free", "ending")
  /\ fulfilled' = fulfilled \cup ({work[Handler].by} \ {Nobody})
  /\ UNCHANGED <<queueVars, currentRunningTasks, disposed, threadVars, syncByTask, work, calls>>

TaskFinish ==
  /\ Goes(Handler, "ending", "loop")
  /\ currentRunningTasks' = currentRunningTasks - 1
  /\ work' = [work EXCEPT ![Handler] = None]
  /\ UNCHANGED <<queueVars, disposed, threadVars, syncByTask, fulfilled, calls>>

HandlerExitDrained ==
  /\ disposed /\ tasks = <<>>
  /\ Goes(Handler, "loop", "exited")
  /\ UNCHANGED <<queueVars, currentRunningTasks, disposed, threadVars, syncByTask, work, fulfilled, calls>>

HandlerExit ==
  /\ disposed
  /\ Goes(Handler, "loop", "exited")
  /\ UNCHANGED <<queueVars, currentRunningTasks, disposed, threadVars, syncByTask, work, fulfilled, calls>>

-----------------------------------------------------------------------------
(* fullTeardown(): TaskQueue::dispose(), then teardownThread(). *)

TeardownBegin(t) ==
  /\ teardowns < MaxTeardowns
  /\ teardowns' = teardowns + 1
  /\ Goes(t, "free", IF disposed THEN "lock" ELSE "disposeSet")
  /\ UNCHANGED <<queueVars, currentRunningTasks, disposed, threadVars, syncByTask, work, fulfilled,
                 tornDown, letGo>>

DisposeSet(t) ==
  /\ disposed' = TRUE
  /\ Goes(t, "disposeSet", "disposeSwap")
  /\ UNCHANGED <<queueVars, currentRunningTasks, threadVars, syncByTask, work, fulfilled, calls>>

DisposeSwap(t) ==
  /\ tasks' = <<>>
  /\ Goes(t, "disposeSwap", "lock")
  /\ UNCHANGED <<taskIdCounter, first, currentRunningTasks, disposed, threadVars, syncByTask, work,
                 fulfilled, calls>>

(* teardownThread() holds _mutex while it joins, unless there is nothing to join. *)
JoinBegin(t) ==
  /\ mutex = Nobody
  /\ thread /\ ~IsCurrent(t)
  /\ mutex' = t
  /\ Goes(t, "lock", "join")
  /\ UNCHANGED <<queueVars, currentRunningTasks, disposed, thread, syncByTask, work, fulfilled, calls>>

JoinEnd(t) ==
  /\ pc[Handler] = "exited"
  /\ Goes(t, "join", "free")
  /\ mutex' = Nobody
  /\ thread' = FALSE
  /\ tornDown' = TRUE
  /\ UNCHANGED <<queueVars, currentRunningTasks, disposed, syncByTask, work, fulfilled, teardowns, letGo>>

DetachAlways(t) ==
  /\ mutex = Nobody
  /\ Goes(t, "lock", "free")
  /\ thread' = FALSE
  /\ tornDown' = (tornDown \/ t # Handler)
  /\ letGo' = IF t = Handler /\ thread THEN work[t] ELSE letGo
  /\ UNCHANGED <<queueVars, currentRunningTasks, disposed, mutex, syncByTask, work, fulfilled, teardowns>>

Detach(t) ==
  /\ mutex = Nobody
  /\ ~thread \/ IsCurrent(t)
  /\ Goes(t, "lock", "free")
  /\ thread' = FALSE
  /\ tornDown' = (tornDown \/ t # Handler)
  /\ letGo' = IF t = Handler /\ thread THEN work[t] ELSE letGo
  /\ UNCHANGED <<queueVars, currentRunningTasks, disposed, mutex, syncByTask, work, fulfilled, teardowns>>

-----------------------------------------------------------------------------
(* Calls user code may make, and the steps a thread owes once it made one. *)
Call(t) == AsyncBegin(t) \/ SyncTaskBegin(t) \/ BarrierLocked(t) \/ TeardownBegin(t)

Continue(t) ==
  \/ Enqueue(t) \/ EnqueueSync(t) \/ StartThread(t) \/ SyncReturn(t)
  \/ BarrierRetry(t) \/ BarrierDropped(t) \/ BarrierFinish(t)
  \/ DisposeSet(t) \/ DisposeSwap(t) \/ JoinBegin(t) \/ JoinEnd(t) \/ Detach(t)

Handle == TakeTask \/ TaskReturn \/ TaskFinish \/ HandlerExit

Next ==
  \/ \E t \in Threads : Call(t) \/ Continue(t)
  \/ Handle

Spec == Init /\ [][Next]_vars

(* Threads go on, the functions they run return, the handler keeps looping. *)
Fairness == WF_vars(Handle) /\ \A t \in Threads : WF_vars(Continue(t))

FairSpec == Spec /\ Fairness

-----------------------------------------------------------------------------
(* The type invariant; at most one function runs. *)
TypeOK ==
  /\ tasks \in Seq(Task)
  /\ taskIdCounter \in 0 .. MaxTasks
  /\ currentRunningTasks \in 0 .. 1
  /\ first \in BOOLEAN /\ disposed \in BOOLEAN /\ thread \in BOOLEAN
  /\ mutex \in Threads
  /\ syncByTask \in BOOLEAN
  /\ pc \in [Threads -> {"free", "enqueue", "enqueueSync", "start", "startSync", "await",
                         "barrierWait", "disposeSet", "disposeSwap", "lock", "join",
                         "unborn", "loop", "ending", "exited"}]
  /\ work \in [Threads -> Task \cup {None}]
  /\ fulfilled \subseteq Callers
  /\ teardowns \in 0 .. MaxTeardowns
  /\ tornDown \in BOOLEAN
  /\ letGo \in Task \cup {None}

(* The assertion of startThread() holds: the thread is started once, whoever   *)
(* enqueues first, and even when a teardown comes between the two steps.       *)
StartsOnce ==
  \A t \in Threads : pc[t] \in {"start", "startSync"} => ~thread /\ pc[Handler] = "unborn"

(* When fullTeardown() has returned to a thread that is not the queue's own,   *)
(* no task of the queue is running on it, and none ever will be, but for the    *)
(* one that tore the queue down itself and so let go of its thread: what the    *)
(* others use may be destroyed.  It holds though the function of a sync() does  *)
(* not join, and though the thread may be started after its teardown.           *)
TeardownQuiesces == tornDown /\ Busy(Handler) => work[Handler] = letGo

(* What the destructor of JavaScriptRuntime says of fullTeardown(): "Force the  *)
(* (idempotent) drain+join here, before any member is destroyed.  Off the JS    *)
(* thread this joins".  Then no function of a sync() is left on the thread; but *)
(* the code has no thread to join when that function tore the queue down.       *)
TeardownDrains == tornDown => \A c \in Callers : work[Handler].by # c

(* A call of sync() on a queue that is not disposed returns, in either mode.   *)
SyncReturns ==
  \A t \in Callers : (pc[t] \in {"enqueueSync", "barrierWait"}) ~> (pc[t] = "free" \/ disposed)

(* A task that tears its queue down waits for the thread that joins it.         *)
JoinsItself == pc[Handler] = "lock" /\ mutex # Nobody

(* fullTeardown() returns to everybody, however many call it at once, on a      *)
(* queue that is disposed already or not, from inside a sync(), in a task of    *)
(* the queue or on any thread, unless a task and the thread that joins it wait  *)
(* for each other.                                                              *)
TeardownReturns ==
  \A t \in Threads :
    pc[t] \in {"disposeSet", "disposeSwap", "lock", "join"} ~> (pc[t] = "free" \/ JoinsItself)
=============================================================================
