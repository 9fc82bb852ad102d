------------------------------ MODULE TaskQueue ------------------------------
(***************************************************************************)
(* Threading/TaskQueue.cpp: the deque of tasks sorted by execute time that *)
(* every ThreadedDispatchQueue and the standalone main queue are made of.  *)
(* Callers enqueue, cancel, call barrier() (which runs its function in the *)
(* calling thread), dispose() and setMaxConcurrentTasks(); workers loop on *)
(* runNextTask() as ThreadedDispatchQueue::handler does.  A critical       *)
(* section of _mutex is one action together with the notifyAll() after it; *)
(* everything the code does outside _mutex is a step of its own.           *)
(***************************************************************************)
EXTENDS Naturals, FiniteSets, SequencesExt

CONSTANTS
  Callers,          (* threads that submit, cancel, sync and dispose         *)
  Workers,          (* threads that loop on runNextTask                      *)
  MaxTasks,         (* bound: how many tasks and barriers are ever inserted  *)
  MaxTime,          (* bound: the last instant of the clock                  *)
  Concurrencies,    (* the values setMaxConcurrentTasks may be called with   *)
  CanDispose        (* whether the callers may dispose the queue             *)

ASSUME TaskQueueAssumption ==
  /\ Callers \cap Workers = {}
  /\ IsFiniteSet(Callers) /\ IsFiniteSet(Workers)
  /\ MaxTasks \in Nat /\ MaxTime \in Nat
  /\ Concurrencies \subseteq Nat \ {0}
  /\ CanDispose \in BOOLEAN

VARIABLES
  tasks,                (* _tasks                                             *)
  taskIdCounter,        (* _taskIdCounter                                     *)
  empty,                (* _empty: what the listener was told last            *)
  first,                (* _first: no task was enqueued yet                   *)
  currentRunningTasks,  (* _currentRunningTasks                               *)
  maxConcurrentTasks,   (* _maxConcurrentTasks                                *)
  disposed,             (* _disposed, an atomic written outside _mutex        *)
  now,                  (* steady_clock                                       *)
  pc,                   (* where each thread is                               *)
  time,                 (* its executeTime, or until when it waits            *)
  own,                  (* the id of the task or of the barrier it runs       *)
  skipped               (* history: the barriers that returned without running *)

queueVars  == <<tasks, taskIdCounter, empty, first, currentRunningTasks, maxConcurrentTasks>>
threadVars == <<pc, time, own>>
vars       == <<queueVars, disposed, now, threadVars, skipped>>

Threads == Callers \cup Workers
Ids     == 1 .. MaxTasks
Times   == 0 .. MaxTime
Task    == [id : Ids, time : Times, barrier : BOOLEAN]

(* Threads executing the function of a task or of a barrier. *)
Executing == {t \in Threads : pc[t] \in {"run", "barrierRun"}}

-----------------------------------------------------------------------------
(* The order of the deque, and the insertion point std::upper_bound finds. *)

Before(a, b) == a.time < b.time \/ (a.time = b.time /\ a.id < b.id)

LowerBound(e, k) ==
  /\ \A i \in 1 .. k - 1 : tasks[i].time < e.time
  /\ \A i \in k .. Len(tasks) : e.time <= tasks[i].time

UpperBound(e, k) ==
  /\ \A i \in 1 .. k - 1 : ~Before(e, tasks[i])
  /\ \A i \in k .. Len(tasks) : Before(e, tasks[i])

(* The bound on ids, counted with the insertions already under way. *)
CanSubmit ==
  taskIdCounter + Cardinality({c \in Callers : pc[c] \in {"enqueue", "barrier"}}) < MaxTasks

(* insertTask(): the next id, and the deque with the task in its place. *)
InsertTask(when, barrier, q) ==
  LET e == [id |-> taskIdCounter + 1, time |-> when, barrier |-> barrier]
  IN  /\ taskIdCounter < MaxTasks
      /\ taskIdCounter' = taskIdCounter + 1
      /\ \E k \in 1 .. Len(tasks) + 1 : UpperBound(e, k) /\ q = InsertAt(tasks, k, e)

(* lockFreeRemoveTask() *)
RemoveTask(id, q) ==
  \/ /\ \A i \in DOMAIN tasks : tasks[i].id # id
     /\ q = tasks
  \/ \E i \in DOMAIN tasks : tasks[i].id = id /\ q = RemoveAt(tasks, i)

WokenHandlers(p) == [t \in Threads |-> IF p[t] \in {"asleep", "nap"} THEN "loop" ELSE p[t]]
WokenBarriers(p) == [t \in Threads |-> IF p[t] = "barrierAsleep" THEN "barrierWait" ELSE p[t]]

(* notifyAll(): every thread waiting on the condition looks again. *)
Woken(p) ==
  [t \in Threads |-> CASE p[t] = "barrierAsleep" -> "barrierWait"
                       [] p[t] \in {"asleep", "nap"} -> "loop"
                       [] OTHER -> p[t]]

-----------------------------------------------------------------------------
Init ==
  /\ tasks = <<>>
  /\ taskIdCounter = 0
  /\ empty = TRUE
  /\ first = TRUE
  /\ currentRunningTasks = 0
  /\ maxConcurrentTasks = 1
  /\ disposed = FALSE
  /\ now = 0
  /\ pc = [t \in Threads |-> IF t \in Workers THEN "loop" ELSE "idle"]
  /\ time = [t \in Threads |-> 0]
  /\ own = [t \in Threads |-> 0]
  /\ skipped = {}

(* enqueue() reads _disposed before it locks; an execute time is any instant. *)
EnqueueBegin(c) ==
  /\ pc[c] = "idle"
  /\ ~disposed
  /\ CanSubmit
  /\ \E when \in Times : time' = [time EXCEPT ![c] = when]
  /\ pc' = [pc EXCEPT ![c] = "enqueue"]
  /\ UNCHANGED <<queueVars, disposed, now, own, skipped>>

EnqueueLockedSilent(c) ==
  /\ pc[c] = "enqueue"
  /\ InsertTask(time[c], FALSE, tasks')
  /\ first' = FALSE
  /\ pc' = Woken([pc EXCEPT ![c] = "idle"])
  /\ UNCHANGED <<empty, currentRunningTasks, maxConcurrentTasks, disposed, now, time, own, skipped>>

EnqueueLocked(c) ==
  /\ pc[c] = "enqueue"
  /\ InsertTask(time[c], FALSE, tasks')
  /\ first' = FALSE
  /\ empty' = FALSE
  /\ pc' = Woken([pc EXCEPT ![c] = "idle"])
  /\ UNCHANGED <<currentRunningTasks, maxConcurrentTasks, disposed, now, time, own, skipped>>

(* cancel(): an id enqueue() returned, so of no barrier, queued still or not. *)
Cancel(c) ==
  /\ pc[c] = "idle"
  /\ \E id \in 1 .. taskIdCounter :
       /\ \A i \in DOMAIN tasks : tasks[i].barrier => tasks[i].id # id
       /\ RemoveTask(id, tasks')
  /\ pc' = Woken(pc)
  /\ UNCHANGED <<taskIdCounter, empty, first, currentRunningTasks, maxConcurrentTasks,
                 disposed, now, time, own, skipped>>

(* barrier() takes its execute time before the lock and never reads _disposed. *)
BarrierBegin(c) ==
  /\ pc[c] = "idle"
  /\ CanSubmit
  /\ time' = [time EXCEPT ![c] = now]
  /\ pc' = [pc EXCEPT ![c] = "barrier"]
  /\ UNCHANGED <<queueVars, disposed, now, own, skipped>>

(* One turn of its loop over the deque q: return, wait, or run the function. *)
BarrierTurn(c, id, q) ==
  \/ /\ q = <<>>
     /\ pc' = [pc EXCEPT ![c] = "idle"]
     /\ own' = [own EXCEPT ![c] = 0]
     /\ skipped' = skipped \cup {id}
     /\ UNCHANGED currentRunningTasks
  \/ /\ q # <<>>
     /\ currentRunningTasks # 0 \/ q[1].id # id
     /\ pc' = [pc EXCEPT ![c] = "barrierAsleep"]
     /\ own' = [own EXCEPT ![c] = id]
     /\ UNCHANGED <<skipped, currentRunningTasks>>
  \/ /\ q # <<>>
     /\ currentRunningTasks = 0
     /\ q[1].id = id
     /\ currentRunningTasks' = currentRunningTasks + 1
     /\ pc' = [pc EXCEPT ![c] = "barrierRun"]
     /\ own' = [own EXCEPT ![c] = id]
     /\ UNCHANGED skipped

BarrierLocked(c) ==
  /\ pc[c] = "barrier"
  /\ InsertTask(time[c], TRUE, tasks')
  /\ BarrierTurn(c, taskIdCounter', tasks')
  /\ UNCHANGED <<empty, first, maxConcurrentTasks, disposed, now, time>>

BarrierRetry(c) ==
  /\ pc[c] = "barrierWait"
  /\ BarrierTurn(c, own[c], tasks)
  /\ UNCHANGED <<tasks, taskIdCounter, empty, first, maxConcurrentTasks, disposed, now,
                 time>>

BarrierFinishUncounted(c) ==
  /\ pc[c] = "barrierRun"
  /\ RemoveTask(own[c], tasks')
  /\ pc' = Woken([pc EXCEPT ![c] = "idle"])
  /\ own' = [own EXCEPT ![c] = 0]
  /\ UNCHANGED <<taskIdCounter, empty, first, currentRunningTasks, maxConcurrentTasks, disposed,
                 now, time, skipped>>

BarrierFinish(c) ==
  /\ pc[c] = "barrierRun"
  /\ RemoveTask(own[c], tasks')
  /\ currentRunningTasks' = currentRunningTasks - 1
  /\ pc' = Woken([pc EXCEPT ![c] = "idle"])
  /\ own' = [own EXCEPT ![c] = 0]
  /\ UNCHANGED <<taskIdCounter, empty, first, maxConcurrentTasks, disposed, now, time, skipped>>

(* dispose(): test _disposed, set it, then empty the deque under the lock. *)
DisposeBegin(c) ==
  /\ CanDispose
  /\ pc[c] = "idle"
  /\ ~disposed
  /\ pc' = [pc EXCEPT ![c] = "disposeSet"]
  /\ UNCHANGED <<queueVars, disposed, now, time, own, skipped>>

DisposeSet(c) ==
  /\ pc[c] = "disposeSet"
  /\ disposed' = TRUE
  /\ pc' = [pc EXCEPT ![c] = "disposeSwap"]
  /\ UNCHANGED <<queueVars, now, time, own, skipped>>

DisposeSwap(c) ==
  /\ pc[c] = "disposeSwap"
  /\ tasks' = <<>>
  /\ pc' = Woken([pc EXCEPT ![c] = "idle"])
  /\ UNCHANGED <<taskIdCounter, empty, first, currentRunningTasks, maxConcurrentTasks,
                 disposed, now, time, own, skipped>>

SetMaxConcurrentTasks(c) ==
  /\ pc[c] = "idle"
  /\ maxConcurrentTasks' \in Concurrencies \ {maxConcurrentTasks}
  /\ pc' = Woken(pc)
  /\ UNCHANGED <<tasks, taskIdCounter, empty, first, currentRunningTasks, disposed, now,
                 time, own, skipped>>

-----------------------------------------------------------------------------
(* handler(): runNextTask() until the queue is disposed. *)

(* nextTask() may start one more task. *)
Unlimited == TRUE
Available == currentRunningTasks < maxConcurrentTasks

(* The execute time of the task at the front has come. *)
Due(task) == task.time <= now

HandlerExit(w) ==
  /\ pc[w] = "loop"
  /\ disposed
  /\ pc' = [pc EXCEPT ![w] = "exited"]
  /\ UNCHANGED <<queueVars, disposed, now, time, own, skipped>>

WaitForTask(w) ==
  /\ pc[w] = "loop"
  /\ ~disposed
  /\ tasks = <<>>
  /\ empty' = TRUE
  /\ pc' = [pc EXCEPT ![w] = "asleep"]
  /\ UNCHANGED <<tasks, taskIdCounter, first, currentRunningTasks, maxConcurrentTasks,
                 disposed, now, time, own, skipped>>

(* Too many tasks are running, or a barrier is next. *)
WaitForTurn(w) ==
  /\ pc[w] = "loop"
  /\ ~disposed
  /\ tasks # <<>>
  /\ ~Available \/ tasks[1].barrier
  /\ pc' = [pc EXCEPT ![w] = "asleep"]
  /\ UNCHANGED <<queueVars, disposed, now, time, own, skipped>>

WaitUntilDue(w) ==
  /\ pc[w] = "loop"
  /\ ~disposed
  /\ tasks # <<>>
  /\ Available
  /\ ~tasks[1].barrier
  /\ ~Due(tasks[1])
  /\ time' = [time EXCEPT ![w] = tasks[1].time]
  /\ pc' = [pc EXCEPT ![w] = "nap"]
  /\ UNCHANGED <<queueVars, disposed, now, own, skipped>>

TakeTaskUncounted(w) ==
  /\ pc[w] = "loop"
  /\ ~disposed
  /\ tasks # <<>>
  /\ Available
  /\ ~tasks[1].barrier
  /\ Due(tasks[1])
  /\ own' = [own EXCEPT ![w] = tasks[1].id]
  /\ tasks' = Tail(tasks)
  /\ pc' = [pc EXCEPT ![w] = "run"]
  /\ UNCHANGED <<taskIdCounter, empty, first, currentRunningTasks, maxConcurrentTasks, disposed,
                 now, time, skipped>>

TakeTask(w) ==
  /\ pc[w] = "loop"
  /\ ~disposed
  /\ tasks # <<>>
  /\ Available
  /\ ~tasks[1].barrier
  /\ Due(tasks[1])
  /\ own' = [own EXCEPT ![w] = tasks[1].id]
  /\ currentRunningTasks' = currentRunningTasks + 1
  /\ tasks' = Tail(tasks)
  /\ pc' = [pc EXCEPT ![w] = "run"]
  /\ UNCHANGED <<taskIdCounter, empty, first, maxConcurrentTasks, disposed, now, time, skipped>>

TaskFinish(w) ==
  /\ pc[w] = "run"
  /\ currentRunningTasks' = currentRunningTasks - 1
  /\ pc' = Woken([pc EXCEPT ![w] = "loop"])
  /\ own' = [own EXCEPT ![w] = 0]
  /\ UNCHANGED <<tasks, taskIdCounter, empty, first, maxConcurrentTasks, disposed, now, time,
                 skipped>>

(* The timed wait for the front task ends. *)
NapOver(w) ==
  /\ pc[w] = "nap"
  /\ now >= time[w]
  /\ pc' = [pc EXCEPT ![w] = "loop"]
  /\ UNCHANGED <<queueVars, disposed, now, time, own, skipped>>

(* maxTime has come, or the wait of a thread ends for no reason. *)
StrayWakeup(t) ==
  /\ pc[t] \in {"asleep", "nap", "barrierAsleep"}
  /\ pc' = [pc EXCEPT ![t] = IF @ = "barrierAsleep" THEN "barrierWait" ELSE "loop"]
  /\ UNCHANGED <<queueVars, disposed, now, time, own, skipped>>

Tick ==
  /\ now < MaxTime
  /\ now' = now + 1
  /\ UNCHANGED <<queueVars, disposed, threadVars, skipped>>

-----------------------------------------------------------------------------
(* Calls of a caller that may come or not, and the steps it owes once it called. *)
Call(c) ==
  \/ EnqueueBegin(c) \/ Cancel(c) \/ BarrierBegin(c) \/ DisposeBegin(c)
  \/ SetMaxConcurrentTasks(c)

Continue(c) ==
  \/ EnqueueLocked(c) \/ BarrierLocked(c) \/ BarrierRetry(c) \/ BarrierFinish(c)
  \/ DisposeSet(c) \/ DisposeSwap(c)

Handle(w) ==
  \/ HandlerExit(w) \/ WaitForTask(w) \/ WaitForTurn(w) \/ WaitUntilDue(w)
  \/ TakeTask(w) \/ TaskFinish(w) \/ NapOver(w)

Next ==
  \/ \E c \in Callers : Call(c) \/ Continue(c)
  \/ \E w \in Workers : Handle(w)
  \/ \E t \in Threads : StrayWakeup(t)
  \/ Tick

Spec == Init /\ [][Next]_vars

(* Threads that can run do, the functions they run return, and time passes. *)
Fairness ==
  /\ \A c \in Callers : WF_vars(Continue(c))
  /\ \A w \in Workers : WF_vars(Handle(w))
  /\ WF_vars(Tick)

FairSpec == Spec /\ Fairness

-----------------------------------------------------------------------------
(* The type invariant: the deque holds tasks with ids already given out, and *)
(* a thread is where its role allows it to be.                               *)
TypeOK ==
  /\ tasks \in Seq(Task)
  /\ taskIdCounter \in 0 .. MaxTasks
  /\ empty \in BOOLEAN /\ first \in BOOLEAN /\ disposed \in BOOLEAN
  /\ currentRunningTasks \in Nat
  /\ maxConcurrentTasks \in Concurrencies \cup {1}
  /\ now \in Times
  /\ pc \in [Threads -> {"idle", "enqueue", "barrier", "barrierWait", "barrierAsleep",
                         "barrierRun", "disposeSet", "disposeSwap",
                         "loop", "asleep", "nap", "run", "exited"}]
  /\ \A c \in Callers : pc[c] \notin {"loop", "asleep", "nap", "run", "exited"}
  /\ \A w \in Workers : pc[w] \in {"loop", "asleep", "nap", "run", "exited"}
  /\ time \in [Threads -> Times]
  /\ own \in [Threads -> 0 .. MaxTasks]
  /\ \A t \in Threads : pc[t] \in {"barrierWait", "barrierAsleep", "barrierRun", "run"}
                          => own[t] \in Ids
  /\ skipped \subseteq Ids

(* _currentRunningTasks counts the threads that are inside a function: no path *)
(* of runNextTask() and barrier(), disposal included, leaks or loses a unit,   *)
(* which would close the queue for ever or open it to a second task.           *)
RunningCount == currentRunningTasks = Cardinality(Executing)

(* While barrier() runs its function no task of the queue and no other barrier *)
(* does, even one inserted meanwhile with an earlier execute time (the test    *)
(* barrierDoesNotAllowOtherTaskToRun).                                         *)
BarrierExclusive ==
  \A t \in Threads : pc[t] = "barrierRun" => Executing = {t}

(* The deque stays sorted by execute time and, at equal times, by id: what the *)
(* front is read for in nextTask() and barrier().                              *)
QueueSorted ==
  \A i, j \in DOMAIN tasks : i < j => Before(tasks[i], tasks[j])

(* When the listener was last told the queue is empty, no task waits in it and *)
(* its handler thread runs none: the exit coordinator relies on it to stop.    *)
EmptyIsIdle ==
  empty => /\ \A i \in DOMAIN tasks : tasks[i].barrier
           /\ \A w \in Workers : pc[w] # "run"

(* A barrier that has returned has run its function, as DispatchQueue::safeSync *)
(* (which returns true whatever barrier() did) documents.                       *)
SyncExecuted == skipped = {}

Queued(id) == \E i \in DOMAIN tasks : tasks[i].id = id

(* Every task and barrier that enters the deque of a queue nobody disposes     *)
(* leaves it, run or cancelled: no wakeup is lost between the waits of         *)
(* nextTask() and barrier(), which share one condition variable.               *)
TasksLeave == \A id \in Ids : Queued(id) ~> ~Queued(id)

(* After dispose() every handler thread leaves its loop, so that the join of   *)
(* ThreadedDispatchQueue::teardownThread ends, whatever it was waiting for.    *)
HandlersExit == disposed ~> \A w \in Workers : pc[w] = "exited"

(* The queue, whatever its threads do, is a serial executor: a barrier stays in *)
(* the deque while it runs but is no longer pending.                            *)
Pending == {tasks[i] : i \in DOMAIN tasks} \ {e \in Task : \E t \in Executing : own[t] = e.id}

Executor == INSTANCE OrderedExecutor WITH
  pending <- Pending,
  running <- {own[t] : t \in Executing},
  spent   <- (1 .. taskIdCounter)
               \ ({e.id : e \in Pending} \cup {own[t] : t \in Executing}),
  clock   <- now

IsOrderedExecutor == Executor!Spec
=============================================================================
