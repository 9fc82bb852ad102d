-------------------------- MODULE MainThreadManager --------------------------
(***************************************************************************)
(* runtime/Utils/MainThreadManager.cpp: the queue of the tasks that mutate *)
(* platform views on the main thread.  Each task is stamped with a flush   *)
(* id; a flush of id n runs the tasks at the front whose id is at most n.  *)
(* Outside a batch a dispatch posts its own flush to the main thread       *)
(* dispatcher; inside one, the tasks of the threads that are allowed to    *)
(* (MainThreadBatchAllowScope) are parked until the batch ends.  Flushes,  *)
(* batches and task bodies nest on the main thread: its call stack is a    *)
(* variable.  A critical section of _mutex is an action, with the          *)
(* notify_all() inside it.                                                 *)
(***************************************************************************)
EXTENDS Naturals, Sequences, FiniteSets

CONSTANTS
  Threads,      (* the threads other than the main one                       *)
  Main,         (* the main thread                                           *)
  MaxTasks,     (* bound: how many tasks are dispatched                      *)
  MaxCalls,     (* bound: how many batches, pumps and idle callbacks         *)
  CanTearDown   (* whether clearAndTeardown() may be called                  *)

ASSUME MainThreadAssumption ==
  /\ Main \notin Threads
  /\ MaxTasks \in Nat /\ MaxCalls \in Nat
  /\ CanTearDown \in BOOLEAN

VARIABLES
  pendingTasks,        (* _pendingTasks: records [flushId, task]              *)
  batchCount,          (* _batchCount                                         *)
  executingTaskCount,  (* _executingTaskCount                                 *)
  flushIdSequence,     (* _flushIdSequence                                    *)
  tasksSequence,       (* _tasksSequence                                      *)
  batchFlushId,        (* _batchFlushId                                       *)
  idleCallbacks,       (* how many _onIdleCallbacks                           *)
  idleFlushScheduled,  (* _idleFlushScheduled                                 *)
  tornDown,            (* _tornDown, an atomic written outside _mutex         *)
  mainQueue,           (* what IMainThreadDispatcher holds, first in first out *)
  stack,               (* the main thread's calls into this class             *)
  pc,                  (* where each thread is in doDispatch() and the like   *)
  job,                 (* the task and the flush id a thread dispatches       *)
  dispatched,          (* history: how many tasks were stamped                *)
  finished,            (* history: the tasks whose function returned          *)
  calls                (* how many batches, pumps and idle callbacks so far   *)

taskVars   == <<pendingTasks, flushIdSequence, tasksSequence, batchFlushId, dispatched>>
countVars  == <<batchCount, executingTaskCount>>
idleVars   == <<idleCallbacks, idleFlushScheduled>>
threadVars == <<pc, job>>
vars == <<taskVars, countVars, idleVars, tornDown, mainQueue, stack, threadVars, finished, calls>>

Everyone == Threads \cup {Main}
Nobody   == Main

Loops == {"flush", "pump", "end"}       \* flushTasksWithId() in its three uses
Frame(op, arg) == [op |-> op, arg |-> arg, upTo |-> 0, by |-> Nobody]
Pump(op, arg)  == [Frame(op, arg) EXCEPT !.upTo = dispatched]

Top == stack[Len(stack)]
Pop(s) == SubSeq(s, 1, Len(s) - 1)
OnTop(op) == stack # <<>> /\ Top.op = op
TopIn(ops) == stack # <<>> /\ Top.op \in ops

(* The main thread is in the event loop or in user code, free to call in. *)
MainFree ==
  /\ pc[Main] = "idle"
  /\ stack # <<>> => Top.op \in {"run", "batch", "callback"}

Free(t) == pc[t] = "idle" /\ (t = Main => MainFree)

(* The predicate waitUntilQuiescent() waits for. *)
Quiescent == batchCount = 0 /\ executingTaskCount = 0 /\ pendingTasks = <<>>

Released(p, by) == [t \in Everyone |-> IF t = by /\ p[t] = "waitSync" THEN "idle" ELSE p[t]]
Notified(p) == [t \in Everyone |-> IF p[t] = "asleep" THEN "awake" ELSE p[t]]

-----------------------------------------------------------------------------
Init ==
  /\ pendingTasks = <<>>
  /\ batchCount = 0
  /\ executingTaskCount = 0
  /\ flushIdSequence = 0
  /\ tasksSequence = 0
  /\ batchFlushId = 0
  /\ idleCallbacks = 0
  /\ idleFlushScheduled = FALSE
  /\ tornDown = FALSE
  /\ mainQueue = <<>>
  /\ stack = <<>>
  /\ pc = [t \in Everyone |-> "idle"]
  /\ job = [t \in Everyone |-> [task |-> 0, flushId |-> 0, sync |-> FALSE]]
  /\ dispatched = 0
  /\ finished = {}
  /\ calls = 0

(* doDispatch() reads _tornDown before it locks; the main thread never blocks *)
(* on itself, so only the others dispatch synchronously.                      *)
DispatchBegin(t) ==
  /\ Free(t)
  /\ ~tornDown
  /\ dispatched + Cardinality({u \in Everyone : pc[u] = "dispatch"}) < MaxTasks
  /\ \E sync \in {FALSE, t # Main} : job' = [job EXCEPT ![t].sync = sync]
  /\ pc' = [pc EXCEPT ![t] = "dispatch"]
  /\ UNCHANGED <<taskVars, countVars, idleVars, tornDown, mainQueue, stack, finished, calls>>

(* The stamp; whether the thread is in a batch allow scope is up to it. *)
Parked(t) ==
  /\ batchCount > 0
  /\ flushIdSequence' = flushIdSequence
  /\ batchFlushId' = flushIdSequence
  /\ pc' = [pc EXCEPT ![t] = IF job[t].sync THEN "post" ELSE "idle"]

Stamped(t) ==
  /\ flushIdSequence' = flushIdSequence + 1
  /\ batchFlushId' = batchFlushId
  /\ pc' = [pc EXCEPT ![t] = "post"]

DispatchLocked(t) ==
  /\ pc[t] = "dispatch"
  /\ Parked(t) \/ Stamped(t)
  /\ tasksSequence' = tasksSequence + 1
  /\ dispatched' = dispatched + 1
  /\ pendingTasks' = Append(pendingTasks, [flushId |-> flushIdSequence', task |-> dispatched'])
  /\ job' = [job EXCEPT ![t].flushId = flushIdSequence', ![t].task = dispatched']
  /\ UNCHANGED <<countVars, idleVars, tornDown, mainQueue, stack, finished, calls>>

ScheduleFlushStale(t) ==
  /\ pc[t] = "post"
  /\ mainQueue' = Append(mainQueue, [op |-> "flush", by |-> IF job[t].sync THEN t ELSE Nobody,
                                     arg |-> IF job[t].flushId = 0 THEN 0 ELSE job[t].flushId - 1])
  /\ pc' = [pc EXCEPT ![t] = IF job[t].sync THEN "waitSync" ELSE "idle"]
  /\ UNCHANGED <<taskVars, countVars, idleVars, tornDown, stack, job, finished, calls>>

(* scheduleFlush(), after the lock is released. *)
ScheduleFlush(t) ==
  /\ pc[t] = "post"
  /\ mainQueue' = Append(mainQueue, [op |-> "flush", arg |-> job[t].flushId,
                                     by |-> IF job[t].sync THEN t ELSE Nobody])
  /\ pc' = [pc EXCEPT ![t] = IF job[t].sync THEN "waitSync" ELSE "idle"]
  /\ UNCHANGED <<taskVars, countVars, idleVars, tornDown, stack, job, finished, calls>>

-----------------------------------------------------------------------------
(* The main thread's event loop and flushTasksWithId(). *)

PostedFlush ==
  /\ stack = <<>> /\ pc[Main] = "idle"
  /\ mainQueue # <<>>
  /\ Head(mainQueue).op = "flush"
  /\ stack' = <<[Frame("flush", Head(mainQueue).arg) EXCEPT !.by = Head(mainQueue).by]>>
  /\ mainQueue' = Tail(mainQueue)
  /\ UNCHANGED <<taskVars, countVars, idleVars, tornDown, threadVars, finished, calls>>

(* runNextTaskWithId() pops the front task. *)
PopTask ==
  /\ pendingTasks' = Tail(pendingTasks)
  /\ tasksSequence' = tasksSequence + 1
  /\ executingTaskCount' = executingTaskCount + 1
  /\ stack' = Append(stack, Frame("popped", Head(pendingTasks).task))
  /\ UNCHANGED <<flushIdSequence, batchFlushId, dispatched, batchCount, idleVars, tornDown,
                 mainQueue, threadVars, finished, calls>>

RunnableBefore(flushId) == pendingTasks # <<>> /\ Head(pendingTasks).flushId < flushId

Runnable(flushId) == pendingTasks # <<>> /\ Head(pendingTasks).flushId <= flushId

FlushNext ==
  /\ TopIn(Loops)
  /\ Runnable(Top.arg)
  /\ PopTask

(* runNextTask() *)
RunNextTask ==
  /\ MainFree
  /\ Runnable(flushIdSequence)
  /\ PopTask

(* The loop below is over: its caller, and who waits for it, go on. *)
LeaveLoop(s, p) ==
  IF s = <<>> \/ s[Len(s)].op \notin Loops
    THEN stack' = s /\ pc' = p
    ELSE LET f == s[Len(s)] IN
         /\ stack' = IF f.op = "end" THEN Append(Pop(s), [f EXCEPT !.op = "close", !.upTo = 0]) ELSE Pop(s)
         /\ pc' = Released(p, f.by)

FlushDone ==
  /\ TopIn(Loops)
  /\ ~Runnable(Top.arg)
  /\ LeaveLoop(stack, pc)
  /\ UNCHANGED <<taskVars, countVars, idleVars, tornDown, mainQueue, job, finished, calls>>

BodyBegin ==
  /\ OnTop("popped")
  /\ ~tornDown
  /\ stack' = Append(Pop(stack), [Top EXCEPT !.op = "run"])
  /\ UNCHANGED <<taskVars, countVars, idleVars, tornDown, mainQueue, threadVars, finished, calls>>

UndiscountedPc == pc

(* The task is done, or given up: the last one executing tells the waiters. *)
DiscountedPc ==
  IF executingTaskCount = 1 /\ pendingTasks = <<>> THEN Notified(pc) ELSE pc

BodyEnd ==
  /\ OnTop("run") /\ MainFree
  /\ executingTaskCount' = executingTaskCount - 1
  /\ pc' = DiscountedPc
  /\ stack' = Pop(stack)
  /\ finished' = finished \cup {Top.arg}
  /\ UNCHANGED <<taskVars, batchCount, idleVars, tornDown, mainQueue, job, calls>>

(* Torn down since it was popped: it is not run, and the flush stops there. *)
BodySkipped ==
  /\ OnTop("popped")
  /\ tornDown
  /\ executingTaskCount' = executingTaskCount - 1
  /\ LeaveLoop(Pop(stack), DiscountedPc)
  /\ UNCHANGED <<taskVars, batchCount, idleVars, tornDown, mainQueue, job, finished, calls>>

-----------------------------------------------------------------------------
(* Batches and pumps, called from the event loop, a task or another batch. *)

BeginBatch ==
  /\ MainFree
  /\ calls < MaxCalls
  /\ calls' = calls + 1
  /\ batchCount' = batchCount + 1
  /\ stack' = Append(stack, Frame("batch", 0))
  /\ UNCHANGED <<taskVars, executingTaskCount, idleVars, tornDown, mainQueue, threadVars, finished>>

EndInnerBatch ==
  /\ OnTop("batch") /\ MainFree
  /\ batchCount > 1
  /\ batchCount' = batchCount - 1
  /\ stack' = Pop(stack)
  /\ UNCHANGED <<taskVars, executingTaskCount, idleVars, tornDown, mainQueue, threadVars, finished,
                 calls>>

EndLastBatchRewinding ==
  /\ OnTop("batch") /\ MainFree
  /\ batchCount <= 1
  /\ flushIdSequence' = batchFlushId + 1
  /\ stack' = Append(Pop(stack), Pump("end", batchFlushId))
  /\ UNCHANGED <<pendingTasks, tasksSequence, batchFlushId, dispatched, countVars, idleVars,
                 tornDown, mainQueue, threadVars, finished, calls>>

EndLastBatch ==
  /\ OnTop("batch") /\ MainFree
  /\ batchCount <= 1
  /\ flushIdSequence' = flushIdSequence + 1
  /\ stack' = Append(Pop(stack), Pump("end", batchFlushId))
  /\ UNCHANGED <<pendingTasks, tasksSequence, batchFlushId, dispatched, countVars, idleVars,
                 tornDown, mainQueue, threadVars, finished, calls>>

CloseBatchSilent ==
  /\ OnTop("close")
  /\ batchCount' = 0
  /\ pc' = Notified(pc)
  /\ stack' = Pop(stack)
  /\ UNCHANGED <<taskVars, executingTaskCount, idleVars, tornDown, mainQueue, job, finished, calls>>

CloseBatch ==
  /\ OnTop("close")
  /\ batchCount' = 0
  /\ pc' = Notified(pc)
  /\ mainQueue' = IF Top.arg = batchFlushId THEN mainQueue
                  ELSE Append(mainQueue, [op |-> "flush", arg |-> batchFlushId, by |-> Nobody])
  /\ stack' = Pop(stack)
  /\ UNCHANGED <<taskVars, executingTaskCount, idleVars, tornDown, job, finished, calls>>

FlushWithoutStamp ==
  /\ MainFree
  /\ calls < MaxCalls
  /\ calls' = calls + 1
  /\ stack' = Append(stack, Pump("pump", flushIdSequence))
  /\ UNCHANGED <<taskVars, countVars, idleVars, tornDown, mainQueue, threadVars, finished>>

FlushUpToNow ==
  /\ MainFree
  /\ calls < MaxCalls
  /\ calls' = calls + 1
  /\ flushIdSequence' = flushIdSequence + 1
  /\ stack' = Append(stack, Pump("pump", flushIdSequence))
  /\ UNCHANGED <<pendingTasks, tasksSequence, batchFlushId, dispatched, countVars, idleVars,
                 tornDown, mainQueue, threadVars, finished>>

-----------------------------------------------------------------------------
(* Idle callbacks. *)

IdlePost(sequence) == [op |-> "idle", arg |-> sequence, by |-> Nobody]

OnIdle(t) ==
  /\ Free(t)
  /\ calls < MaxCalls
  /\ calls' = calls + 1
  /\ idleCallbacks' = idleCallbacks + 1
  /\ idleFlushScheduled' = TRUE
  /\ mainQueue' = IF idleFlushScheduled THEN mainQueue ELSE Append(mainQueue, IdlePost(tasksSequence))
  /\ UNCHANGED <<taskVars, countVars, tornDown, stack, threadVars, finished>>

PostedIdle ==
  /\ stack = <<>> /\ pc[Main] = "idle"
  /\ mainQueue # <<>>
  /\ Head(mainQueue).op = "idle"
  /\ UNCHANGED <<taskVars, countVars, tornDown, threadVars, finished, calls>>

(* A task was dispatched or run since: look again later. *)
IdleNotYet ==
  /\ PostedIdle
  /\ Head(mainQueue).arg # tasksSequence
  /\ mainQueue' = Append(Tail(mainQueue), IdlePost(tasksSequence))
  /\ UNCHANGED <<idleVars, stack>>

RunOneIdleCallback ==
  /\ PostedIdle
  /\ Head(mainQueue).arg = tasksSequence
  /\ idleCallbacks' = IF idleCallbacks = 0 THEN 0 ELSE idleCallbacks - 1
  /\ idleFlushScheduled' = (idleCallbacks' # 0)
  /\ mainQueue' = Tail(mainQueue)
  /\ stack' = IF idleCallbacks = 0 THEN stack ELSE <<Frame("callback", 0)>>

RunIdleCallback ==
  /\ PostedIdle
  /\ Head(mainQueue).arg = tasksSequence
  /\ idleCallbacks' = IF idleCallbacks = 0 THEN 0 ELSE idleCallbacks - 1
  /\ idleFlushScheduled' = (idleCallbacks' # 0)
  /\ mainQueue' = IF idleCallbacks' = 0 THEN Tail(mainQueue)
                  ELSE Append(Tail(mainQueue), IdlePost(tasksSequence))
  /\ stack' = IF idleCallbacks = 0 THEN stack ELSE <<Frame("callback", 0)>>

CallbackEnd ==
  /\ OnTop("callback") /\ MainFree
  /\ stack' = Pop(stack)
  /\ UNCHANGED <<taskVars, countVars, idleVars, tornDown, mainQueue, threadVars, finished, calls>>

-----------------------------------------------------------------------------
(* waitUntilQuiescent(), never from the main thread: it returns or sleeps. *)

WaitTurn(t) ==
  /\ pc' = [pc EXCEPT ![t] = IF tornDown \/ Quiescent THEN "idle" ELSE "asleep"]
  /\ UNCHANGED <<taskVars, countVars, idleVars, tornDown, mainQueue, stack, job, finished, calls>>

WaitBegin(t) == t # Main /\ pc[t] = "idle" /\ ~(tornDown \/ Quiescent) /\ WaitTurn(t)

WaitAgain(t) == pc[t] = "awake" /\ WaitTurn(t)

WaitTimeout(t) ==
  /\ pc[t] = "asleep"
  /\ pc' = [pc EXCEPT ![t] = "idle"]
  /\ UNCHANGED <<taskVars, countVars, idleVars, tornDown, mainQueue, stack, job, finished, calls>>

(* clearAndTeardown() sets _tornDown, then locks; a second caller that passed *)
(* the test before would clear the queue again, and is left out.              *)
TearDownBegin(t) ==
  /\ CanTearDown
  /\ Free(t)
  /\ ~tornDown
  /\ tornDown' = TRUE
  /\ pc' = [pc EXCEPT ![t] = "tearing"]
  /\ UNCHANGED <<taskVars, countVars, idleVars, mainQueue, stack, job, finished, calls>>

TearDownResetting(t) ==
  /\ pc[t] = "tearing"
  /\ pendingTasks' = <<>>
  /\ batchCount' = 0
  /\ executingTaskCount' = 0
  /\ pc' = Notified([pc EXCEPT ![t] = "idle"])
  /\ UNCHANGED <<flushIdSequence, tasksSequence, batchFlushId, dispatched, idleVars, tornDown,
                 mainQueue, stack, job, finished, calls>>

TearDownLocked(t) ==
  /\ pc[t] = "tearing"
  /\ pendingTasks' = <<>>
  /\ pc' = Notified([pc EXCEPT ![t] = "idle"])
  /\ UNCHANGED <<flushIdSequence, tasksSequence, batchFlushId, dispatched, countVars, idleVars,
                 tornDown, mainQueue, stack, job, finished, calls>>

-----------------------------------------------------------------------------
(* What a thread does by choice, and what it does next once it began. *)
Call(t) == DispatchBegin(t) \/ OnIdle(t) \/ WaitBegin(t) \/ TearDownBegin(t)

Continue(t) == DispatchLocked(t) \/ ScheduleFlush(t) \/ WaitAgain(t) \/ TearDownLocked(t)

CallOnMain == BeginBatch \/ FlushUpToNow \/ RunNextTask

ContinueOnMain ==
  \/ PostedFlush \/ FlushNext \/ FlushDone \/ BodyBegin \/ BodyEnd \/ BodySkipped
  \/ EndInnerBatch \/ EndLastBatch \/ CloseBatch
  \/ IdleNotYet \/ RunIdleCallback \/ CallbackEnd

Next ==
  \/ \E t \in Everyone : Call(t) \/ Continue(t)
  \/ \E t \in Threads : WaitTimeout(t)
  \/ CallOnMain
  \/ ContinueOnMain

Spec == Init /\ [][Next]_vars

(* The main thread keeps returning to its event loop, which keeps draining the *)
(* dispatcher; a thread inside a call of this class finishes it.               *)
Fairness ==
  /\ WF_vars(ContinueOnMain)
  /\ \A t \in Everyone : WF_vars(Continue(t))

FairSpec == Spec /\ Fairness

-----------------------------------------------------------------------------
Op == {"flush", "pump", "end", "close", "popped", "run", "batch", "callback"}

(* The type invariant. *)
TypeOK ==
  /\ pendingTasks \in Seq([flushId : Nat, task : Nat])
  /\ batchCount \in Nat /\ executingTaskCount \in Nat
  /\ flushIdSequence \in Nat /\ tasksSequence \in Nat /\ batchFlushId \in Nat
  /\ idleCallbacks \in Nat /\ idleFlushScheduled \in BOOLEAN /\ tornDown \in BOOLEAN
  /\ mainQueue \in Seq([op : {"flush", "idle"}, arg : Nat, by : Everyone])
  /\ stack \in Seq([op : Op, arg : Nat, upTo : Nat, by : Everyone])
  /\ pc \in [Everyone -> {"idle", "dispatch", "post", "waitSync", "asleep", "awake", "tearing"}]
  /\ job \in [Everyone -> [task : Nat, flushId : Nat, sync : BOOLEAN]]
  /\ dispatched \in Nat /\ calls \in Nat /\ finished \subseteq Nat

(* The queue is sorted by flush id, up to the current one: the flush loop may  *)
(* stop at the first task that is not for it.                                  *)
PendingSorted ==
  /\ \A i, j \in DOMAIN pendingTasks :
       i < j => pendingTasks[i].flushId <= pendingTasks[j].flushId
  /\ \A i \in DOMAIN pendingTasks : pendingTasks[i].flushId <= flushIdSequence

(* Who will flush a task of this id. *)
Covered(flushId) ==
  \/ \E i \in DOMAIN mainQueue : mainQueue[i].op = "flush" /\ mainQueue[i].arg >= flushId
  \/ \E t \in Everyone : pc[t] = "post" /\ job[t].flushId >= flushId
  \/ \E i \in DOMAIN stack : stack[i].op \in Loops /\ stack[i].arg >= flushId
  \/ batchCount > 0 /\ batchFlushId >= flushId

(* No task is stranded in the queue: whatever the nesting of batches, flushes  *)
(* and pumps, and whoever dispatched it meanwhile, a flush that reaches it is  *)
(* posted, about to be posted, or running, or a batch that will flush it is    *)
(* open (until clearAndTeardown).                                              *)
NoStrandedTask ==
  tornDown \/ \A i \in DOMAIN pendingTasks : Covered(pendingTasks[i].flushId)

(* A thread asleep in waitUntilQuiescent() has missed no notification: what it *)
(* waits for is false, or the thread that made it true is about to notify.     *)
NoMissedWakeup ==
  \A t \in Threads : pc[t] = "asleep" =>
    /\ ~Quiescent
    /\ tornDown => \E u \in Everyone : pc[u] = "tearing"

(* The assertions of endBatch() hold: a batch is open when it is called, and   *)
(* none was opened and left open while it flushed.                             *)
BatchesBalanced ==
  /\ OnTop("batch") => batchCount > 0
  /\ OnTop("close") => batchCount = 1

(* flushUpToNow() and the flush of endBatch() run no task dispatched after     *)
(* they began, so that a task that dispatches itself again cannot keep the     *)
(* main thread in them.                                                        *)
PumpsAreBounded ==
  [][FlushNext /\ Top.op \in {"pump", "end"} => Head(pendingTasks).task <= Top.upTo]_vars

(* flushUpToNow() returns after every task dispatched before it was started,   *)
(* those parked by an open batch included (unless torn down).                  *)
PumpsAreComplete ==
  OnTop("pump") /\ ~Runnable(Top.arg) /\ ~tornDown =>
    \A i \in DOMAIN pendingTasks : pendingTasks[i].task > Top.upTo

(* dispatchSync() returns after its task did, unless torn down. *)
SyncTaskRan ==
  [][\A t \in Threads : pc[t] = "waitSync" /\ pc'[t] = "idle" =>
       tornDown \/ job[t].task \in finished]_vars

(* An idle callback runs when no task is pending, dispatched or executing, as  *)
(* onIdle() is documented.                                                     *)
IdleMeansIdle == [][RunIdleCallback => pendingTasks = <<>>]_vars

(* Every task dispatched is run, or dropped by the teardown. *)
TasksRun == \A k \in 1 .. MaxTasks : dispatched >= k ~> k \in finished \/ tornDown

(* Every idle callback is called once tasks stop coming, torn down or not. *)
IdleCallbacksRun == []<>(idleCallbacks = 0)
=============================================================================
