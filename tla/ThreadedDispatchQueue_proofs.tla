--------------------- MODULE ThreadedDispatchQueue_proofs ---------------------
(***************************************************************************)
(* Theorems of ThreadedDispatchQueue, for any callers and bounds.          *)
(***************************************************************************)
EXTENDS ThreadedDispatchQueue, SequenceTheorems, TLAPS

-----------------------------------------------------------------------------
(* The inductive invariant. *)

(* One function runs at a time, and it is counted; the thread is in user code  *)
(* exactly when it runs a task.                                                *)
OneRuns ==
  /\ \A t \in Threads : Busy(t) => currentRunningTasks = 1
  /\ \A t, u \in Threads : Busy(t) /\ Busy(u) => t = u
  /\ Busy(Handler) <=> pc[Handler] \notin {"unborn", "loop", "exited"}

(* One enqueue is the first, and it alone starts the thread. *)
OneStarts ==
  /\ first => /\ pc[Handler] = "unborn" /\ ~thread
              /\ \A t \in Threads : pc[t] \notin {"start", "startSync"}
  /\ \A t, u \in Threads : pc[t] \in {"start", "startSync"} /\ pc[u] \in {"start", "startSync"}
                             => t = u
  /\ StartsOnce

(* A teardown past its first step has disposed the queue; a thread nobody      *)
(* holds is not born, or takes no task any more and runs none, unless the one  *)
(* it runs let go of it.                                                       *)
OneHolds ==
  /\ \A t \in Threads : pc[t] \in {"disposeSwap", "lock", "join"} => disposed
  /\ tornDown => disposed
  /\ ~thread => disposed \/ pc[Handler] = "unborn"
  /\ ~thread /\ Busy(Handler) => work[Handler] = letGo
  /\ TeardownQuiesces

Inv == TypeOK /\ OneRuns /\ OneStarts /\ OneHolds

-----------------------------------------------------------------------------
(* The deque stays a deque of tasks. *)

LEMMA InsertAtType ==
  ASSUME NEW S, NEW s \in Seq(S), NEW e \in S, NEW k \in 1 .. Len(s) + 1
  PROVE  InsertAt(s, k, e) \in Seq(S)
<1>1. \A i \in 1 .. Len(s) : s[i] \in S
  BY ElementOfSeq
<1>2. SubSeq(s, 1, k - 1) \in Seq(S) /\ SubSeq(s, k, Len(s)) \in Seq(S)
  BY <1>1, SubSeqProperties, LenProperties
<1>3. <<e>> \in Seq(S)
  OBVIOUS
<1>4. SubSeq(s, 1, k - 1) \o <<e>> \in Seq(S)
  BY <1>2, <1>3, ConcatProperties
<1>5. SubSeq(s, 1, k - 1) \o <<e>> \o SubSeq(s, k, Len(s)) \in Seq(S)
  BY <1>2, <1>4, ConcatProperties
<1> QED
  BY <1>5 DEF InsertAt

LEMMA RemoveAtType ==
  ASSUME NEW S, NEW s \in Seq(S), NEW k \in 1 .. Len(s)
  PROVE  RemoveAt(s, k) \in Seq(S)
<1>1. \A i \in 1 .. Len(s) : s[i] \in S
  BY ElementOfSeq
<1>2. SubSeq(s, 1, k - 1) \in Seq(S) /\ SubSeq(s, k + 1, Len(s)) \in Seq(S)
  BY <1>1, SubSeqProperties, LenProperties
<1>3. SubSeq(s, 1, k - 1) \o SubSeq(s, k + 1, Len(s)) \in Seq(S)
  BY <1>2, ConcatProperties
<1> QED
  BY <1>3 DEF RemoveAt

LEMMA InsertTaskType ==
  ASSUME TypeOK, NEW by \in Threads, NEW barrier \in BOOLEAN, InsertTask(by, barrier)
  PROVE  tasks' \in Seq(Task) /\ taskIdCounter' \in 0 .. MaxTasks
<1>1. taskIdCounter' \in Ids /\ taskIdCounter' \in 0 .. MaxTasks
  BY DispatchQueueAssumption DEF TypeOK, InsertTask, Ids
<1>2. PICK k \in 1 .. Len(tasks) + 1 :
        tasks' = InsertAt(tasks, k, [id |-> taskIdCounter', by |-> by, barrier |-> barrier])
  BY DEF InsertTask
<1>3. [id |-> taskIdCounter', by |-> by, barrier |-> barrier] \in Task
  BY <1>1 DEF Task
<1>4. tasks' \in Seq(Task)
  BY <1>2, <1>3, InsertAtType DEF TypeOK
<1> QED
  BY <1>1, <1>4

LEMMA NoneIsNoTask == \A w \in Task : w # None
  BY DEF Task, None, Ids

(* A barrier that enters is one of the deque, and nothing else runs. *)
Enters(t) ==
  /\ \E w \in Task : work' = [work EXCEPT ![t] = w]
  /\ currentRunningTasks = 0 /\ currentRunningTasks' = 1
  /\ pc' = [pc EXCEPT ![t] = "free"]

LEMMA BarrierEnters ==
  ASSUME TypeOK, NEW t \in Threads, tasks' \in Seq(Task),
         BarrierEnter(t, tasks) \/ BarrierEnter(t, tasks')
  PROVE  Enters(t)
<1>1. CASE BarrierEnter(t, tasks)
  <2>1. tasks[1] \in Task
    BY <1>1, EmptySeq, ElementOfSeq, LenProperties DEF BarrierEnter, TypeOK
  <2>2. \E w \in Task : work' = [work EXCEPT ![t] = w]
    <3> WITNESS tasks[1] \in Task
    <3> QED
      BY <1>1 DEF BarrierEnter
  <2>3. currentRunningTasks = 0 /\ currentRunningTasks' = 1 /\ pc' = [pc EXCEPT ![t] = "free"]
    BY <1>1 DEF BarrierEnter
  <2> QED
    BY <2>2, <2>3 DEF Enters
<1>2. CASE BarrierEnter(t, tasks')
  <2>1. tasks'[1] \in Task
    BY <1>2, EmptySeq, ElementOfSeq, LenProperties DEF BarrierEnter
  <2>2. \E w \in Task : work' = [work EXCEPT ![t] = w]
    <3> WITNESS tasks'[1] \in Task
    <3> QED
      BY <1>2 DEF BarrierEnter
  <2>3. currentRunningTasks = 0 /\ currentRunningTasks' = 1 /\ pc' = [pc EXCEPT ![t] = "free"]
    BY <1>2 DEF BarrierEnter
  <2> QED
    BY <2>2, <2>3 DEF Enters
<1> QED
  BY <1>1, <1>2

-----------------------------------------------------------------------------
LEMMA TypeStep ==
  ASSUME Inv, Next
  PROVE  TypeOK'
<1>0. TypeOK
  BY DEF Inv
<1> USE <1>0, DispatchQueueAssumption
<1> USE DEF TypeOK, Threads, Goes
<1>1. ASSUME NEW t \in Threads, Call(t)
      PROVE  TypeOK'
  <2>1. CASE AsyncBegin(t) \/ SyncTaskBegin(t)
    BY <2>1 DEF AsyncBegin, SyncTaskBegin, queueVars, threadVars, calls
  <2>2. CASE BarrierLocked(t)
    <3>1. tasks' \in Seq(Task) /\ taskIdCounter' \in 0 .. MaxTasks
      BY <2>2, InsertTaskType DEF BarrierLocked
    <3>2. CASE BarrierEnter(t, tasks')
      <4>1. Enters(t)
        BY <3>1, <3>2, BarrierEnters
      <4> QED
        BY <2>2, <3>1, <4>1 DEF BarrierLocked, Enters, threadVars, calls
    <3>3. CASE UNCHANGED <<currentRunningTasks, work>> /\ pc' = [pc EXCEPT ![t] = "barrierWait"]
      BY <2>2, <3>1, <3>3 DEF BarrierLocked, threadVars, calls
    <3> QED
      BY <2>2, <3>2, <3>3 DEF BarrierLocked
  <2>3. CASE TeardownBegin(t)
    BY <2>3 DEF TeardownBegin, queueVars, threadVars
  <2> QED
    BY <1>1, <2>1, <2>2, <2>3 DEF Call
<1>2. ASSUME NEW t \in Threads, Continue(t)
      PROVE  TypeOK'
  <2>1. CASE Enqueue(t)
    <3>1. tasks' \in Seq(Task) /\ taskIdCounter' \in 0 .. MaxTasks
      BY <2>1, InsertTaskType DEF Enqueue, Nobody
    <3> QED
      BY <2>1, <3>1 DEF Enqueue, threadVars, calls
  <2>2. CASE EnqueueSync(t)
    <3>1. tasks' \in Seq(Task) /\ taskIdCounter' \in 0 .. MaxTasks
      BY <2>2, InsertTaskType DEF EnqueueSync
    <3> QED
      BY <2>2, <3>1 DEF EnqueueSync, threadVars, calls
  <2>3. CASE StartThread(t)
    BY <2>3 DEF StartThread, queueVars, calls
  <2>4. CASE SyncReturn(t) \/ BarrierDropped(t)
    BY <2>4 DEF SyncReturn, BarrierDropped, queueVars, threadVars, calls
  <2>5. CASE BarrierRetry(t)
    <3>1. Enters(t)
      BY <2>5, BarrierEnters DEF BarrierRetry, queueVars
    <3> QED
      BY <2>5, <3>1 DEF BarrierRetry, Enters, queueVars, threadVars, calls
  <2>6. CASE BarrierFinish(t)
    <3>1. tasks' \in Seq(Task)
      <4>1. CASE tasks' = tasks
        BY <4>1
      <4>2. ASSUME NEW i \in DOMAIN tasks, tasks' = RemoveAt(tasks, i)
            PROVE  tasks' \in Seq(Task)
        BY <4>2, RemoveAtType, LenProperties
      <4> QED
        BY <2>6, <4>1, <4>2 DEF BarrierFinish
    <3>2. currentRunningTasks = 1
      BY <2>6 DEF BarrierFinish, Inv, OneRuns
    <3> QED
      BY <2>6, <3>1, <3>2 DEF BarrierFinish, threadVars, calls
  <2>7. CASE DisposeSet(t)
    BY <2>7 DEF DisposeSet, queueVars, threadVars, calls
  <2>8. CASE DisposeSwap(t)
    BY <2>8, EmptySeq DEF DisposeSwap, threadVars, calls
  <2>9. CASE JoinBegin(t) \/ JoinEnd(t) \/ Detach(t)
    BY <2>9 DEF JoinBegin, JoinEnd, Detach, Nobody, queueVars, threadVars, calls
  <2> QED
    BY <1>2, <2>1, <2>2, <2>3, <2>4, <2>5, <2>6, <2>7, <2>8, <2>9 DEF Continue
<1>3. CASE Handle
  <2>1. CASE TakeTask
    <3>1. tasks # <<>>
      BY <2>1 DEF TakeTask
    <3>2. tasks[1] \in Task /\ Tail(tasks) \in Seq(Task)
      BY <3>1, EmptySeq, ElementOfSeq, LenProperties, HeadTailProperties
    <3> QED
      BY <2>1, <3>2 DEF TakeTask, threadVars, calls
  <2>2. CASE TaskReturn
    <3>1. {work[Handler].by} \ {Nobody} \subseteq Callers
      BY DEF Task, None, Nobody
    <3> QED
      BY <2>2, <3>1 DEF TaskReturn, queueVars, threadVars, calls
  <2>3. CASE TaskFinish
    <3>1. currentRunningTasks = 1
      BY <2>3 DEF TaskFinish, Inv, OneRuns
    <3> QED
      BY <2>3, <3>1 DEF TaskFinish, queueVars, threadVars, calls
  <2>4. CASE HandlerExit
    BY <2>4 DEF HandlerExit, queueVars, threadVars, calls
  <2> QED
    BY <1>3, <2>1, <2>2, <2>3, <2>4 DEF Handle
<1> QED
  BY <1>1, <1>2, <1>3 DEF Next

-----------------------------------------------------------------------------
LEMMA OneRunsStep ==
  ASSUME Inv, Next
  PROVE  OneRuns'
<1>0. TypeOK /\ OneRuns
  BY DEF Inv
<1> USE <1>0, DispatchQueueAssumption
<1> USE DEF TypeOK, OneRuns, Busy, Threads, Goes
<1>1. ASSUME NEW t \in Threads, Enters(t), pc[t] \in {"free", "barrierWait"},
             t # Handler
      PROVE  OneRuns'
  BY <1>1, NoneIsNoTask DEF Enters
<1>2. ASSUME NEW t \in Threads, Call(t)
      PROVE  OneRuns'
  <2>1. CASE AsyncBegin(t) \/ SyncTaskBegin(t) \/ TeardownBegin(t)
    BY <2>1 DEF AsyncBegin, SyncTaskBegin, TeardownBegin, IsCurrent
  <2>2. CASE BarrierLocked(t)
    <3>1. t # Handler /\ pc[t] = "free"
      BY <2>2 DEF BarrierLocked, IsCurrent, InCode
    <3>2. CASE BarrierEnter(t, tasks')
      <4>1. tasks' \in Seq(Task)
        BY <2>2, InsertTaskType DEF BarrierLocked
      <4>2. Enters(t)
        BY <3>2, <4>1, BarrierEnters
      <4> QED
        BY <1>1, <3>1, <4>2
    <3>3. CASE UNCHANGED <<currentRunningTasks, work>> /\ pc' = [pc EXCEPT ![t] = "barrierWait"]
      BY <3>1, <3>3
    <3> QED
      BY <2>2, <3>2, <3>3 DEF BarrierLocked
  <2> QED
    BY <1>2, <2>1, <2>2 DEF Call
<1>3. ASSUME NEW t \in Threads, Continue(t)
      PROVE  OneRuns'
  <2>1. CASE Enqueue(t) \/ EnqueueSync(t) \/ SyncReturn(t) \/ BarrierDropped(t)
               \/ DisposeSet(t) \/ DisposeSwap(t) \/ JoinBegin(t) \/ JoinEnd(t) \/ Detach(t)
    BY <2>1 DEF Enqueue, EnqueueSync, SyncReturn, BarrierDropped, DisposeSet, DisposeSwap,
                JoinBegin, JoinEnd, Detach
  <2>2. CASE StartThread(t)
    <3>1. pc[Handler] = "unborn"
      BY <2>2 DEF StartThread, Inv, OneStarts, StartsOnce
    <3> QED
      BY <2>2, <3>1 DEF StartThread
  <2>3. CASE BarrierRetry(t)
    <3>1. Enters(t)
      BY <2>3, BarrierEnters DEF BarrierRetry, queueVars
    <3>2. t # Handler
      BY <2>3, <3>1 DEF BarrierRetry, Enters
    <3> QED
      BY <1>1, <2>3, <3>1, <3>2 DEF BarrierRetry
  <2>4. CASE BarrierFinish(t)
    BY <2>4 DEF BarrierFinish
  <2> QED
    BY <1>3, <2>1, <2>2, <2>3, <2>4 DEF Continue
<1>4. CASE Handle
  <2>1. CASE TakeTask
    <3>1. tasks[1] \in Task
      BY <2>1, EmptySeq, ElementOfSeq, LenProperties DEF TakeTask
    <3> QED
      BY <2>1, <3>1, NoneIsNoTask DEF TakeTask
  <2>2. CASE TaskReturn \/ TaskFinish \/ HandlerExit
    BY <2>2 DEF TaskReturn, TaskFinish, HandlerExit
  <2> QED
    BY <1>4, <2>1, <2>2 DEF Handle
<1> QED
  BY <1>2, <1>3, <1>4 DEF Next

-----------------------------------------------------------------------------
LEMMA OneStartsStep ==
  ASSUME Inv, Next
  PROVE  OneStarts'
<1>0. TypeOK /\ OneRuns /\ OneStarts
  BY DEF Inv
<1> USE <1>0, DispatchQueueAssumption
<1> USE DEF TypeOK, OneStarts, StartsOnce, Threads, Goes
<1>1. ASSUME NEW t \in Threads, Call(t)
      PROVE  OneStarts'
  <2>1. CASE AsyncBegin(t) \/ SyncTaskBegin(t) \/ TeardownBegin(t)
    BY <2>1 DEF AsyncBegin, SyncTaskBegin, TeardownBegin, queueVars, threadVars
  <2>2. CASE BarrierLocked(t)
    <3>1. pc[t] = "free" /\ (pc' = [pc EXCEPT ![t] = "free"] \/ pc' = [pc EXCEPT ![t] = "barrierWait"])
      BY <2>2 DEF BarrierLocked, BarrierEnter, InCode
    <3> QED
      BY <2>2, <3>1 DEF BarrierLocked, threadVars
  <2> QED
    BY <1>1, <2>1, <2>2 DEF Call
<1>2. ASSUME NEW t \in Threads, Continue(t)
      PROVE  OneStarts'
  <2>1. CASE Enqueue(t) \/ EnqueueSync(t)
    <3>1. /\ pc[t] \in {"enqueue", "enqueueSync"}
          /\ \A u \in Threads \ {t} : pc'[u] = pc[u]
          /\ pc'[t] \in {"start", "startSync"} => first
          /\ pc'[t] \in {"start", "startSync", "free", "await"}
          /\ ~first' /\ thread' = thread
      BY <2>1 DEF Enqueue, EnqueueSync, threadVars
    <3>2. CASE first
      <4>1. t # Handler
        BY <3>1, <3>2
      <4> QED
        BY <3>1, <3>2, <4>1
    <3>3. CASE ~first
      <4>1. pc[Handler] = "unborn" => t # Handler
        BY <3>1
      <4> QED
        BY <3>1, <3>3, <4>1
    <3> QED
      BY <3>2, <3>3
  <2>2. CASE StartThread(t)
    BY <2>2 DEF StartThread, queueVars
  <2>3. CASE SyncReturn(t) \/ BarrierDropped(t) \/ DisposeSet(t) \/ DisposeSwap(t)
    BY <2>3 DEF SyncReturn, BarrierDropped, DisposeSet, DisposeSwap, queueVars, threadVars
  <2>4. CASE BarrierRetry(t) \/ BarrierFinish(t)
    BY <2>4 DEF BarrierRetry, BarrierEnter, BarrierFinish, queueVars, threadVars
  <2>5. CASE JoinBegin(t) \/ JoinEnd(t) \/ Detach(t)
    BY <2>5 DEF JoinBegin, JoinEnd, Detach, queueVars
  <2> QED
    BY <1>2, <2>1, <2>2, <2>3, <2>4, <2>5 DEF Continue
<1>3. CASE Handle
  BY <1>3 DEF Handle, TakeTask, TaskReturn, TaskFinish, HandlerExit, queueVars, threadVars
<1> QED
  BY <1>1, <1>2, <1>3 DEF Next

-----------------------------------------------------------------------------
LEMMA OneHoldsStep ==
  ASSUME Inv, Next, OneRuns'
  PROVE  OneHolds'
<1>0. TypeOK /\ OneRuns /\ OneStarts /\ OneHolds
  BY DEF Inv
<1> USE <1>0, DispatchQueueAssumption
<1> USE DEF TypeOK, OneRuns, OneHolds, TeardownQuiesces, Busy, Threads, Goes
<1>1. ASSUME NEW t \in Threads, Call(t)
      PROVE  OneHolds'
  <2>1. CASE AsyncBegin(t) \/ SyncTaskBegin(t)
    BY <2>1 DEF AsyncBegin, SyncTaskBegin, IsCurrent, threadVars, calls
  <2>2. CASE BarrierLocked(t)
    <3>1. pc[t] = "free" /\ t # Handler
      BY <2>2 DEF BarrierLocked, InCode, IsCurrent
    <3>2. pc' = [pc EXCEPT ![t] = "free"] \/ pc' = [pc EXCEPT ![t] = "barrierWait"]
      BY <2>2 DEF BarrierLocked, BarrierEnter
    <3>3. work'[Handler] = work[Handler]
      BY <2>2, <3>1 DEF BarrierLocked, BarrierEnter
    <3> QED
      BY <2>2, <3>1, <3>2, <3>3 DEF BarrierLocked, threadVars, calls
  <2>3. CASE TeardownBegin(t)
    BY <2>3 DEF TeardownBegin, threadVars
  <2> QED
    BY <1>1, <2>1, <2>2, <2>3 DEF Call
<1>2. ASSUME NEW t \in Threads, Continue(t)
      PROVE  OneHolds'
  <2>1. CASE Enqueue(t) \/ EnqueueSync(t) \/ SyncReturn(t) \/ BarrierDropped(t)
    <3>1. /\ pc[t] \in {"enqueue", "enqueueSync", "await", "barrierWait"}
          /\ \A u \in Threads \ {t} : pc'[u] = pc[u]
          /\ pc'[t] \in {"start", "startSync", "free", "await"}
          /\ UNCHANGED <<work, disposed, thread, tornDown, letGo>>
      BY <2>1 DEF Enqueue, EnqueueSync, SyncReturn, BarrierDropped, threadVars, calls
    <3> QED
      BY <3>1
  <2>2. CASE StartThread(t)
    BY <2>2 DEF StartThread, OneStarts, StartsOnce, calls
  <2>3. CASE BarrierRetry(t)
    BY <2>3 DEF BarrierRetry, BarrierEnter, threadVars, calls
  <2>4. CASE BarrierFinish(t)
    BY <2>4 DEF BarrierFinish, threadVars, calls
  <2>5. CASE DisposeSet(t) \/ DisposeSwap(t)
    BY <2>5 DEF DisposeSet, DisposeSwap, threadVars, calls
  <2>6. CASE JoinBegin(t)
    BY <2>6 DEF JoinBegin, calls
  <2>7. CASE JoinEnd(t)
    BY <2>7 DEF JoinEnd
  <2>8. CASE Detach(t)
    BY <2>8 DEF Detach, IsCurrent
  <2> QED
    BY <1>2, <2>1, <2>2, <2>3, <2>4, <2>5, <2>6, <2>7, <2>8 DEF Continue
<1>3. CASE Handle
  BY <1>3 DEF Handle, TakeTask, TaskReturn, TaskFinish, HandlerExit, threadVars, calls
<1> QED
  BY <1>1, <1>2, <1>3 DEF Next

-----------------------------------------------------------------------------
LEMMA InvInit == Init => Inv
<1> SUFFICES ASSUME Init
             PROVE  Inv
  OBVIOUS
<1> USE DispatchQueueAssumption
<1> USE DEF Init, Threads
<1>1. TypeOK
  <2>1. tasks \in Seq(Task)
    BY EmptySeq
  <2>2. /\ taskIdCounter \in 0 .. MaxTasks
        /\ currentRunningTasks \in 0 .. 1
        /\ teardowns \in 0 .. MaxTeardowns
    OBVIOUS
  <2>3. work \in [Threads -> Task \cup {None}] /\ letGo \in Task \cup {None}
    OBVIOUS
  <2>4. mutex \in Threads /\ fulfilled \subseteq Callers
    BY DEF Nobody
  <2> QED
    BY <2>1, <2>2, <2>3, <2>4 DEF TypeOK
<1>2. OneRuns
  BY DEF OneRuns, Busy
<1>3. OneStarts
  BY DEF OneStarts, StartsOnce
<1>4. OneHolds
  BY DEF OneHolds, TeardownQuiesces, Busy
<1> QED
  BY <1>1, <1>2, <1>3, <1>4 DEF Inv

LEMMA InvStep == Inv /\ [Next]_vars => Inv'
<1> SUFFICES ASSUME Inv, [Next]_vars
             PROVE  Inv'
  OBVIOUS
<1>1. CASE Next
  BY <1>1, TypeStep, OneRunsStep, OneStartsStep, OneHoldsStep DEF Inv
<1>2. CASE UNCHANGED vars
  BY <1>2 DEF vars, queueVars, threadVars, calls, Inv, TypeOK, OneRuns, OneStarts, OneHolds,
              StartsOnce, TeardownQuiesces, Busy
<1> QED
  BY <1>1, <1>2

LEMMA InvCorrect == Spec => []Inv
  BY InvInit, InvStep, PTL DEF Spec

-----------------------------------------------------------------------------
(* For any callers and bounds the deque holds well-formed entries and at most  *)
(* one function runs.                                                          *)
THEOREM TypeCorrect == Spec => []TypeOK
<1>1. Inv => TypeOK
  BY DEF Inv
<1> QED
  BY <1>1, InvCorrect, PTL

(* The assertion of startThread() holds for any number of submitters and       *)
(* teardowns.                                                                  *)
THEOREM StartsOnceCorrect == Spec => []StartsOnce
<1>1. Inv => StartsOnce
  BY DEF Inv, OneStarts
<1> QED
  BY <1>1, InvCorrect, PTL

(* However many threads tear the queue down, from inside a sync(), in a task   *)
(* or on any thread, no task runs once one of them has returned off the queue's *)
(* thread, but for a task that itself let go of that thread.                   *)
THEOREM TeardownQuiescesCorrect == Spec => []TeardownQuiesces
<1>1. Inv => TeardownQuiesces
  BY DEF Inv, OneHolds
<1> QED
  BY <1>1, InvCorrect, PTL
=============================================================================
