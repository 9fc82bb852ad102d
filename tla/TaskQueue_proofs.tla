--------------------------- MODULE TaskQueue_proofs ---------------------------
(***************************************************************************)
(* Theorems of TaskQueue, for any callers, workers and bounds.             *)
(***************************************************************************)
EXTENDS TaskQueue, FiniteSetTheorems, SequenceTheorems, TLAPS

-----------------------------------------------------------------------------
(* What insertTask() and lockFreeRemoveTask() do to the deque. *)

LEMMA InsertAtElements ==
  ASSUME NEW S, NEW s \in Seq(S), NEW e \in S, NEW k \in 1 .. Len(s) + 1
  PROVE  /\ InsertAt(s, k, e) \in Seq(S)
         /\ Len(InsertAt(s, k, e)) = Len(s) + 1
         /\ \A i \in 1 .. Len(s) + 1 :
              InsertAt(s, k, e)[i] = IF i < k THEN s[i] ELSE IF i = k THEN e ELSE s[i - 1]
<1> DEFINE a == SubSeq(s, 1, k - 1)
           b == SubSeq(s, k, Len(s))
<1>0. \A i \in 1 .. Len(s) : s[i] \in S
  BY ElementOfSeq
<1>1. a \in Seq(S) /\ Len(a) = k - 1 /\ \A i \in 1 .. k - 1 : a[i] = s[i]
  BY <1>0, SubSeqProperties, LenProperties
<1>2. b \in Seq(S) /\ Len(b) = Len(s) - k + 1 /\ \A i \in 1 .. Len(s) - k + 1 : b[i] = s[k + i - 1]
  BY <1>0, SubSeqProperties, LenProperties
<1>3. <<e>> \in Seq(S) /\ Len(<<e>>) = 1 /\ <<e>>[1] = e
  OBVIOUS
<1> HIDE DEF a, b
<1>4. /\ a \o <<e>> \in Seq(S)
      /\ Len(a \o <<e>>) = k
      /\ \A i \in 1 .. k : (a \o <<e>>)[i] = IF i < k THEN s[i] ELSE e
  <2>1. /\ a \o <<e>> \in Seq(S)
        /\ Len(a \o <<e>>) = Len(a) + 1
        /\ \A i \in 1 .. Len(a) + 1 : (a \o <<e>>)[i] =
              IF i <= Len(a) THEN a[i] ELSE <<e>>[i - Len(a)]
    BY <1>1, <1>3, ConcatProperties
  <2> QED
    BY <1>1, <1>3, <2>1
<1>5. /\ a \o <<e>> \o b \in Seq(S)
      /\ Len(a \o <<e>> \o b) = k + Len(b)
      /\ \A i \in 1 .. k + Len(b) : (a \o <<e>> \o b)[i] =
            IF i <= k THEN (a \o <<e>>)[i] ELSE b[i - k]
  <2> DEFINE c == a \o <<e>>
  <2>1. c \in Seq(S) /\ Len(c) = k
    BY <1>4
  <2> HIDE DEF c
  <2>2. /\ c \o b \in Seq(S)
        /\ Len(c \o b) = Len(c) + Len(b)
        /\ \A i \in 1 .. Len(c) + Len(b) : (c \o b)[i] =
              IF i <= Len(c) THEN c[i] ELSE b[i - Len(c)]
    BY <1>2, <2>1, ConcatProperties
  <2>3. /\ c \o b \in Seq(S)
        /\ Len(c \o b) = k + Len(b)
        /\ \A i \in 1 .. k + Len(b) : (c \o b)[i] = IF i <= k THEN c[i] ELSE b[i - k]
    BY <2>1, <2>2
  <2> QED
    BY <2>3 DEF c
<1>6. InsertAt(s, k, e) = a \o <<e>> \o b
  BY DEF InsertAt, a, b
<1> QED
  BY <1>2, <1>4, <1>5, <1>6, LenProperties

LEMMA RemoveAtElements ==
  ASSUME NEW S, NEW s \in Seq(S), NEW k \in 1 .. Len(s)
  PROVE  /\ RemoveAt(s, k) \in Seq(S)
         /\ Len(RemoveAt(s, k)) = Len(s) - 1
         /\ \A i \in 1 .. Len(s) - 1 : RemoveAt(s, k)[i] = IF i < k THEN s[i] ELSE s[i + 1]
<1> DEFINE a == SubSeq(s, 1, k - 1)
           b == SubSeq(s, k + 1, Len(s))
<1>0. \A i \in 1 .. Len(s) : s[i] \in S
  BY ElementOfSeq
<1>1. a \in Seq(S) /\ Len(a) = k - 1 /\ \A i \in 1 .. k - 1 : a[i] = s[i]
  BY <1>0, SubSeqProperties, LenProperties
<1>2. b \in Seq(S) /\ Len(b) = Len(s) - k /\ \A i \in 1 .. Len(s) - k : b[i] = s[k + i]
  BY <1>0, SubSeqProperties, LenProperties
<1> HIDE DEF a, b
<1>3. /\ a \o b \in Seq(S)
      /\ Len(a \o b) = Len(a) + Len(b)
      /\ \A i \in 1 .. Len(a) + Len(b) : (a \o b)[i] = IF i <= Len(a) THEN a[i] ELSE b[i - Len(a)]
  BY <1>1, <1>2, ConcatProperties
<1>4. RemoveAt(s, k) = a \o b
  BY DEF RemoveAt, a, b
<1>5. Len(s) \in Nat
  BY LenProperties
<1>6. ASSUME NEW i \in 1 .. Len(s) - 1
      PROVE  (a \o b)[i] = IF i < k THEN s[i] ELSE s[i + 1]
  <2>1. CASE i < k
    BY <1>1, <1>2, <1>3, <1>5, <2>1
  <2>2. CASE ~(i < k)
    <3>1. (a \o b)[i] = b[i - (k - 1)]
      BY <1>1, <1>2, <1>3, <1>5, <2>2
    <3>2. b[i - (k - 1)] = s[k + (i - (k - 1))]
      BY <1>2, <1>5, <2>2
    <3> QED
      BY <2>2, <3>1, <3>2, <1>5
  <2> QED
    BY <2>1, <2>2
<1> QED
  BY <1>1, <1>2, <1>3, <1>4, <1>5, <1>6

-----------------------------------------------------------------------------
(* _currentRunningTasks counts the threads inside a function. *)

USE DEF Threads

LEMMA ThreadsFinite == IsFiniteSet(Threads)
  BY TaskQueueAssumption, FS_Union

LEMMA ExecutingFinite ==
  /\ IsFiniteSet(Executing)
  /\ Cardinality(Executing) \in Nat
  /\ IsFiniteSet(Executing')
  /\ Cardinality(Executing') \in Nat
<1>1. Executing \subseteq Threads /\ Executing' \subseteq Threads
  BY DEF Executing
<1> QED
  BY <1>1, ThreadsFinite, FS_Subset, FS_CardinalityType

(* A step leaves the threads inside a function as they are, or one of them     *)
(* enters and is counted, or one leaves and is discounted.                     *)
Counted ==
  \/ Executing' = Executing /\ currentRunningTasks' = currentRunningTasks
  \/ \E t \in Threads \ Executing :
       Executing' = Executing \cup {t} /\ currentRunningTasks' = currentRunningTasks + 1
  \/ \E t \in Executing :
       Executing' = Executing \ {t} /\ currentRunningTasks' = currentRunningTasks - 1

LEMMA CountedStep ==
  ASSUME TypeOK, [Next]_vars
  PROVE  Counted
<1> USE DEF TypeOK, Executing, Counted
<1>1. ASSUME NEW c \in Callers, Call(c)
      PROVE  Counted
  BY <1>1 DEF Call, EnqueueBegin, Cancel, BarrierBegin, DisposeBegin, SetMaxConcurrentTasks,
              Woken, queueVars
<1>2. ASSUME NEW c \in Callers, Continue(c)
      PROVE  Counted
  <2>1. CASE EnqueueLocked(c)
    BY <2>1 DEF EnqueueLocked, Woken
  <2>2. ASSUME NEW id, NEW q, BarrierTurn(c, id, q), pc[c] \in {"barrier", "barrierWait"}
        PROVE  Counted
    BY <2>2 DEF BarrierTurn
  <2>3. CASE BarrierLocked(c)
    BY <2>2, <2>3 DEF BarrierLocked
  <2>4. CASE BarrierRetry(c)
    BY <2>2, <2>4 DEF BarrierRetry
  <2>5. CASE BarrierFinish(c)
    <3>1. c \in Executing /\ Executing' = Executing \ {c}
      BY <2>5 DEF BarrierFinish, Woken
    <3> QED
      BY <2>5, <3>1 DEF BarrierFinish
  <2>6. CASE DisposeSet(c) \/ DisposeSwap(c)
    BY <2>6 DEF DisposeSet, DisposeSwap, Woken, queueVars
  <2> QED
    BY <1>2, <2>1, <2>3, <2>4, <2>5, <2>6 DEF Continue
<1>3. ASSUME NEW w \in Workers, Handle(w)
      PROVE  Counted
  <2>1. CASE HandlerExit(w) \/ WaitForTask(w) \/ WaitForTurn(w) \/ WaitUntilDue(w) \/ NapOver(w)
    BY <2>1 DEF HandlerExit, WaitForTask, WaitForTurn, WaitUntilDue, NapOver, queueVars
  <2>2. CASE TakeTask(w)
    <3>1. w \in Threads \ Executing /\ Executing' = Executing \cup {w}
      BY <2>2 DEF TakeTask
    <3> QED
      BY <2>2, <3>1 DEF TakeTask
  <2>3. CASE TaskFinish(w)
    <3>1. w \in Executing /\ Executing' = Executing \ {w}
      BY <2>3 DEF TaskFinish, Woken
    <3> QED
      BY <2>3, <3>1 DEF TaskFinish
  <2> QED
    BY <1>3, <2>1, <2>2, <2>3 DEF Handle
<1>4. ASSUME NEW t \in Threads, StrayWakeup(t)
      PROVE  Counted
  BY <1>4 DEF StrayWakeup, queueVars
<1>5. CASE Tick
  BY <1>5 DEF Tick, queueVars, threadVars
<1>6. CASE UNCHANGED vars
  BY <1>6 DEF vars, queueVars, threadVars
<1> QED
  BY <1>1, <1>2, <1>3, <1>4, <1>5, <1>6 DEF Next

LEMMA CountStep ==
  ASSUME TypeOK, RunningCount, Counted
  PROVE  RunningCount' /\ currentRunningTasks' \in Nat
<1> USE DEF RunningCount
<1>1. CASE Executing' = Executing /\ currentRunningTasks' = currentRunningTasks
  BY <1>1 DEF TypeOK
<1>2. ASSUME NEW t \in Threads \ Executing,
             Executing' = Executing \cup {t}, currentRunningTasks' = currentRunningTasks + 1
      PROVE  RunningCount' /\ currentRunningTasks' \in Nat
  BY <1>2, ExecutingFinite, FS_AddElement DEF TypeOK
<1>3. ASSUME NEW t \in Executing,
             Executing' = Executing \ {t}, currentRunningTasks' = currentRunningTasks - 1
      PROVE  RunningCount' /\ currentRunningTasks' \in Nat
  BY <1>3, ExecutingFinite, FS_RemoveElement DEF TypeOK
<1> QED
  BY <1>1, <1>2, <1>3 DEF Counted

-----------------------------------------------------------------------------
(* Type correctness. *)

LEMMA InsertTaskType ==
  ASSUME TypeOK, NEW when \in Times, NEW barrier \in BOOLEAN, NEW q,
         InsertTask(when, barrier, q)
  PROVE  /\ q \in Seq(Task) /\ q # <<>>
         /\ taskIdCounter' = taskIdCounter + 1
         /\ taskIdCounter' \in Ids
<1>1. [id |-> taskIdCounter + 1, time |-> when, barrier |-> barrier] \in Task
  BY TaskQueueAssumption DEF TypeOK, InsertTask, Task, Ids
<1>2. PICK k \in 1 .. Len(tasks) + 1 :
        q = InsertAt(tasks, k, [id |-> taskIdCounter + 1, time |-> when, barrier |-> barrier])
  BY DEF InsertTask
<1>3. q \in Seq(Task) /\ Len(q) = Len(tasks) + 1
  BY <1>1, <1>2, InsertAtElements DEF TypeOK
<1>4. q # <<>>
  BY <1>3, LenProperties, EmptySeq DEF TypeOK
<1> QED
  BY <1>3, <1>4, TaskQueueAssumption DEF TypeOK, InsertTask, Ids

LEMMA RemoveTaskType ==
  ASSUME TypeOK, NEW id, NEW q, RemoveTask(id, q)
  PROVE  q \in Seq(Task)
<1>1. DOMAIN tasks = 1 .. Len(tasks)
  BY LenProperties DEF TypeOK
<1> QED
  BY <1>1, RemoveAtElements DEF TypeOK, RemoveTask

LEMMA TypeStep ==
  ASSUME TypeOK, [Next]_vars, currentRunningTasks' \in Nat
  PROVE  TypeOK'
<1> USE TaskQueueAssumption DEF TypeOK
<1>1. ASSUME NEW c \in Callers, Call(c)
      PROVE  TypeOK'
  <2>1. CASE EnqueueBegin(c)
    BY <2>1 DEF EnqueueBegin, queueVars, Times
  <2>2. CASE Cancel(c)
    <3>1. tasks' \in Seq(Task)
      BY <2>2, RemoveTaskType DEF Cancel
    <3> QED
      BY <2>2, <3>1 DEF Cancel, Woken
  <2>3. CASE BarrierBegin(c)
    BY <2>3 DEF BarrierBegin, queueVars
  <2>4. CASE DisposeBegin(c)
    BY <2>4 DEF DisposeBegin, queueVars
  <2>5. CASE SetMaxConcurrentTasks(c)
    BY <2>5 DEF SetMaxConcurrentTasks, Woken
  <2> QED
    BY <1>1, <2>1, <2>2, <2>3, <2>4, <2>5 DEF Call
<1>2. ASSUME NEW c \in Callers, Continue(c)
      PROVE  TypeOK'
  <2>1. CASE EnqueueLocked(c)
    <3>1. tasks' \in Seq(Task) /\ taskIdCounter' \in 0 .. MaxTasks
      <4>1. time[c] \in Times /\ InsertTask(time[c], FALSE, tasks')
        BY <2>1 DEF EnqueueLocked
      <4>2. tasks' \in Seq(Task) /\ taskIdCounter' \in Ids
        BY <4>1, InsertTaskType
      <4> QED
        BY <4>2 DEF Ids
    <3> QED
      BY <2>1, <3>1 DEF EnqueueLocked, Woken
  <2>2. ASSUME NEW id \in Ids, NEW q, BarrierTurn(c, id, q)
        PROVE  /\ pc' \in [Threads -> {"idle", "enqueue", "barrier", "barrierWait", "barrierAsleep",
                         "barrierRun", "disposeSet", "disposeSwap",
                         "loop", "asleep", "nap", "run", "exited"}]
               /\ \A d \in Callers : pc'[d] \notin {"loop", "asleep", "nap", "run", "exited"}
               /\ \A w \in Workers : pc'[w] \in {"loop", "asleep", "nap", "run", "exited"}
               /\ own' \in [Threads -> 0 .. MaxTasks]
               /\ \A t \in Threads :
                    pc'[t] \in {"barrierWait", "barrierAsleep", "barrierRun", "run"} => own'[t] \in Ids
               /\ skipped' \subseteq Ids
    <3>0. id \in 0 .. MaxTasks /\ c \in Threads
      BY DEF Ids
    <3>1. CASE q = <<>>
      <4>1. /\ pc' = [pc EXCEPT ![c] = "idle"]
            /\ own' = [own EXCEPT ![c] = 0]
            /\ skipped' = skipped \cup {id}
        BY <2>2, <3>1 DEF BarrierTurn
      <4>2. skipped' \subseteq Ids
        BY <2>2, <4>1
      <4> QED
        BY <3>0, <4>1, <4>2
    <3>2. CASE q # <<>> /\ (currentRunningTasks # 0 \/ q[1].id # id)
      BY <2>2, <3>0, <3>2 DEF BarrierTurn
    <3>3. CASE q # <<>> /\ currentRunningTasks = 0 /\ q[1].id = id
      BY <2>2, <3>0, <3>3 DEF BarrierTurn
    <3> QED
      BY <3>1, <3>2, <3>3
  <2>3. CASE BarrierLocked(c)
    <3>1. tasks' \in Seq(Task) /\ taskIdCounter' \in Ids
      <4>1. time[c] \in Times /\ InsertTask(time[c], TRUE, tasks')
        BY <2>3 DEF BarrierLocked
      <4> QED
        BY <4>1, InsertTaskType
    <3> QED
      BY <2>2, <2>3, <3>1 DEF BarrierLocked, Ids
  <2>4. CASE BarrierRetry(c)
    <3>1. own[c] \in Ids /\ BarrierTurn(c, own[c], tasks)
      BY <2>4 DEF BarrierRetry
    <3> QED
      BY <2>2, <2>4, <3>1 DEF BarrierRetry
  <2>5. CASE BarrierFinish(c)
    <3>1. tasks' \in Seq(Task)
      BY <2>5, RemoveTaskType DEF BarrierFinish
    <3> QED
      BY <2>5, <3>1 DEF BarrierFinish, Woken
  <2>6. CASE DisposeSet(c)
    BY <2>6 DEF DisposeSet, queueVars
  <2>7. CASE DisposeSwap(c)
    BY <2>7, EmptySeq DEF DisposeSwap, Woken
  <2> QED
    BY <1>2, <2>1, <2>3, <2>4, <2>5, <2>6, <2>7 DEF Continue
<1>3. ASSUME NEW w \in Workers, Handle(w)
      PROVE  TypeOK'
  <2>0. tasks # <<>> => tasks[1] \in Task /\ Tail(tasks) \in Seq(Task)
    BY HeadTailProperties
  <2>1. CASE HandlerExit(w)
    BY <2>1 DEF HandlerExit, queueVars
  <2>2. CASE WaitForTask(w)
    BY <2>2 DEF WaitForTask
  <2>3. CASE WaitForTurn(w)
    BY <2>3 DEF WaitForTurn, queueVars
  <2>4. CASE WaitUntilDue(w)
    BY <2>0, <2>4 DEF WaitUntilDue, queueVars, Task
  <2>5. CASE TakeTask(w)
    BY <2>0, <2>5 DEF TakeTask, Task, Ids
  <2>6. CASE TaskFinish(w)
    BY <2>6 DEF TaskFinish, Woken
  <2>7. CASE NapOver(w)
    BY <2>7 DEF NapOver, queueVars
  <2> QED
    BY <1>3, <2>1, <2>2, <2>3, <2>4, <2>5, <2>6, <2>7 DEF Handle
<1>4. ASSUME NEW t \in Threads, StrayWakeup(t)
      PROVE  TypeOK'
  BY <1>4 DEF StrayWakeup, queueVars
<1>5. CASE Tick
  BY <1>5 DEF Tick, queueVars, threadVars, Times
<1>6. CASE UNCHANGED vars
  BY <1>6 DEF vars, queueVars, threadVars
<1> QED
  BY <1>1, <1>2, <1>3, <1>4, <1>5, <1>6 DEF Next

(* The inductive invariant behind the theorems below. *)
Counting == TypeOK /\ RunningCount

LEMMA CountingInit == Init => Counting
<1> SUFFICES ASSUME Init
             PROVE  Counting
  OBVIOUS
<1>1. Executing = {}
  BY TaskQueueAssumption DEF Init, Executing
<1>2. RunningCount
  BY <1>1, FS_EmptySet DEF Init, RunningCount
<1>3. TypeOK
  <2>1. tasks \in Seq(Task)
    BY EmptySeq DEF Init
  <2>2. 0 \in Times
    BY TaskQueueAssumption DEF Times
  <2>3. \A t \in Threads : pc[t] \in {"idle", "loop"} /\ own[t] = 0
    BY DEF Init
  <2>4. \A c \in Callers : pc[c] = "idle"
    BY TaskQueueAssumption DEF Init
  <2>5. \A w \in Workers : pc[w] = "loop"
    BY DEF Init
  <2>6. pc \in [Threads -> {"idle", "loop"}] /\ own \in [Threads -> {0}] /\ time \in [Threads -> {0}]
    BY DEF Init
  <2>7. /\ taskIdCounter \in 0 .. MaxTasks /\ currentRunningTasks \in Nat
        /\ maxConcurrentTasks \in Concurrencies \cup {1}
        /\ now \in Times /\ skipped \subseteq Ids
    BY <2>2, TaskQueueAssumption, SMT DEF Init
  <2>9. empty \in BOOLEAN /\ first \in BOOLEAN /\ disposed \in BOOLEAN
    BY Zenon DEF Init
  <2>8. /\ pc \in [Threads -> {"idle", "enqueue", "barrier", "barrierWait", "barrierAsleep",
                         "barrierRun", "disposeSet", "disposeSwap",
                         "loop", "asleep", "nap", "run", "exited"}]
        /\ time \in [Threads -> Times]
        /\ own \in [Threads -> 0 .. MaxTasks]
    BY <2>2, <2>6, TaskQueueAssumption
  <2> QED
    BY <2>1, <2>3, <2>4, <2>5, <2>7, <2>8, <2>9 DEF TypeOK
<1> QED
  BY <1>2, <1>3 DEF Counting

LEMMA CountingStep == Counting /\ [Next]_vars => Counting'
  BY CountedStep, CountStep, TypeStep DEF Counting

(* Every reachable state is well typed. *)
THEOREM TypeCorrect == Spec => []TypeOK
<1>1. Counting => TypeOK
  BY DEF Counting
<1> QED
  BY <1>1, CountingInit, CountingStep, PTL DEF Spec

(* The count of running tasks never drifts from the threads inside a function, *)
(* whatever the callers, the disposal and the concurrency limit do.            *)
THEOREM RunningCountCorrect == Spec => []RunningCount
<1>1. Counting => RunningCount
  BY DEF Counting
<1> QED
  BY <1>1, CountingInit, CountingStep, PTL DEF Spec

-----------------------------------------------------------------------------
(* Barriers are exclusive as long as the concurrency limit stays at 1.        *)

SerialLimit == Concurrencies \subseteq {1}

AtMostOne == Counting /\ currentRunningTasks <= 1

LEMMA AtMostOneStep ==
  ASSUME SerialLimit, AtMostOne, [Next]_vars
  PROVE  AtMostOne'
<1> USE DEF AtMostOne
<1>1. Counting'
  BY CountingStep
<1>2. maxConcurrentTasks = 1 /\ currentRunningTasks \in Nat
  BY DEF SerialLimit, Counting, TypeOK
<1>3. ASSUME NEW c \in Callers, Call(c)
      PROVE  currentRunningTasks' <= 1
  BY <1>3 DEF Call, EnqueueBegin, Cancel, BarrierBegin, DisposeBegin, SetMaxConcurrentTasks, queueVars
<1>4. ASSUME NEW c \in Callers, Continue(c)
      PROVE  currentRunningTasks' <= 1
  <2>1. ASSUME NEW id, NEW q, BarrierTurn(c, id, q)
        PROVE  currentRunningTasks' <= 1
    BY <1>2, <2>1 DEF BarrierTurn
  <2>2. CASE EnqueueLocked(c) \/ DisposeSet(c) \/ DisposeSwap(c)
    BY <2>2 DEF EnqueueLocked, DisposeSet, DisposeSwap, queueVars
  <2>3. CASE BarrierLocked(c) \/ BarrierRetry(c)
    BY <2>1, <2>3 DEF BarrierLocked, BarrierRetry
  <2>4. CASE BarrierFinish(c)
    BY <1>2, <2>4 DEF BarrierFinish
  <2> QED
    BY <1>4, <2>2, <2>3, <2>4 DEF Continue
<1>5. ASSUME NEW w \in Workers, Handle(w)
      PROVE  currentRunningTasks' <= 1
  <2>1. CASE TakeTask(w) \/ TaskFinish(w)
    BY <1>2, <2>1 DEF TakeTask, TaskFinish, Available
  <2>2. CASE HandlerExit(w) \/ WaitForTask(w) \/ WaitForTurn(w) \/ WaitUntilDue(w) \/ NapOver(w)
    BY <2>2 DEF HandlerExit, WaitForTask, WaitForTurn, WaitUntilDue, NapOver, queueVars
  <2> QED
    BY <1>5, <2>1, <2>2 DEF Handle
<1>6. CASE Tick
  BY <1>1, <1>6 DEF Tick, queueVars
<1>7. ASSUME NEW t \in Threads, StrayWakeup(t)
      PROVE  currentRunningTasks' <= 1
  BY <1>7 DEF StrayWakeup, queueVars
<1>8. CASE UNCHANGED vars
  BY <1>1, <1>8 DEF vars, queueVars
<1> QED
  BY <1>1, <1>3, <1>4, <1>5, <1>6, <1>7, <1>8 DEF Next

LEMMA AloneInside ==
  ASSUME AtMostOne
  PROVE  BarrierExclusive
<1> SUFFICES ASSUME NEW t \in Threads, pc[t] = "barrierRun"
             PROVE  Executing = {t}
  BY DEF BarrierExclusive
<1>1. t \in Executing
  BY DEF Executing
<1>2. Cardinality(Executing) = 1
  <2>1. Cardinality(Executing) # 0
    BY <1>1, ExecutingFinite, FS_EmptySet
  <2>2. Cardinality(Executing) <= 1
    BY DEF AtMostOne, Counting, RunningCount
  <2> QED
    BY <2>1, <2>2, ExecutingFinite
<1>3. \E x : Executing = {x}
  BY <1>2, ExecutingFinite, FS_Singleton
<1> QED
  BY <1>1, <1>3

(* While a barrier runs its function nothing else of the queue runs, for any   *)
(* number of callers, handler threads, tasks and instants: with the limit of 1 *)
(* that no code of the repository changes.                                     *)
THEOREM BarrierExclusiveCorrect ==
  ASSUME SerialLimit
  PROVE  Spec => []BarrierExclusive
<1>1. Init => AtMostOne
  BY CountingInit DEF AtMostOne, Init
<1>2. AtMostOne /\ [Next]_vars => AtMostOne'
  BY AtMostOneStep
<1>3. AtMostOne => BarrierExclusive
  BY AloneInside
<1> QED
  BY <1>1, <1>2, <1>3, PTL DEF Spec

-----------------------------------------------------------------------------
(* The deque is sorted: ids given out so far bound those in the deque, so the  *)
(* place std::upper_bound finds keeps the order strict.                        *)

Sorted ==
  /\ Counting
  /\ QueueSorted
  /\ \A i \in DOMAIN tasks : tasks[i].id <= taskIdCounter

LEMMA SortedInsert ==
  ASSUME Sorted, NEW when \in Times, NEW barrier \in BOOLEAN,
         InsertTask(when, barrier, tasks')
  PROVE  /\ QueueSorted'
         /\ \A i \in DOMAIN tasks' : tasks'[i].id <= taskIdCounter'
<1> DEFINE e == [id |-> taskIdCounter + 1, time |-> when, barrier |-> barrier]
<1>0. TypeOK
  BY DEF Sorted, Counting
<1>1. /\ tasks \in Seq(Task) /\ Len(tasks) \in Nat
      /\ DOMAIN tasks = 1 .. Len(tasks)
      /\ taskIdCounter \in Nat
      /\ \A i \in 1 .. Len(tasks) : tasks[i].id \in Nat /\ tasks[i].time \in Nat
  <2>1. tasks \in Seq(Task) /\ taskIdCounter \in Nat
    BY <1>0, TaskQueueAssumption DEF TypeOK
  <2>2. \A i \in 1 .. Len(tasks) : tasks[i] \in Task
    BY <2>1, ElementOfSeq
  <2> QED
    BY <2>1, <2>2, LenProperties, TaskQueueAssumption DEF Task, Ids, Times
<1>2. e \in Task /\ e.id = taskIdCounter + 1 /\ e.time \in Nat /\ taskIdCounter' = taskIdCounter + 1
  BY <1>0, <1>1, TaskQueueAssumption DEF InsertTask, Task, Ids, TypeOK, Times
<1> HIDE DEF e
<1>3. PICK k \in 1 .. Len(tasks) + 1 : UpperBound(e, k) /\ tasks' = InsertAt(tasks, k, e)
  BY DEF InsertTask, e
<1>4. /\ DOMAIN tasks' = 1 .. Len(tasks) + 1
      /\ \A i \in 1 .. Len(tasks) + 1 :
           tasks'[i] = IF i < k THEN tasks[i] ELSE IF i = k THEN e ELSE tasks[i - 1]
  <2>1. /\ tasks' \in Seq(Task) /\ Len(tasks') = Len(tasks) + 1
        /\ \A i \in 1 .. Len(tasks) + 1 :
             tasks'[i] = IF i < k THEN tasks[i] ELSE IF i = k THEN e ELSE tasks[i - 1]
    <3>0. tasks \in Seq(Task) /\ e \in Task /\ k \in 1 .. Len(tasks) + 1
      BY <1>1, <1>2
    <3>1. /\ InsertAt(tasks, k, e) \in Seq(Task)
          /\ Len(InsertAt(tasks, k, e)) = Len(tasks) + 1
          /\ \A i \in 1 .. Len(tasks) + 1 :
               InsertAt(tasks, k, e)[i] =
                 IF i < k THEN tasks[i] ELSE IF i = k THEN e ELSE tasks[i - 1]
      BY ONLY <3>0, InsertAtElements
    <3> QED
      BY <1>3, <3>1
  <2> QED
    BY <2>1, LenProperties
<1>5. \A i \in 1 .. Len(tasks) : tasks[i].id <= taskIdCounter
  BY <1>1 DEF Sorted
<1>6. /\ \A i \in 1 .. k - 1 : Before(tasks[i], e)
      /\ \A i \in k .. Len(tasks) : Before(e, tasks[i])
  <2>1. ASSUME NEW i \in 1 .. k - 1
        PROVE  Before(tasks[i], e)
    <3>1. i \in 1 .. Len(tasks) /\ ~Before(e, tasks[i])
      BY <1>1, <1>3 DEF UpperBound
    <3>2. /\ tasks[i].id \in Nat /\ tasks[i].time \in Nat /\ tasks[i].id <= taskIdCounter
          /\ e.id \in Nat /\ e.time \in Nat /\ tasks[i].id < e.id
      BY <1>1, <1>2, <1>5, <3>1
    <3> QED
      BY <3>1, <3>2 DEF Before
  <2>2. \A i \in k .. Len(tasks) : Before(e, tasks[i])
    BY <1>3 DEF UpperBound
  <2> QED
    BY <2>1, <2>2
<1>7. \A i, j \in 1 .. Len(tasks) : i < j => Before(tasks[i], tasks[j])
  BY <1>1 DEF Sorted, QueueSorted
<1>8. ASSUME NEW i \in 1 .. Len(tasks) + 1, NEW j \in 1 .. Len(tasks) + 1, i < j
      PROVE  Before(tasks'[i], tasks'[j])
  <2>1. CASE j < k
    BY <1>1, <1>4, <1>7, <1>8, <2>1
  <2>2. CASE j = k
    BY <1>1, <1>4, <1>6, <1>8, <2>2
  <2>3. CASE i < k /\ k < j
    <3>1. tasks'[i] = tasks[i] /\ tasks'[j] = tasks[j - 1] /\ i < j - 1
      BY <1>1, <1>4, <2>3
    <3> QED
      BY <1>1, <1>7, <2>3, <3>1
  <2>4. CASE i = k
    <3>1. tasks'[i] = e /\ tasks'[j] = tasks[j - 1] /\ j - 1 \in k .. Len(tasks)
      BY <1>1, <1>4, <1>8, <2>4
    <3> QED
      BY <1>6, <3>1
  <2>5. CASE k < i
    <3>1. tasks'[i] = tasks[i - 1] /\ tasks'[j] = tasks[j - 1] /\ i - 1 < j - 1
      BY <1>1, <1>4, <1>8, <2>5
    <3> QED
      BY <1>1, <1>7, <1>8, <2>5, <3>1
  <2> QED
    BY <1>1, <1>8, <2>1, <2>2, <2>3, <2>4, <2>5
<1>9. ASSUME NEW i \in 1 .. Len(tasks) + 1
      PROVE  tasks'[i].id <= taskIdCounter'
  <2>1. tasks'[i] = e \/ \E j \in 1 .. Len(tasks) : tasks'[i] = tasks[j]
    BY <1>1, <1>4
  <2> QED
    BY <1>1, <1>2, <1>5, <2>1
<1> QED
  BY <1>4, <1>8, <1>9 DEF QueueSorted

(* Taking elements out of the deque keeps the others in order. *)
LEMMA SortedSubsequence ==
  ASSUME Sorted, tasks' \in Seq(Task), taskIdCounter' = taskIdCounter,
         NEW f \in [1 .. Len(tasks') -> 1 .. Len(tasks)],
         \A i, j \in 1 .. Len(tasks') : i < j => f[i] < f[j],
         \A i \in 1 .. Len(tasks') : tasks'[i] = tasks[f[i]]
  PROVE  /\ QueueSorted'
         /\ \A i \in DOMAIN tasks' : tasks'[i].id <= taskIdCounter'
<1>1. DOMAIN tasks = 1 .. Len(tasks) /\ DOMAIN tasks' = 1 .. Len(tasks')
  BY LenProperties DEF Sorted, Counting, TypeOK
<1> QED
  BY <1>1 DEF Sorted, QueueSorted

LEMMA SortedRemove ==
  ASSUME Sorted, taskIdCounter' = taskIdCounter, NEW id, RemoveTask(id, tasks')
  PROVE  /\ QueueSorted'
         /\ \A i \in DOMAIN tasks' : tasks'[i].id <= taskIdCounter'
<1>1. tasks \in Seq(Task) /\ Len(tasks) \in Nat /\ DOMAIN tasks = 1 .. Len(tasks)
  BY LenProperties DEF Sorted, Counting, TypeOK
<1>2. CASE tasks' = tasks
  BY <1>2 DEF Sorted, QueueSorted
<1>3. ASSUME NEW k \in DOMAIN tasks, tasks' = RemoveAt(tasks, k)
      PROVE  /\ QueueSorted'
             /\ \A i \in DOMAIN tasks' : tasks'[i].id <= taskIdCounter'
  <2> DEFINE f == [i \in 1 .. Len(tasks) - 1 |-> IF i < k THEN i ELSE i + 1]
  <2>1. /\ tasks' \in Seq(Task) /\ Len(tasks') = Len(tasks) - 1
        /\ \A i \in 1 .. Len(tasks) - 1 :
             tasks'[i] = IF i < k THEN tasks[i] ELSE tasks[i + 1]
    BY <1>1, <1>3, RemoveAtElements
  <2>2. /\ f \in [1 .. Len(tasks') -> 1 .. Len(tasks)]
        /\ \A i, j \in 1 .. Len(tasks') : i < j => f[i] < f[j]
        /\ \A i \in 1 .. Len(tasks') : tasks'[i] = tasks[f[i]]
    BY <1>1, <1>3, <2>1
  <2> HIDE DEF f
  <2> QED
    BY <2>1, <2>2, SortedSubsequence
<1> QED
  BY <1>2, <1>3 DEF RemoveTask

LEMMA SortedTail ==
  ASSUME Sorted, taskIdCounter' = taskIdCounter, tasks # <<>>, tasks' = Tail(tasks)
  PROVE  /\ QueueSorted'
         /\ \A i \in DOMAIN tasks' : tasks'[i].id <= taskIdCounter'
<1> DEFINE f == [i \in 1 .. Len(tasks) - 1 |-> i + 1]
<1>1. tasks \in Seq(Task) /\ Len(tasks) \in Nat
  BY LenProperties DEF Sorted, Counting, TypeOK
<1>2. /\ tasks' \in Seq(Task) /\ Len(tasks') = Len(tasks) - 1
      /\ \A i \in 1 .. Len(tasks) - 1 : tasks'[i] = tasks[i + 1]
  BY <1>1, HeadTailProperties
<1>3. /\ f \in [1 .. Len(tasks') -> 1 .. Len(tasks)]
      /\ \A i, j \in 1 .. Len(tasks') : i < j => f[i] < f[j]
      /\ \A i \in 1 .. Len(tasks') : tasks'[i] = tasks[f[i]]
  BY <1>1, <1>2
<1> HIDE DEF f
<1> QED
  BY <1>2, <1>3, SortedSubsequence

LEMMA SortedStep ==
  ASSUME Sorted, [Next]_vars
  PROVE  Sorted'
<1> DEFINE Ordered == QueueSorted /\ \A i \in DOMAIN tasks : tasks[i].id <= taskIdCounter
<1>0. Counting'
  BY CountingStep DEF Sorted
<1>1. CASE tasks' = tasks /\ taskIdCounter' = taskIdCounter
  BY <1>0, <1>1 DEF Sorted, QueueSorted
<1>2. ASSUME NEW c \in Callers, Call(c)
      PROVE  Ordered'
  <2>1. CASE Cancel(c)
    BY <2>1, SortedRemove DEF Cancel
  <2>2. CASE EnqueueBegin(c) \/ BarrierBegin(c) \/ DisposeBegin(c) \/ SetMaxConcurrentTasks(c)
    BY <1>1, <2>2 DEF EnqueueBegin, BarrierBegin, DisposeBegin, SetMaxConcurrentTasks, queueVars, Sorted
  <2> QED
    BY <1>2, <2>1, <2>2 DEF Call
<1>3. ASSUME NEW c \in Callers, Continue(c)
      PROVE  Ordered'
  <2>0. time[c] \in Times
    BY DEF Sorted, Counting, TypeOK
  <2>1. CASE EnqueueLocked(c)
    BY <2>0, <2>1, SortedInsert DEF EnqueueLocked
  <2>2. CASE BarrierLocked(c)
    BY <2>0, <2>2, SortedInsert DEF BarrierLocked
  <2>3. CASE BarrierFinish(c)
    BY <2>3, SortedRemove DEF BarrierFinish
  <2>4. CASE DisposeSwap(c)
    BY <2>4 DEF DisposeSwap, QueueSorted
  <2>5. CASE BarrierRetry(c) \/ DisposeSet(c)
    BY <1>1, <2>5 DEF BarrierRetry, DisposeSet, queueVars, Sorted
  <2> QED
    BY <1>3, <2>1, <2>2, <2>3, <2>4, <2>5 DEF Continue
<1>4. ASSUME NEW w \in Workers, Handle(w)
      PROVE  Ordered'
  <2>1. CASE TakeTask(w)
    BY <2>1, SortedTail DEF TakeTask
  <2>2. CASE \/ HandlerExit(w) \/ WaitForTask(w) \/ WaitForTurn(w) \/ WaitUntilDue(w)
             \/ TaskFinish(w) \/ NapOver(w)
    BY <1>1, <2>2 DEF HandlerExit, WaitForTask, WaitForTurn, WaitUntilDue, TaskFinish, NapOver,
                      queueVars, Sorted
  <2> QED
    BY <1>4, <2>1, <2>2 DEF Handle
<1>5. CASE Tick \/ (\E t \in Threads : StrayWakeup(t)) \/ UNCHANGED vars
  BY <1>1, <1>5 DEF Tick, StrayWakeup, vars, queueVars
<1> QED
  BY <1>0, <1>2, <1>3, <1>4, <1>5 DEF Next, Sorted

(* The front of the deque is always the task that is due first, the oldest one *)
(* at equal times.                                                             *)
THEOREM QueueSortedCorrect == Spec => []QueueSorted
<1>1. Init => Sorted
  BY CountingInit DEF Init, Sorted, QueueSorted
<1>2. Sorted /\ [Next]_vars => Sorted'
  BY SortedStep
<1>3. Sorted => QueueSorted
  BY DEF Sorted
<1> QED
  BY <1>1, <1>2, <1>3, PTL DEF Spec

-----------------------------------------------------------------------------
(* What is in the deque, whatever its order. *)

In(q) == {q[i] : i \in DOMAIN q}

DistinctIds == \A i, j \in DOMAIN tasks : tasks[i].id = tasks[j].id => i = j

NewTask(when, barrier) == [id |-> taskIdCounter + 1, time |-> when, barrier |-> barrier]

LEMMA InTasks ==
  ASSUME TypeOK
  PROVE  /\ In(tasks) \subseteq Task /\ In(<<>>) = {}
         /\ DOMAIN tasks = 1 .. Len(tasks) /\ Len(tasks) \in Nat
         /\ tasks # <<>> => 1 \in DOMAIN tasks /\ tasks[1] \in In(tasks)
<1>1. tasks \in Seq(Task) /\ DOMAIN tasks = 1 .. Len(tasks) /\ Len(tasks) \in Nat
  BY LenProperties DEF TypeOK
<1>2. In(tasks) \subseteq Task
  BY <1>1, ElementOfSeq DEF In
<1>3. tasks # <<>> => 1 \in DOMAIN tasks
  BY <1>1, EmptySeq
<1> QED
  BY <1>1, <1>2, <1>3 DEF In

LEMMA InsertedIn ==
  ASSUME TypeOK, NEW when \in Times, NEW barrier \in BOOLEAN, NEW q, InsertTask(when, barrier, q)
  PROVE  /\ In(q) = In(tasks) \cup {NewTask(when, barrier)}
         /\ q \in Seq(Task) /\ q # <<>> /\ DOMAIN q = 1 .. Len(tasks) + 1
         /\ \E k \in DOMAIN q : \A i \in DOMAIN q :
              q[i] = IF i < k THEN tasks[i] ELSE IF i = k THEN NewTask(when, barrier) ELSE tasks[i - 1]
<1> DEFINE e == NewTask(when, barrier)
<1>1. e \in Task
  BY TaskQueueAssumption DEF TypeOK, InsertTask, Task, Ids, NewTask
<1>2. PICK k \in 1 .. Len(tasks) + 1 : q = InsertAt(tasks, k, e)
  BY DEF InsertTask, NewTask
<1> HIDE DEF e
<1>3. tasks \in Seq(Task) /\ DOMAIN tasks = 1 .. Len(tasks) /\ Len(tasks) \in Nat
  BY InTasks DEF TypeOK
<1>4. /\ q \in Seq(Task) /\ Len(q) = Len(tasks) + 1
      /\ \A i \in 1 .. Len(tasks) + 1 :
           q[i] = IF i < k THEN tasks[i] ELSE IF i = k THEN e ELSE tasks[i - 1]
  <2>1. /\ InsertAt(tasks, k, e) \in Seq(Task) /\ Len(InsertAt(tasks, k, e)) = Len(tasks) + 1
        /\ \A i \in 1 .. Len(tasks) + 1 :
             InsertAt(tasks, k, e)[i] = IF i < k THEN tasks[i] ELSE IF i = k THEN e ELSE tasks[i - 1]
    BY ONLY <1>1, <1>3, InsertAtElements
  <2> QED
    BY <1>2, <2>1
<1>5. DOMAIN q = 1 .. Len(tasks) + 1
  BY <1>4, LenProperties
<1>6. ASSUME NEW x PROVE x \in In(q) <=> x \in In(tasks) \/ x = e
  <2>1. ASSUME x \in In(q) PROVE x \in In(tasks) \/ x = e
    <3>1. PICK i \in 1 .. Len(tasks) + 1 : x = q[i]
      BY <1>5, <2>1 DEF In
    <3>2. x = e \/ (i < k /\ x = tasks[i]) \/ (i > k /\ x = tasks[i - 1])
      BY <1>3, <1>4, <3>1
    <3> QED
      BY <1>3, <3>1, <3>2 DEF In
  <2>2. ASSUME x \in In(tasks) PROVE x \in In(q)
    <3>1. PICK i \in 1 .. Len(tasks) : x = tasks[i]
      BY <1>3, <2>2 DEF In
    <3>2. CASE i < k
      BY <1>3, <1>4, <1>5, <3>1, <3>2 DEF In
    <3>3. CASE ~(i < k)
      <4>1. i + 1 \in 1 .. Len(tasks) + 1 /\ q[i + 1] = tasks[(i + 1) - 1]
        BY <1>3, <1>4, <3>3
      <4> QED
        BY <1>5, <3>1, <4>1 DEF In
    <3> QED
      BY <3>2, <3>3
  <2>3. e \in In(q)
    BY <1>3, <1>4, <1>5 DEF In
  <2> QED
    BY <2>1, <2>2, <2>3
<1>7. q # <<>>
  BY <1>2, <1>5
<1> QED
  BY <1>4, <1>5, <1>6, <1>7 DEF e

(* What is not removed or taken stays. *)
LEMMA RemovedOthers ==
  ASSUME TypeOK, NEW id, NEW q, RemoveTask(id, q), NEW x \in In(tasks), x.id # id
  PROVE  x \in In(q)
<1>1. tasks \in Seq(Task) /\ DOMAIN tasks = 1 .. Len(tasks) /\ Len(tasks) \in Nat
  BY InTasks DEF TypeOK
<1>2. CASE q = tasks
  BY <1>2
<1>3. ASSUME NEW k \in DOMAIN tasks, tasks[k].id = id, q = RemoveAt(tasks, k) PROVE x \in In(q)
  <2>1. /\ q \in Seq(Task) /\ Len(q) = Len(tasks) - 1
        /\ \A i \in 1 .. Len(tasks) - 1 : q[i] = IF i < k THEN tasks[i] ELSE tasks[i + 1]
    BY <1>1, <1>3, RemoveAtElements
  <2>2. DOMAIN q = 1 .. Len(tasks) - 1
    BY <2>1, LenProperties
  <2>3. PICK j \in 1 .. Len(tasks) : x = tasks[j] /\ j # k
    BY <1>1, <1>3 DEF In
  <2>4. CASE j < k
    BY <1>1, <1>3, <2>1, <2>2, <2>3, <2>4 DEF In
  <2>5. CASE j > k
    <3>1. j - 1 \in 1 .. Len(tasks) - 1 /\ q[j - 1] = tasks[(j - 1) + 1]
      BY <1>1, <1>3, <2>1, <2>5
    <3> QED
      BY <2>2, <2>3, <3>1 DEF In
  <2> QED
    BY <1>1, <1>3, <2>3, <2>4, <2>5
<1> QED
  BY <1>2, <1>3 DEF RemoveTask

LEMMA RemovedIn ==
  ASSUME TypeOK, NEW id, NEW q, RemoveTask(id, q)
  PROVE  /\ In(q) \subseteq In(tasks)
         /\ DistinctIds => In(q) = {e \in In(tasks) : e.id # id}
<1>1. tasks \in Seq(Task) /\ DOMAIN tasks = 1 .. Len(tasks) /\ Len(tasks) \in Nat
  BY InTasks DEF TypeOK
<1>2. CASE (\A i \in DOMAIN tasks : tasks[i].id # id) /\ q = tasks
  BY <1>2 DEF In
<1>3. ASSUME NEW k \in DOMAIN tasks, tasks[k].id = id, q = RemoveAt(tasks, k)
      PROVE  /\ In(q) \subseteq In(tasks)
             /\ DistinctIds => In(q) = {e \in In(tasks) : e.id # id}
  <2>1. /\ q \in Seq(Task) /\ Len(q) = Len(tasks) - 1
        /\ \A i \in 1 .. Len(tasks) - 1 : q[i] = IF i < k THEN tasks[i] ELSE tasks[i + 1]
    BY <1>1, <1>3, RemoveAtElements
  <2>2. DOMAIN q = 1 .. Len(tasks) - 1
    BY <2>1, LenProperties
  <2>3. ASSUME NEW x \in In(q) PROVE x \in In(tasks) /\ (DistinctIds => x.id # id)
    <3>1. PICK i \in 1 .. Len(tasks) - 1 : x = q[i]
      BY <2>2 DEF In
    <3>2. \E j \in DOMAIN tasks : x = tasks[j] /\ j # k
      <4>1. CASE i < k
        <5>1. i \in DOMAIN tasks /\ i # k
          BY <1>1, <1>3, <3>1, <4>1
        <5>2. x = tasks[i]
          BY <2>1, <3>1, <4>1
        <5> QED
          BY <5>1, <5>2
      <4>2. CASE ~(i < k)
        <5>1. i + 1 \in DOMAIN tasks /\ i + 1 # k
          BY <1>1, <1>3, <3>1, <4>2
        <5>2. x = tasks[i + 1]
          BY <2>1, <3>1, <4>2
        <5> QED
          BY <5>1, <5>2
      <4> QED
        BY <4>1, <4>2
    <3>3. PICK j \in DOMAIN tasks : x = tasks[j] /\ j # k
      BY <3>2
    <3> QED
      BY <1>3, <3>3 DEF In, DistinctIds
  <2>4. ASSUME NEW x \in In(tasks), x.id # id PROVE x \in In(q)
    BY <2>4, RemovedOthers
  <2> QED
    BY <2>3, <2>4
<1> QED
  BY <1>2, <1>3 DEF RemoveTask

LEMMA TailOthers ==
  ASSUME TypeOK, tasks # <<>>, NEW x \in In(tasks), x # tasks[1]
  PROVE  x \in In(Tail(tasks))
<1> DEFINE t == Tail(tasks)
<1>1. /\ DOMAIN tasks = 1 .. Len(tasks) /\ Len(tasks) \in Nat
      /\ DOMAIN t = 1 .. Len(tasks) - 1
      /\ \A i \in 1 .. Len(tasks) - 1 : t[i] = tasks[i + 1]
  BY InTasks, HeadTailProperties, LenProperties DEF TypeOK
<1> HIDE DEF t
<1>2. PICK i \in 1 .. Len(tasks) : x = tasks[i] /\ i # 1
  BY <1>1 DEF In
<1>3. i - 1 \in 1 .. Len(tasks) - 1 /\ t[i - 1] = tasks[(i - 1) + 1]
  BY <1>1, <1>2
<1>4. x \in In(t)
  BY <1>1, <1>2, <1>3 DEF In
<1> QED
  BY <1>4 DEF t

LEMMA TailIn ==
  ASSUME TypeOK, tasks # <<>>
  PROVE  /\ In(Tail(tasks)) \subseteq In(tasks)
         /\ DistinctIds => In(Tail(tasks)) = In(tasks) \ {tasks[1]}
<1> DEFINE t == Tail(tasks)
<1>1. /\ DOMAIN tasks = 1 .. Len(tasks) /\ Len(tasks) \in Nat
      /\ DOMAIN t = 1 .. Len(tasks) - 1
      /\ \A i \in 1 .. Len(tasks) - 1 : t[i] = tasks[i + 1]
  BY InTasks, HeadTailProperties, LenProperties DEF TypeOK
<1> HIDE DEF t
<1>2. ASSUME NEW x \in In(t) PROVE x \in In(tasks) /\ (DistinctIds => x # tasks[1])
  <2>1. PICK i \in 1 .. Len(tasks) - 1 : x = tasks[i + 1]
    BY <1>1 DEF In
  <2>2. i + 1 \in DOMAIN tasks /\ 1 \in DOMAIN tasks /\ i + 1 # 1
    BY <1>1
  <2> QED
    BY <2>1, <2>2 DEF In, DistinctIds
<1>3. ASSUME NEW x \in In(tasks), x # tasks[1] PROVE x \in In(t)
  BY <1>3, TailOthers DEF t
<1> QED
  BY <1>2, <1>3 DEF t

-----------------------------------------------------------------------------
(* A queue with one handler thread, as every ThreadedDispatchQueue has.       *)

OneHandler == \A v, w \in Workers : v = w

Idle == Counting /\ EmptyIsIdle

LEMMA OnlyBarriers ==
  EmptyIsIdle <=> (empty => /\ \A e \in In(tasks) : e.barrier
                            /\ \A w \in Workers : pc[w] # "run")
  BY DEF EmptyIsIdle, In

LEMMA OnlyBarriersNext ==
  EmptyIsIdle' <=> (empty' => /\ \A e \in In(tasks') : e.barrier
                              /\ \A w \in Workers : pc'[w] # "run")
  BY DEF EmptyIsIdle, In

Places ==
  {"idle", "enqueue", "barrier", "barrierWait", "barrierAsleep", "barrierRun",
   "disposeSet", "disposeSwap", "loop", "asleep", "nap", "run", "exited"}

LEMMA IdleStep ==
  ASSUME OneHandler, Idle, [Next]_vars
  PROVE  EmptyIsIdle'
<1>0. /\ TypeOK /\ pc \in [Threads -> Places]
      /\ empty => (\A e \in In(tasks) : e.barrier) /\ \A w \in Workers : pc[w] # "run"
      /\ \A c \in Callers : c \in Threads /\ c \notin Workers
      /\ \A w \in Workers : w \in Threads
  <2>1. TypeOK /\ EmptyIsIdle
    BY DEF Idle, Counting
  <2>2. pc \in [Threads -> Places]
    BY <2>1 DEF TypeOK, Places
  <2> QED
    BY <2>1, <2>2, OnlyBarriers, TaskQueueAssumption DEF Threads
<1>1. ASSUME empty' = empty, \A e \in In(tasks') : e.barrier \/ e \in In(tasks),
             \A w \in Workers : pc'[w] = "run" => pc[w] = "run"
      PROVE  EmptyIsIdle'
  BY <1>0, <1>1, OnlyBarriersNext
<1>2. ASSUME NEW c \in Callers, Call(c) PROVE EmptyIsIdle'
  <2>1. /\ empty' = empty
        /\ \A w \in Workers : pc'[w] = "run" => pc[w] = "run"
    BY <1>0, <1>2 DEF Call, EnqueueBegin, Cancel, BarrierBegin, DisposeBegin, SetMaxConcurrentTasks,
                      queueVars, Woken
  <2>2. CASE Cancel(c)
    <3>1. In(tasks') \subseteq In(tasks)
      BY <1>0, <2>2, RemovedIn DEF Cancel
    <3> QED
      BY <1>1, <2>1, <3>1
  <2>3. CASE ~Cancel(c)
    <3>1. tasks' = tasks
      BY <1>2, <2>3 DEF Call, EnqueueBegin, BarrierBegin, DisposeBegin, SetMaxConcurrentTasks, queueVars
    <3> QED
      BY <1>1, <2>1, <3>1
  <2> QED
    BY <2>2, <2>3
<1>3. ASSUME NEW c \in Callers, Continue(c) PROVE EmptyIsIdle'
  <2>0. time[c] \in Times
    BY <1>0 DEF TypeOK
  <2>1. CASE EnqueueLocked(c)
    BY <2>1, OnlyBarriersNext DEF EnqueueLocked
  <2>2. ASSUME NEW id, NEW q, BarrierTurn(c, id, q)
        PROVE  \A w \in Workers : pc'[w] = "run" => pc[w] = "run"
    BY <1>0, <2>2 DEF BarrierTurn
  <2>3. CASE BarrierLocked(c)
    <3>1. /\ empty' = empty /\ InsertTask(time[c], TRUE, tasks')
          /\ \A w \in Workers : pc'[w] = "run" => pc[w] = "run"
      BY <2>2, <2>3 DEF BarrierLocked
    <3>2. In(tasks') = In(tasks) \cup {NewTask(time[c], TRUE)}
      BY <1>0, <2>0, <3>1, InsertedIn
    <3>3. NewTask(time[c], TRUE).barrier
      BY DEF NewTask
    <3> QED
      BY <1>1, <3>1, <3>2, <3>3
  <2>4. CASE BarrierRetry(c)
    <3>1. empty' = empty /\ tasks' = tasks /\ \A w \in Workers : pc'[w] = "run" => pc[w] = "run"
      BY <2>2, <2>4 DEF BarrierRetry
    <3> QED
      BY <1>1, <3>1
  <2>5. CASE BarrierFinish(c)
    <3>1. empty' = empty /\ \A w \in Workers : pc'[w] = "run" => pc[w] = "run"
      BY <1>0, <2>5 DEF BarrierFinish, Woken
    <3>2. In(tasks') \subseteq In(tasks)
      BY <1>0, <2>5, RemovedIn DEF BarrierFinish
    <3> QED
      BY <1>1, <3>1, <3>2
  <2>6. CASE DisposeSet(c)
    <3>1. empty' = empty /\ tasks' = tasks /\ \A w \in Workers : pc'[w] = "run" => pc[w] = "run"
      BY <1>0, <2>6 DEF DisposeSet, queueVars
    <3> QED
      BY <1>1, <3>1
  <2>7. CASE DisposeSwap(c)
    <3>1. empty' = empty /\ \A w \in Workers : pc'[w] = "run" => pc[w] = "run"
      BY <1>0, <2>7 DEF DisposeSwap, Woken
    <3>2. In(tasks') = {}
      BY <1>0, <2>7, InTasks DEF DisposeSwap
    <3> QED
      BY <1>1, <3>1, <3>2
  <2> QED
    BY <1>3, <2>1, <2>3, <2>4, <2>5, <2>6, <2>7 DEF Continue
<1>4. ASSUME NEW w \in Workers, Handle(w) PROVE EmptyIsIdle'
  <2>1. CASE WaitForTask(w)
    <3>1. tasks' = <<>> /\ \A v \in Workers : pc'[v] # "run"
      BY <1>0, <1>4, <2>1 DEF WaitForTask, OneHandler
    <3>2. In(tasks') = {}
      BY <1>0, <3>1, InTasks
    <3> QED
      BY <3>1, <3>2, OnlyBarriersNext
  <2>2. CASE TakeTask(w)
    <3>1. empty' = empty /\ tasks # <<>> /\ ~tasks[1].barrier
      BY <2>2 DEF TakeTask
    <3>2. ~empty
      BY <1>0, <3>1, InTasks
    <3> QED
      BY <3>1, <3>2, OnlyBarriersNext
  <2>3. CASE HandlerExit(w) \/ WaitForTurn(w) \/ WaitUntilDue(w) \/ TaskFinish(w) \/ NapOver(w)
    <3>1. /\ empty' = empty /\ tasks' = tasks
          /\ \A v \in Workers : pc'[v] = "run" => pc[v] = "run"
      BY <1>0, <2>3 DEF HandlerExit, WaitForTurn, WaitUntilDue, TaskFinish, NapOver, Woken, queueVars
    <3> QED
      BY <1>1, <3>1
  <2> QED
    BY <1>4, <2>1, <2>2, <2>3 DEF Handle
<1>5. CASE Tick \/ (\E t \in Threads : StrayWakeup(t)) \/ UNCHANGED vars
  <2>1. /\ empty' = empty /\ tasks' = tasks
        /\ \A v \in Workers : pc'[v] = "run" => pc[v] = "run"
    BY <1>0, <1>5 DEF Tick, StrayWakeup, vars, queueVars, threadVars
  <2> QED
    BY <1>1, <2>1
<1> QED
  BY <1>2, <1>3, <1>4, <1>5 DEF Next, Idle

(* For any number of callers, tasks and instants: when the listener was last    *)
(* told the queue is empty, its one handler thread runs nothing and only        *)
(* barriers wait.                                                               *)
THEOREM EmptyIsIdleCorrect ==
  ASSUME OneHandler
  PROVE  Spec => []EmptyIsIdle
<1>1. Init => Idle
  <2> SUFFICES ASSUME Init PROVE Idle
    OBVIOUS
  <2>1. Counting /\ tasks = <<>> /\ \A w \in Workers : pc[w] = "loop"
    BY CountingInit, TaskQueueAssumption DEF Init, Threads
  <2>2. In(tasks) = {}
    BY <2>1, InTasks DEF Counting
  <2> QED
    BY <2>1, <2>2, OnlyBarriers DEF Idle
<1>2. Idle /\ [Next]_vars => Idle'
  BY IdleStep, CountingStep DEF Idle
<1>3. Idle => EmptyIsIdle
  BY DEF Idle
<1> QED
  BY <1>1, <1>2, <1>3, PTL DEF Spec

-----------------------------------------------------------------------------
(* Wakeups.  Handlers, naps and barriers wait on one condition variable and    *)
(* are woken together.                                                         *)

InBarrier == {"barrierWait", "barrierAsleep", "barrierRun"}

(* A task that a handler may start, now or when its time has come. *)
Ready == tasks # <<>> /\ Available /\ ~tasks[1].barrier

(* Nobody waits for what is already true: no handler sleeps while a task is    *)
(* ready, or naps beyond its time, or sleeps once the queue is disposed, but   *)
(* for the moment before dispose() empties the deque; no barrier sleeps when   *)
(* it is its turn, or when the deque was emptied under it.                     *)
NoLostWakeup ==
  /\ Ready => \A w \in Workers : /\ pc[w] # "asleep"
                                 /\ pc[w] = "nap" => time[w] <= tasks[1].time
  /\ disposed => \/ \A w \in Workers : pc[w] \notin {"asleep", "nap"}
                 \/ \E c \in Callers : pc[c] = "disposeSwap"
  /\ \A c \in Callers : pc[c] = "barrierAsleep" =>
       tasks # <<>> /\ (currentRunningTasks # 0 \/ tasks[1].id # own[c])

(* Each barrier has an entry of its own until it ends or the queue is disposed. *)
Barriers ==
  /\ \A c \in Callers : pc[c] = "disposeSwap" => disposed
  /\ \A c \in Callers : pc[c] \in InBarrier =>
       /\ own[c] <= taskIdCounter
       /\ disposed \/ \E e \in In(tasks) : e.id = own[c] /\ e.barrier
       /\ \A d \in Callers : pc[d] \in InBarrier /\ own[d] = own[c] => d = c

Wakeful == Sorted /\ Barriers /\ NoLostWakeup

LEMMA WakefulFacts ==
  ASSUME Wakeful
  PROVE  /\ TypeOK
         /\ pc \in [Threads -> Places] /\ own \in [Threads -> Nat] /\ time \in [Threads -> Nat]
         /\ taskIdCounter \in Nat /\ currentRunningTasks \in Nat /\ maxConcurrentTasks \in Nat
         /\ \A e \in In(tasks) : e.id \in Nat /\ e.id <= taskIdCounter /\ e.time \in Nat
         /\ tasks # <<>> => tasks[1] \in In(tasks)
         /\ \A c \in Callers :
              c \in Threads /\ c \notin Workers /\ pc[c] \notin {"loop", "asleep", "nap", "run", "exited"}
         /\ \A w \in Workers : w \in Threads /\ pc[w] \in {"loop", "asleep", "nap", "run", "exited"}
<1>1. TypeOK /\ \A e \in In(tasks) : e.id <= taskIdCounter
  BY DEF Wakeful, Sorted, Counting, In
<1>2. Times \subseteq Nat /\ Ids \subseteq Nat /\ 0 .. MaxTasks \subseteq Nat
  BY TaskQueueAssumption DEF Times, Ids
<1>3. pc \in [Threads -> Places] /\ own \in [Threads -> Nat] /\ time \in [Threads -> Nat]
  BY <1>1, <1>2 DEF TypeOK, Places
<1>4. taskIdCounter \in Nat /\ currentRunningTasks \in Nat /\ maxConcurrentTasks \in Nat
  BY <1>1, <1>2, TaskQueueAssumption DEF TypeOK
<1>5. In(tasks) \subseteq Task /\ (tasks # <<>> => tasks[1] \in In(tasks))
  BY <1>1, InTasks
<1>6. \A e \in In(tasks) : e.id \in Nat /\ e.time \in Nat
  BY <1>2, <1>5 DEF Task
<1>7. /\ \A c \in Callers :
           c \in Threads /\ c \notin Workers /\ pc[c] \notin {"loop", "asleep", "nap", "run", "exited"}
      /\ \A w \in Workers : w \in Threads /\ pc[w] \in {"loop", "asleep", "nap", "run", "exited"}
  BY <1>1, TaskQueueAssumption DEF TypeOK, Threads
<1> QED
  BY <1>1, <1>3, <1>4, <1>5, <1>6, <1>7

(* The front of the deque after an insertion, and after a task was taken. *)
LEMMA InsertedFront ==
  ASSUME TypeOK, NEW when \in Times, NEW barrier \in BOOLEAN, InsertTask(when, barrier, tasks')
  PROVE  /\ tasks' # <<>>
         /\ tasks'[1] = NewTask(when, barrier) \/ (tasks # <<>> /\ tasks'[1] = tasks[1])
<1>1. PICK k \in DOMAIN tasks' : \A i \in DOMAIN tasks' :
        tasks'[i] = IF i < k THEN tasks[i] ELSE IF i = k THEN NewTask(when, barrier) ELSE tasks[i - 1]
  BY InsertedIn
<1>2. /\ DOMAIN tasks' = 1 .. Len(tasks) + 1 /\ tasks' # <<>> /\ Len(tasks) \in Nat
      /\ DOMAIN tasks = 1 .. Len(tasks)
  BY InsertedIn, InTasks
<1>3. 1 \in DOMAIN tasks' /\ k \in 1 .. Len(tasks) + 1
  BY <1>1, <1>2
<1>4. CASE k = 1
  BY <1>1, <1>2, <1>3, <1>4
<1>5. CASE k # 1
  <2>1. 1 < k /\ 1 \in DOMAIN tasks
    BY <1>2, <1>3, <1>5
  <2>2. tasks # <<>> /\ tasks'[1] = tasks[1]
    BY <1>1, <1>3, <2>1
  <2> QED
    BY <1>2, <2>2
<1> QED
  BY <1>4, <1>5

LEMMA NextFront ==
  ASSUME Sorted, tasks # <<>>, tasks' = Tail(tasks), tasks' # <<>>
  PROVE  tasks[1].time <= tasks'[1].time /\ tasks'[1] \in In(tasks)
<1>1. /\ TypeOK /\ tasks \in Seq(Task) /\ Len(tasks) \in Nat /\ DOMAIN tasks = 1 .. Len(tasks)
      /\ In(tasks) \subseteq Task /\ Times \subseteq Nat
  BY InTasks, TaskQueueAssumption DEF Sorted, Counting, TypeOK, Times
<1>2. /\ tasks' \in Seq(Task) /\ Len(tasks') = Len(tasks) - 1
      /\ \A i \in 1 .. Len(tasks) - 1 : tasks'[i] = tasks[i + 1]
  BY <1>1, HeadTailProperties
<1>3. Len(tasks') # 0
  BY <1>2, EmptySeq
<1>4. 1 \in 1 .. Len(tasks) - 1 /\ 1 \in DOMAIN tasks /\ 2 \in DOMAIN tasks /\ 1 + 1 = 2
  BY <1>1, <1>2, <1>3
<1>5. tasks'[1] = tasks[2]
  BY <1>2, <1>4
<1>6. Before(tasks[1], tasks[2])
  BY <1>4 DEF Sorted, QueueSorted
<1>7. tasks[1] \in In(tasks) /\ tasks[2] \in In(tasks)
  BY <1>4 DEF In
<1>8. tasks[1].time \in Nat /\ tasks[2].time \in Nat
  BY <1>1, <1>7 DEF Task
<1> QED
  BY <1>5, <1>6, <1>7, <1>8 DEF Before

LEMMA BarriersStep ==
  ASSUME Wakeful, [Next]_vars
  PROVE  Barriers'
<1>0. /\ TypeOK /\ Barriers
      /\ pc \in [Threads -> Places] /\ own \in [Threads -> Nat] /\ taskIdCounter \in Nat
      /\ \A c \in Callers :
           c \in Threads /\ c \notin Workers /\ pc[c] \notin {"loop", "asleep", "nap", "run", "exited"}
      /\ \A w \in Workers : w \in Threads
      /\ \A c \in Callers : time[c] \in Times
  <2>1. \A c \in Callers : time[c] \in Times
    BY WakefulFacts DEF TypeOK
  <2> QED
    BY <2>1, WakefulFacts DEF Wakeful
(* No barrier is inserted, and those there keep their entries. *)
<1>1. ASSUME disposed => disposed',
             taskIdCounter' \in {taskIdCounter, taskIdCounter + 1},
             \A c \in Callers : pc'[c] = "disposeSwap" => pc[c] = "disposeSwap" \/ disposed',
             \A c \in Callers : pc'[c] \in InBarrier => pc[c] \in InBarrier /\ own'[c] = own[c],
             \A c \in Callers : pc'[c] \in InBarrier =>
               disposed' \/ \A e \in In(tasks) : e.barrier /\ e.id = own[c] => e \in In(tasks')
      PROVE  Barriers'
  <2>1. \A c \in Callers : pc'[c] = "disposeSwap" => disposed'
    BY <1>0, <1>1 DEF Barriers
  <2>2. ASSUME NEW c \in Callers, pc'[c] \in InBarrier
        PROVE  /\ own'[c] <= taskIdCounter'
               /\ disposed' \/ \E e \in In(tasks') : e.id = own'[c] /\ e.barrier
               /\ \A d \in Callers : pc'[d] \in InBarrier /\ own'[d] = own'[c] => d = c
    <3>1. /\ pc[c] \in InBarrier /\ own'[c] = own[c] /\ own[c] <= taskIdCounter /\ own[c] \in Nat
          /\ disposed \/ \E e \in In(tasks) : e.id = own[c] /\ e.barrier
          /\ \A d \in Callers : pc[d] \in InBarrier /\ own[d] = own[c] => d = c
      BY <1>0, <1>1, <2>2 DEF Barriers
    <3>2. own'[c] <= taskIdCounter'
      BY <1>0, <1>1, <3>1
    <3> QED
      BY <1>1, <2>2, <3>1, <3>2
  <2> QED
    BY <2>1, <2>2 DEF Barriers
<1>2. ASSUME NEW c \in Callers, Call(c) PROVE Barriers'
  <2>1. /\ disposed' = disposed /\ taskIdCounter' = taskIdCounter /\ own' = own
        /\ \A d \in Callers : pc'[d] # "disposeSwap" \/ pc[d] = "disposeSwap"
        /\ \A d \in Callers : pc'[d] \in InBarrier => pc[d] \in InBarrier
    BY <1>0, <1>2 DEF Call, EnqueueBegin, Cancel, BarrierBegin, DisposeBegin, SetMaxConcurrentTasks,
                      queueVars, Woken, InBarrier
  <2>2. CASE Cancel(c)
    <3>1. PICK id : RemoveTask(id, tasks') /\ \A i \in DOMAIN tasks : tasks[i].barrier => tasks[i].id # id
      BY <2>2 DEF Cancel
    <3>2. \A e \in In(tasks) : e.barrier => e.id # id
      BY <3>1 DEF In
    <3>3. \A e \in In(tasks) : e.id # id => e \in In(tasks')
      BY <1>0, <3>1, RemovedOthers
    <3> QED
      BY <1>1, <2>1, <3>2, <3>3
  <2>3. CASE ~Cancel(c)
    <3>1. tasks' = tasks
      BY <1>2, <2>3 DEF Call, EnqueueBegin, BarrierBegin, DisposeBegin, SetMaxConcurrentTasks, queueVars
    <3> QED
      BY <1>1, <2>1, <3>1
  <2> QED
    BY <2>2, <2>3
<1>3. ASSUME NEW c \in Callers, EnqueueLocked(c) PROVE Barriers'
  <2>1. In(tasks) \subseteq In(tasks')
    <3>1. InsertTask(time[c], FALSE, tasks')
      BY <1>3 DEF EnqueueLocked
    <3>2. In(tasks') = In(tasks) \cup {NewTask(time[c], FALSE)}
      BY <1>0, <3>1, InsertedIn
    <3> QED
      BY <3>2
  <2>2. /\ disposed' = disposed /\ taskIdCounter' = taskIdCounter + 1 /\ own' = own
        /\ \A d \in Callers : pc'[d] # "disposeSwap" \/ pc[d] = "disposeSwap"
        /\ \A d \in Callers : pc'[d] \in InBarrier => pc[d] \in InBarrier
    BY <1>0, <1>3 DEF EnqueueLocked, InsertTask, Woken, InBarrier
  <2> QED
    BY <1>1, <2>1, <2>2
<1>4. ASSUME NEW c \in Callers, BarrierLocked(c) PROVE Barriers'
  <2> DEFINE e == NewTask(time[c], TRUE)
  <2>1. /\ In(tasks') = In(tasks) \cup {e} /\ tasks' # <<>>
        /\ taskIdCounter' = taskIdCounter + 1 /\ disposed' = disposed
        /\ BarrierTurn(c, taskIdCounter', tasks')
    BY <1>0, <1>4, InsertedIn DEF BarrierLocked, InsertTask
  <2>2. /\ pc'[c] \in InBarrier /\ own'[c] = taskIdCounter + 1
        /\ \A d \in Threads \ {c} : pc'[d] = pc[d] /\ own'[d] = own[d]
    BY <1>0, <2>1 DEF BarrierTurn, InBarrier
  <2>3. e.id = taskIdCounter + 1 /\ e.barrier
    BY DEF NewTask
  <2> HIDE DEF e
  <2>4. \A d \in Callers : pc'[d] = "disposeSwap" => disposed'
    BY <1>0, <2>1, <2>2 DEF Barriers, InBarrier
  <2>5. ASSUME NEW d \in Callers, d # c, pc'[d] \in InBarrier
        PROVE  /\ pc[d] \in InBarrier /\ own'[d] = own[d] /\ own[d] <= taskIdCounter /\ own[d] \in Nat
               /\ disposed \/ \E x \in In(tasks) : x.id = own[d] /\ x.barrier
               /\ \A b \in Callers : pc[b] \in InBarrier /\ own[b] = own[d] => b = d
    BY <1>0, <2>2, <2>5 DEF Barriers
  <2>6. ASSUME NEW d \in Callers, pc'[d] \in InBarrier
        PROVE  /\ own'[d] <= taskIdCounter'
               /\ disposed' \/ \E x \in In(tasks') : x.id = own'[d] /\ x.barrier
               /\ \A b \in Callers : pc'[b] \in InBarrier /\ own'[b] = own'[d] => b = d
    <3>1. CASE d = c
      <4>1. own'[d] <= taskIdCounter' /\ e \in In(tasks')
        BY <1>0, <2>1, <2>2, <3>1
      <4>2. ASSUME NEW b \in Callers, pc'[b] \in InBarrier, own'[b] = own'[d], b # c PROVE FALSE
        BY <1>0, <2>2, <2>5, <3>1, <4>2
      <4> QED
        BY <2>2, <2>3, <3>1, <4>1, <4>2
    <3>2. CASE d # c
      <4>1. own'[d] <= taskIdCounter' /\ own'[d] # own'[c]
        BY <1>0, <2>1, <2>2, <2>5, <2>6, <3>2
      <4>2. disposed' \/ \E x \in In(tasks') : x.id = own'[d] /\ x.barrier
        BY <2>1, <2>5, <2>6, <3>2
      <4>3. ASSUME NEW b \in Callers, pc'[b] \in InBarrier, own'[b] = own'[d] PROVE b = d
        BY <2>5, <2>6, <3>2, <4>1, <4>3
      <4> QED
        BY <4>1, <4>2, <4>3
    <3> QED
      BY <3>1, <3>2
  <2> QED
    BY <2>4, <2>6 DEF Barriers
<1>5. ASSUME NEW c \in Callers, BarrierRetry(c) PROVE Barriers'
  <2>1. /\ tasks' = tasks /\ disposed' = disposed /\ taskIdCounter' = taskIdCounter
        /\ pc[c] \in InBarrier /\ BarrierTurn(c, own[c], tasks)
    BY <1>5 DEF BarrierRetry, InBarrier
  <2>2. /\ \/ pc'[c] = "idle"
           \/ pc'[c] \in InBarrier /\ own'[c] = own[c]
        /\ pc'[c] # "disposeSwap"
        /\ \A d \in Threads \ {c} : pc'[d] = pc[d] /\ own'[d] = own[d]
    BY <1>0, <2>1 DEF BarrierTurn, InBarrier
  <2>3. \A d \in Callers : pc'[d] \in InBarrier => pc[d] \in InBarrier /\ own'[d] = own[d]
    BY <1>0, <2>1, <2>2 DEF InBarrier
  <2> QED
    BY <1>0, <1>1, <2>1, <2>2, <2>3
<1>6. ASSUME NEW c \in Callers, BarrierFinish(c) PROVE Barriers'
  <2>1. /\ RemoveTask(own[c], tasks') /\ disposed' = disposed /\ taskIdCounter' = taskIdCounter
        /\ pc[c] \in InBarrier /\ pc'[c] = "idle"
        /\ \A d \in Threads \ {c} : own'[d] = own[d]
        /\ \A d \in Callers : pc'[d] # "disposeSwap" \/ pc[d] = "disposeSwap"
        /\ \A d \in Callers : pc'[d] \in InBarrier => pc[d] \in InBarrier
    BY <1>0, <1>6 DEF BarrierFinish, Woken, InBarrier
  <2>2. \A x \in In(tasks) : x.id # own[c] => x \in In(tasks')
    BY <1>0, <2>1, RemovedOthers
  <2>3. \A d \in Callers : pc'[d] \in InBarrier => d # c /\ pc[d] \in InBarrier /\ own[d] # own[c]
    BY <1>0, <2>1 DEF Barriers, InBarrier
  <2> QED
    BY <1>0, <1>1, <2>1, <2>2, <2>3
<1>7. ASSUME NEW c \in Callers, DisposeSet(c) PROVE Barriers'
  <2>1. /\ disposed' /\ UNCHANGED <<tasks, taskIdCounter, own>>
        /\ \A d \in Callers : pc'[d] \in InBarrier => pc[d] \in InBarrier
    BY <1>0, <1>7 DEF DisposeSet, queueVars, InBarrier
  <2> QED
    BY <1>1, <2>1
<1>8. ASSUME NEW c \in Callers, DisposeSwap(c) PROVE Barriers'
  <2>1. /\ disposed' /\ UNCHANGED <<taskIdCounter, own>>
        /\ \A d \in Callers : pc'[d] \in InBarrier => pc[d] \in InBarrier
    BY <1>0, <1>8 DEF DisposeSwap, Woken, InBarrier, Barriers
  <2> QED
    BY <1>1, <2>1
<1>9. ASSUME NEW w \in Workers, TakeTask(w) PROVE Barriers'
  <2>1. /\ tasks # <<>> /\ ~tasks[1].barrier /\ tasks' = Tail(tasks)
        /\ disposed' = disposed /\ taskIdCounter' = taskIdCounter
        /\ \A d \in Callers : pc'[d] = pc[d] /\ own'[d] = own[d]
    BY <1>0, <1>9 DEF TakeTask
  <2>2. \A x \in In(tasks) : x # tasks[1] => x \in In(tasks')
    BY <1>0, <2>1, TailOthers
  <2> QED
    BY <1>1, <2>1, <2>2
<1>10. ASSUME NEW w \in Workers, Handle(w), ~TakeTask(w) PROVE Barriers'
  <2>1. /\ tasks' = tasks /\ disposed' = disposed /\ taskIdCounter' = taskIdCounter
        /\ \A d \in Callers : own'[d] = own[d]
        /\ \A d \in Callers : pc'[d] # "disposeSwap" \/ pc[d] = "disposeSwap"
        /\ \A d \in Callers : pc'[d] \in InBarrier => pc[d] \in InBarrier
    BY <1>0, <1>10 DEF Handle, HandlerExit, WaitForTask, WaitForTurn, WaitUntilDue, TaskFinish, NapOver,
                       queueVars, Woken, InBarrier
  <2> QED
    BY <1>1, <2>1
<1>11. CASE (\E t \in Threads : StrayWakeup(t)) \/ Tick \/ UNCHANGED vars
  <2>1. /\ UNCHANGED <<tasks, disposed, taskIdCounter, own>>
        /\ \A d \in Callers : pc'[d] # "disposeSwap" \/ pc[d] = "disposeSwap"
        /\ \A d \in Callers : pc'[d] \in InBarrier => pc[d] \in InBarrier
    BY <1>0, <1>11 DEF StrayWakeup, Tick, vars, queueVars, threadVars, InBarrier
  <2> QED
    BY <1>1, <2>1
<1> QED
  BY <1>2, <1>3, <1>4, <1>5, <1>6, <1>7, <1>8, <1>9, <1>10, <1>11 DEF Next, Continue

LEMMA WakeupStep ==
  ASSUME Wakeful, [Next]_vars
  PROVE  NoLostWakeup'
<1>0. /\ TypeOK /\ Sorted /\ Barriers /\ NoLostWakeup
      /\ pc \in [Threads -> Places] /\ own \in [Threads -> Nat] /\ time \in [Threads -> Nat]
      /\ taskIdCounter \in Nat /\ currentRunningTasks \in Nat /\ maxConcurrentTasks \in Nat
      /\ \A e \in In(tasks) : e.id \in Nat /\ e.id <= taskIdCounter /\ e.time \in Nat
      /\ tasks # <<>> => tasks[1] \in In(tasks)
      /\ \A c \in Callers :
           c \in Threads /\ c \notin Workers /\ pc[c] \notin {"loop", "asleep", "nap", "run", "exited"}
      /\ \A w \in Workers : w \in Threads /\ pc[w] \in {"loop", "asleep", "nap", "run", "exited"}
      /\ \A c \in Callers : time[c] \in Times
  <2>1. \A c \in Callers : time[c] \in Times
    BY WakefulFacts DEF TypeOK
  <2> QED
    BY <2>1, WakefulFacts DEF Wakeful
(* Everybody was woken. *)
<1>1. ASSUME NEW p, pc' = Woken(p) PROVE NoLostWakeup'
  <2>1. \A t \in Threads : pc'[t] \notin {"asleep", "nap", "barrierAsleep"}
    BY <1>1 DEF Woken
  <2>2. \A t \in Callers \cup Workers : pc'[t] \notin {"asleep", "nap", "barrierAsleep"}
    BY <2>1 DEF Threads
  <2> QED
    BY <2>2 DEF NoLostWakeup
(* The deque, the counts and the disposal are as before; nobody falls asleep. *)
<1>2. ASSUME UNCHANGED <<tasks, currentRunningTasks, maxConcurrentTasks, disposed>>,
             \A t \in Threads : pc'[t] \in {"asleep", "nap", "barrierAsleep"} =>
               pc'[t] = pc[t] /\ time'[t] = time[t] /\ own'[t] = own[t],
             \A c \in Callers : pc[c] = "disposeSwap" => pc'[c] = "disposeSwap"
      PROVE  NoLostWakeup'
  <2>1. \A w \in Workers : pc'[w] \in {"asleep", "nap"} => pc'[w] = pc[w] /\ time'[w] = time[w]
    BY <1>0, <1>2
  <2>2. \A c \in Callers : pc'[c] = "barrierAsleep" => pc[c] = "barrierAsleep" /\ own'[c] = own[c]
    BY <1>0, <1>2
  <2> QED
    BY <1>0, <1>2, <2>1, <2>2 DEF NoLostWakeup, Ready, Available
(* One thread falls asleep, and what it waits for is not true. *)
<1>3. ASSUME NEW w \in Workers, ~disposed,
             UNCHANGED <<tasks, currentRunningTasks, maxConcurrentTasks, disposed, own>>,
             \A t \in Threads \ {w} : pc'[t] = pc[t] /\ time'[t] = time[t],
             pc'[w] \in {"asleep", "nap"},
             Ready => pc'[w] = "nap" /\ time'[w] = tasks[1].time
      PROVE  NoLostWakeup'
  <2>1. \A c \in Callers : pc'[c] = pc[c] /\ own'[c] = own[c]
    BY <1>0, <1>3
  <2>2. ASSUME Ready, NEW v \in Workers
        PROVE  pc'[v] # "asleep" /\ (pc'[v] = "nap" => time'[v] <= tasks[1].time)
    <3>1. CASE v = w
      <4>1. tasks[1].time \in Nat
        BY <1>0, <2>2 DEF Ready
      <4> QED
        BY <1>3, <2>2, <3>1, <4>1
    <3>2. CASE v # w
      BY <1>0, <1>3, <2>2, <3>2 DEF NoLostWakeup
    <3> QED
      BY <3>1, <3>2
  <2> QED
    BY <1>0, <1>3, <2>1, <2>2 DEF NoLostWakeup, Ready, Available
<1>4. ASSUME NEW c \in Callers, Call(c) PROVE NoLostWakeup'
  <2>1. CASE Cancel(c) \/ SetMaxConcurrentTasks(c)
    BY <1>1, <2>1 DEF Cancel, SetMaxConcurrentTasks
  <2>2. CASE EnqueueBegin(c) \/ BarrierBegin(c) \/ DisposeBegin(c)
    <3>1. /\ UNCHANGED <<tasks, currentRunningTasks, maxConcurrentTasks, disposed, own>>
          /\ pc[c] = "idle" /\ pc'[c] \in {"enqueue", "barrier", "disposeSet"}
          /\ \A t \in Threads \ {c} : pc'[t] = pc[t] /\ time'[t] = time[t]
      BY <1>0, <2>2 DEF EnqueueBegin, BarrierBegin, DisposeBegin, queueVars
    <3> QED
      BY <1>0, <1>2, <3>1
  <2> QED
    BY <1>4, <2>1, <2>2 DEF Call
<1>5. ASSUME NEW c \in Callers, EnqueueLocked(c) \/ BarrierFinish(c) \/ DisposeSwap(c)
      PROVE  NoLostWakeup'
  BY <1>1, <1>5 DEF EnqueueLocked, BarrierFinish, DisposeSwap
<1>6. ASSUME NEW c \in Callers, DisposeSet(c) PROVE NoLostWakeup'
  <2>1. /\ UNCHANGED <<tasks, currentRunningTasks, maxConcurrentTasks, own, time>>
        /\ pc'[c] = "disposeSwap"
        /\ \A t \in Threads \ {c} : pc'[t] = pc[t]
    BY <1>0, <1>6 DEF DisposeSet, queueVars
  <2>2. \A w \in Workers : pc'[w] = pc[w]
    BY <1>0, <2>1
  <2>3. \A d \in Callers : pc'[d] = "barrierAsleep" => pc[d] = "barrierAsleep"
    BY <1>0, <2>1
  <2> QED
    BY <1>0, <2>1, <2>2, <2>3 DEF NoLostWakeup, Ready, Available
(* c takes a turn of its loop over the deque, with or without its new entry. *)
<1>7. ASSUME NEW c \in Callers, pc[c] \in {"barrier", "barrierWait"}, NEW id \in Nat,
             BarrierTurn(c, id, tasks'), UNCHANGED <<maxConcurrentTasks, disposed, time>>,
             \/ tasks' = tasks
             \/ /\ tasks' # <<>>
                /\ \/ tasks # <<>> /\ tasks'[1] = tasks[1]
                   \/ tasks'[1].barrier /\ tasks'[1].id > taskIdCounter
      PROVE  NoLostWakeup'
  <2>1. /\ pc'[c] = "barrierAsleep" =>
             tasks' # <<>> /\ own'[c] = id /\ (currentRunningTasks' # 0 \/ tasks'[1].id # id)
        /\ pc'[c] \notin {"asleep", "nap"}
        /\ currentRunningTasks' \in {currentRunningTasks, currentRunningTasks + 1}
        /\ \A t \in Threads \ {c} : pc'[t] = pc[t] /\ own'[t] = own[t]
    BY <1>0, <1>7 DEF BarrierTurn
  <2>2. \A w \in Workers : pc'[w] = pc[w] /\ time'[w] = time[w]
    BY <1>0, <1>7, <2>1
  <2>3. Ready' => Ready /\ tasks'[1] = tasks[1]
    <3>1. Available' => Available
      BY <1>0, <1>7, <2>1 DEF Available
    <3> QED
      BY <1>7, <3>1 DEF Ready
  <2>4. Ready' => \A w \in Workers : pc'[w] # "asleep" /\ (pc'[w] = "nap" => time'[w] <= tasks'[1].time)
    BY <1>0, <2>2, <2>3 DEF NoLostWakeup
  <2>5. disposed' => \/ \A w \in Workers : pc'[w] \notin {"asleep", "nap"}
                     \/ \E d \in Callers : pc'[d] = "disposeSwap"
    BY <1>0, <1>7, <2>1, <2>2 DEF NoLostWakeup
  <2>6. ASSUME NEW d \in Callers, pc'[d] = "barrierAsleep"
        PROVE  tasks' # <<>> /\ (currentRunningTasks' # 0 \/ tasks'[1].id # own'[d])
    <3>1. CASE d = c
      BY <2>1, <2>6, <3>1
    <3>2. CASE d # c
      <4>1. pc[d] = "barrierAsleep" /\ own'[d] = own[d] /\ own[d] \in Nat
        BY <1>0, <2>1, <2>6, <3>2
      <4>2. tasks # <<>> /\ (currentRunningTasks # 0 \/ tasks[1].id # own[d])
        BY <1>0, <4>1 DEF NoLostWakeup
      <4>3. own[d] <= taskIdCounter
        BY <1>0, <4>1 DEF Barriers, InBarrier
      <4>4. currentRunningTasks # 0 => currentRunningTasks' # 0
        BY <1>0, <2>1
      <4>5. ASSUME tasks'[1].id > taskIdCounter PROVE tasks'[1].id # own[d]
        BY <1>0, <4>1, <4>3, <4>5
      <4> QED
        BY <1>7, <4>1, <4>2, <4>4, <4>5
    <3> QED
      BY <3>1, <3>2
  <2> QED
    BY <2>4, <2>5, <2>6 DEF NoLostWakeup
<1>8. ASSUME NEW c \in Callers, BarrierLocked(c) PROVE NoLostWakeup'
  <2>1. /\ tasks' # <<>>
        /\ tasks'[1] = NewTask(time[c], TRUE) \/ (tasks # <<>> /\ tasks'[1] = tasks[1])
    BY <1>0, <1>8, InsertedFront DEF BarrierLocked
  <2>2. NewTask(time[c], TRUE).barrier /\ NewTask(time[c], TRUE).id > taskIdCounter
    BY <1>0 DEF NewTask
  <2>3. /\ pc[c] = "barrier" /\ taskIdCounter' \in Nat /\ BarrierTurn(c, taskIdCounter', tasks')
        /\ UNCHANGED <<maxConcurrentTasks, disposed, time>>
    BY <1>0, <1>8 DEF BarrierLocked, InsertTask
  <2> QED
    BY <1>7, <2>1, <2>2, <2>3
<1>9. ASSUME NEW c \in Callers, BarrierRetry(c) PROVE NoLostWakeup'
  <2>1. /\ pc[c] = "barrierWait" /\ own[c] \in Nat /\ tasks' = tasks
        /\ UNCHANGED <<maxConcurrentTasks, disposed, time>>
    BY <1>0, <1>9 DEF BarrierRetry
  <2>2. BarrierTurn(c, own[c], tasks')
    BY <1>9, <2>1 DEF BarrierRetry, BarrierTurn
  <2> QED
    BY <1>7, <2>1, <2>2
(* A handler takes a task only when it is ready, so nobody is asleep. *)
<1>10. ASSUME NEW w \in Workers, TakeTask(w) PROVE NoLostWakeup'
  <2>1. /\ Ready /\ ~disposed /\ tasks' = Tail(tasks)
        /\ currentRunningTasks' = currentRunningTasks + 1
        /\ UNCHANGED <<maxConcurrentTasks, disposed, time>>
        /\ pc'[w] = "run"
        /\ \A t \in Threads \ {w} : pc'[t] = pc[t] /\ own'[t] = own[t]
    BY <1>0, <1>10 DEF TakeTask, Ready
  <2>2. \A v \in Workers : pc'[v] # "asleep" /\ (pc'[v] = "nap" => time'[v] <= tasks[1].time)
    BY <1>0, <2>1 DEF NoLostWakeup
  <2>3. ASSUME Ready', NEW v \in Workers, pc'[v] = "nap" PROVE time'[v] <= tasks'[1].time
    <3>1. tasks[1].time <= tasks'[1].time /\ tasks'[1] \in In(tasks)
      BY <1>0, <2>1, <2>3, NextFront DEF Ready
    <3>2. tasks[1].time \in Nat /\ tasks'[1].time \in Nat /\ time'[v] \in Nat
      BY <1>0, <2>1, <3>1 DEF Ready
    <3> QED
      BY <2>2, <2>3, <3>1, <3>2
  <2>4. ASSUME NEW c \in Callers, pc'[c] = "barrierAsleep"
        PROVE  tasks' # <<>> /\ currentRunningTasks' # 0
    <3>1. pc[c] \in InBarrier
      BY <1>0, <2>1, <2>4 DEF InBarrier
    <3>2. PICK e \in In(tasks) : e.barrier
      BY <1>0, <2>1, <3>1 DEF Barriers
    <3>3. e \in In(tasks')
      BY <1>0, <2>1, <3>2, TailOthers DEF Ready
    <3>4. tasks' # <<>>
      BY <1>0, <3>3, InTasks
    <3> QED
      BY <1>0, <2>1, <3>4
  <2> QED
    BY <2>1, <2>2, <2>3, <2>4 DEF NoLostWakeup
<1>11. ASSUME NEW w \in Workers, WaitForTask(w) \/ WaitForTurn(w) \/ WaitUntilDue(w) PROVE NoLostWakeup'
  <2>1. /\ ~disposed
        /\ UNCHANGED <<tasks, currentRunningTasks, maxConcurrentTasks, disposed, own>>
        /\ \A t \in Threads \ {w} : pc'[t] = pc[t] /\ time'[t] = time[t]
        /\ pc'[w] \in {"asleep", "nap"}
        /\ Ready => pc'[w] = "nap" /\ time'[w] = tasks[1].time
    BY <1>0, <1>11 DEF WaitForTask, WaitForTurn, WaitUntilDue, queueVars, Ready
  <2> QED
    BY <1>3, <2>1
<1>12. ASSUME NEW w \in Workers, HandlerExit(w) \/ NapOver(w) PROVE NoLostWakeup'
  <2>1. /\ UNCHANGED <<tasks, currentRunningTasks, maxConcurrentTasks, disposed, own, time>>
        /\ pc'[w] \in {"exited", "loop"}
        /\ \A t \in Threads \ {w} : pc'[t] = pc[t]
    BY <1>0, <1>12 DEF HandlerExit, NapOver, queueVars
  <2> QED
    BY <1>0, <1>2, <2>1
<1>13. ASSUME NEW w \in Workers, TaskFinish(w) PROVE NoLostWakeup'
  BY <1>1, <1>13 DEF TaskFinish
<1>14. ASSUME NEW t \in Threads, StrayWakeup(t) PROVE NoLostWakeup'
  <2>1. /\ UNCHANGED <<tasks, currentRunningTasks, maxConcurrentTasks, disposed, own, time>>
        /\ pc'[t] \in {"barrierWait", "loop"} /\ pc[t] \in {"asleep", "nap", "barrierAsleep"}
        /\ \A u \in Threads \ {t} : pc'[u] = pc[u]
    BY <1>0, <1>14 DEF StrayWakeup, queueVars
  <2> QED
    BY <1>0, <1>2, <2>1
<1>15. CASE Tick \/ UNCHANGED vars
  <2>1. UNCHANGED <<tasks, currentRunningTasks, maxConcurrentTasks, disposed, own, time, pc>>
    BY <1>15 DEF Tick, vars, queueVars, threadVars
  <2> QED
    BY <1>2, <2>1
<1> QED
  BY <1>4, <1>5, <1>6, <1>8, <1>9, <1>10, <1>11, <1>12, <1>13, <1>14, <1>15 DEF Next, Continue, Handle

(* For any callers, handlers, tasks and concurrency limits, changed at any      *)
(* time: the condition variable that runNextTask() and barrier() share loses no *)
(* wakeup, though a taken task and an inserted barrier notify nobody, and       *)
(* dispose() sets its flag without the lock.                                    *)
THEOREM NoLostWakeupCorrect == Spec => []NoLostWakeup
<1>1. Init => Wakeful
  <2> SUFFICES ASSUME Init PROVE Wakeful
    OBVIOUS
  <2>1. Sorted
    BY CountingInit DEF Init, Sorted, QueueSorted
  <2>2. ~disposed /\ tasks = <<>> /\ \A c \in Callers : pc[c] = "idle"
    BY TaskQueueAssumption DEF Init, Threads
  <2> QED
    BY <2>1, <2>2 DEF Wakeful, Barriers, NoLostWakeup, Ready, InBarrier
<1>2. Wakeful /\ [Next]_vars => Wakeful'
  BY SortedStep, BarriersStep, WakeupStep DEF Wakeful
<1>3. Wakeful => NoLostWakeup
  BY DEF Wakeful
<1> QED
  BY <1>1, <1>2, <1>3, PTL DEF Spec
=============================================================================
