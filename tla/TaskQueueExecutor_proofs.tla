----------------------- MODULE TaskQueueExecutor_proofs -----------------------
(***************************************************************************)
(* A queue whose concurrency limit stays at 1 implements OrderedExecutor,  *)
(* for any callers, handler threads, tasks and instants.                   *)
(***************************************************************************)
EXTENDS TaskQueue_proofs

(* Ids are given out once. *)
Unique == \A a, b \in In(tasks) : a.id = b.id => a = b

(* The task a thread runs has left the deque; a barrier stays in it. *)
Started ==
  \A t \in Threads :
    /\ pc[t] = "run" => \A e \in In(tasks) : e.id # own[t]
    /\ pc[t] \in InBarrier => \A e \in In(tasks) : e.id = own[t] => e.barrier
    /\ pc[t] \in InBarrier \cup {"run"} => own[t] <= taskIdCounter

(* A barrier is due when it is inserted. *)
Stamped ==
  /\ \A c \in Callers : pc[c] = "barrier" => time[c] <= now
  /\ \A e \in In(tasks) : e.barrier => e.time <= now

Serial == Sorted /\ AtMostOne /\ Unique /\ Started /\ Stamped

LEMMA SerialFacts ==
  ASSUME Serial
  PROVE  /\ TypeOK /\ DistinctIds /\ RunningCount
         /\ taskIdCounter \in Nat /\ now \in Nat /\ currentRunningTasks \in {0, 1}
         /\ \A e \in In(tasks) :
              /\ e \in Task /\ e.id \in Nat /\ e.id # 0 /\ e.id <= taskIdCounter
              /\ e.time \in Nat /\ e.barrier \in BOOLEAN
         /\ pc \in [Threads -> Places] /\ own \in [Threads -> 0 .. MaxTasks] /\ time \in [Threads -> Times]
         /\ Times \subseteq Nat /\ MaxTasks \in Nat
         /\ tasks # <<>> => \A p \in In(tasks) \ {tasks[1]} : Before(tasks[1], p)
<1>1. TypeOK /\ QueueSorted /\ RunningCount /\ currentRunningTasks <= 1
  BY DEF Serial, Sorted, AtMostOne, Counting
<1>2. /\ DOMAIN tasks = 1 .. Len(tasks) /\ Len(tasks) \in Nat /\ In(tasks) \subseteq Task
      /\ Times \subseteq Nat /\ Ids \subseteq Nat \ {0} /\ MaxTasks \in Nat
  BY <1>1, InTasks, TaskQueueAssumption DEF Times, Ids
<1>3. pc \in [Threads -> Places] /\ own \in [Threads -> 0 .. MaxTasks] /\ time \in [Threads -> Times]
  BY <1>1 DEF TypeOK, Places
<1>4. taskIdCounter \in Nat /\ now \in Nat /\ currentRunningTasks \in {0, 1}
  BY <1>1, <1>2 DEF TypeOK
<1>5. ASSUME NEW e \in In(tasks)
      PROVE  /\ e \in Task /\ e.id \in Nat /\ e.id # 0 /\ e.id <= taskIdCounter
             /\ e.time \in Nat /\ e.barrier \in BOOLEAN
  <2>1. e.id <= taskIdCounter
    BY DEF Serial, Sorted, In
  <2> QED
    BY <1>2, <2>1 DEF Task
<1>6. ASSUME NEW i \in DOMAIN tasks, NEW j \in DOMAIN tasks, i < j PROVE Before(tasks[i], tasks[j])
  BY <1>1, <1>6 DEF QueueSorted
<1>7. DistinctIds
  <2> SUFFICES ASSUME NEW i \in DOMAIN tasks, NEW j \in DOMAIN tasks, tasks[i].id = tasks[j].id, i < j
               PROVE  FALSE
    BY <1>2 DEF DistinctIds
  <2>1. tasks[i] \in In(tasks) /\ tasks[j] \in In(tasks)
    BY DEF In
  <2>2. tasks[i] = tasks[j]
    BY <2>1 DEF Serial, Unique
  <2> QED
    BY <1>5, <1>6, <2>1, <2>2 DEF Before
<1>8. ASSUME tasks # <<>>, NEW p \in In(tasks), p # tasks[1] PROVE Before(tasks[1], p)
  <2>1. PICK i \in DOMAIN tasks : p = tasks[i] /\ i # 1
    BY <1>8 DEF In
  <2>2. 1 \in DOMAIN tasks /\ 1 < i
    BY <1>2, <2>1
  <2> QED
    BY <1>6, <2>1, <2>2
<1> QED
  BY <1>1, <1>2, <1>3, <1>4, <1>5, <1>7, <1>8

LEMMA SerialStep ==
  ASSUME SerialLimit, Serial, [Next]_vars
  PROVE  Serial'
<1>0. /\ TypeOK /\ taskIdCounter \in Nat /\ now \in Nat
      /\ \A e \in In(tasks) :
           e.id \in Nat /\ e.id # 0 /\ e.id <= taskIdCounter /\ e.time \in Nat
      /\ pc \in [Threads -> Places] /\ own \in [Threads -> 0 .. MaxTasks] /\ time \in [Threads -> Times]
      /\ Times \subseteq Nat /\ MaxTasks \in Nat
      /\ Unique /\ Started /\ Stamped
      /\ \A c \in Callers : c \in Threads /\ pc[c] \notin {"run", "loop", "asleep", "nap"}
      /\ \A w \in Workers : w \in Threads /\ pc[w] \notin InBarrier \cup {"barrier"}
  <2>1. TypeOK /\ Unique /\ Started /\ Stamped
    BY SerialFacts DEF Serial
  <2>2. /\ \A c \in Callers : c \in Threads /\ pc[c] \notin {"run", "loop", "asleep", "nap"}
        /\ \A w \in Workers : w \in Threads /\ pc[w] \notin InBarrier \cup {"barrier"}
    BY <2>1 DEF TypeOK, Threads, InBarrier
  <2> QED
    BY <2>1, <2>2, SerialFacts
<1>1. Sorted' /\ AtMostOne'
  BY SortedStep, AtMostOneStep DEF Serial
(* The deque loses entries; a thread may go from one barrier place to another. *)
<1>2. ASSUME In(tasks') \subseteq In(tasks), taskIdCounter' = taskIdCounter, now' = now,
             \A t \in Threads :
               \/ pc'[t] \notin InBarrier \cup {"run"}
               \/ own'[t] = own[t] /\ pc'[t] \in InBarrier /\ pc[t] \in InBarrier
               \/ own'[t] = own[t] /\ pc'[t] = "run" /\ pc[t] = "run",
             \A c \in Callers : pc'[c] = "barrier" => time'[c] = now \/ (pc[c] = "barrier" /\ time'[c] = time[c])
      PROVE  Unique' /\ Started' /\ Stamped'
  <2>1. Unique'
    BY <1>0, <1>2 DEF Unique
  <2>2. Started'
    BY <1>0, <1>2 DEF Started, InBarrier
  <2>3. Stamped'
    BY <1>0, <1>2 DEF Stamped
  <2> QED
    BY <2>1, <2>2, <2>3
(* An entry is inserted, of the barrier that c waits to run, or is to run, or of nobody. *)
<1>3. ASSUME NEW c \in Callers, NEW when \in Times, NEW barrier \in BOOLEAN,
             InsertTask(when, barrier, tasks'), now' = now, time' = time,
             barrier => when <= now /\ own'[c] = taskIdCounter + 1,
             ~barrier => pc'[c] = "idle",
             pc'[c] \notin {"run", "barrier"},
             \A t \in Threads \ {c} :
               /\ own'[t] = own[t]
               /\ pc'[t] \in InBarrier => pc[t] \in InBarrier
               /\ pc'[t] = "run" => pc[t] = "run"
               /\ pc'[t] = "barrier" => pc[t] = "barrier"
      PROVE  Unique' /\ Started' /\ Stamped'
  <2> DEFINE e == NewTask(when, barrier)
  <2>1. In(tasks') = In(tasks) \cup {e}
    BY <1>0, <1>3, InsertedIn
  <2>2. e.id = taskIdCounter + 1 /\ e.time = when /\ e.barrier = barrier
    BY DEF NewTask
  <2>3. taskIdCounter' = taskIdCounter + 1
    BY <1>3 DEF InsertTask
  <2> HIDE DEF e
  <2>4. Unique'
    BY <1>0, <2>1, <2>2 DEF Unique
  <2>5. Stamped'
    BY <1>0, <1>3, <2>1, <2>2 DEF Stamped
  <2>6. ASSUME NEW t \in Threads
        PROVE  /\ pc'[t] = "run" => \A x \in In(tasks') : x.id # own'[t]
               /\ pc'[t] \in InBarrier => \A x \in In(tasks') : x.id = own'[t] => x.barrier
               /\ pc'[t] \in InBarrier \cup {"run"} => own'[t] <= taskIdCounter'
    <3>1. CASE t # c
      <4>1. own'[t] = own[t] /\ own[t] \in Nat
        BY <1>0, <1>3, <3>1
      <4>2. pc'[t] \in InBarrier \cup {"run"} => own[t] <= taskIdCounter
        BY <1>0, <1>3, <3>1 DEF Started
      <4> QED
        BY <1>0, <1>3, <2>1, <2>2, <2>3, <3>1, <4>1, <4>2 DEF Started
    <3>2. CASE t = c
      BY <1>0, <1>3, <2>1, <2>2, <2>3, <3>2 DEF InBarrier
    <3> QED
      BY <3>1, <3>2
  <2>7. Started'
    BY <2>6 DEF Started
  <2> QED
    BY <2>4, <2>5, <2>7
<1>4. ASSUME NEW c \in Callers, Call(c) PROVE Unique' /\ Started' /\ Stamped'
  <2>1. /\ taskIdCounter' = taskIdCounter /\ now' = now /\ own' = own
        /\ \A t \in Threads : pc'[t] \in InBarrier \cup {"run"} =>
             IF pc[t] = "barrierAsleep" THEN pc'[t] \in InBarrier ELSE pc'[t] = pc[t]
        /\ \A d \in Callers : pc'[d] = "barrier" =>
             time'[d] = now \/ (pc[d] = "barrier" /\ time'[d] = time[d])
    BY <1>0, <1>4 DEF Call, EnqueueBegin, Cancel, BarrierBegin, DisposeBegin, SetMaxConcurrentTasks,
                      queueVars, Woken, InBarrier
  <2>2. In(tasks') \subseteq In(tasks)
    <3>1. CASE Cancel(c)
      BY <1>0, <3>1, RemovedIn DEF Cancel
    <3>2. CASE ~Cancel(c)
      <4>1. tasks' = tasks
        BY <1>4, <3>2 DEF Call, EnqueueBegin, BarrierBegin, DisposeBegin, SetMaxConcurrentTasks, queueVars
      <4> QED
        BY <4>1
    <3> QED
      BY <3>1, <3>2
  <2> QED
    BY <1>2, <2>1, <2>2 DEF InBarrier
<1>5. ASSUME NEW c \in Callers, EnqueueLocked(c) PROVE Unique' /\ Started' /\ Stamped'
  <2>1. /\ InsertTask(time[c], FALSE, tasks') /\ now' = now /\ time' = time /\ own' = own
        /\ time[c] \in Times
    BY <1>0, <1>5 DEF EnqueueLocked
  <2>2. /\ pc'[c] = "idle"
        /\ \A t \in Threads \ {c} :
             /\ pc'[t] \in InBarrier => pc[t] \in InBarrier
             /\ pc'[t] = "run" => pc[t] = "run"
             /\ pc'[t] = "barrier" => pc[t] = "barrier"
    BY <1>0, <1>5 DEF EnqueueLocked, Woken, InBarrier
  <2> QED
    BY <1>3, <2>1, <2>2
<1>6. ASSUME NEW c \in Callers, BarrierLocked(c) PROVE Unique' /\ Started' /\ Stamped'
  <2>1. /\ InsertTask(time[c], TRUE, tasks') /\ now' = now /\ time' = time
        /\ time[c] \in Times /\ time[c] <= now /\ taskIdCounter' = taskIdCounter + 1
        /\ BarrierTurn(c, taskIdCounter', tasks')
    BY <1>0, <1>6 DEF BarrierLocked, InsertTask, Stamped
  <2>2. tasks' # <<>>
    BY <1>0, <2>1, InsertedIn
  <2>3. /\ pc'[c] \in InBarrier /\ own'[c] = taskIdCounter + 1
        /\ \A t \in Threads \ {c} : own'[t] = own[t] /\ pc'[t] = pc[t]
    BY <1>0, <2>1, <2>2 DEF BarrierTurn, InBarrier
  <2>4. pc'[c] \notin {"run", "barrier"}
    BY <2>3 DEF InBarrier
  <2> QED
    BY <1>3, <2>1, <2>3, <2>4
<1>7. ASSUME NEW c \in Callers, BarrierRetry(c) PROVE Unique' /\ Started' /\ Stamped'
  <2>1. /\ tasks' = tasks /\ taskIdCounter' = taskIdCounter /\ now' = now /\ time' = time
        /\ pc[c] \in InBarrier /\ BarrierTurn(c, own[c], tasks)
    BY <1>7 DEF BarrierRetry, InBarrier
  <2>2. /\ (pc'[c] \in InBarrier /\ own'[c] = own[c]) \/ pc'[c] = "idle"
        /\ \A t \in Threads \ {c} : own'[t] = own[t] /\ pc'[t] = pc[t]
    BY <1>0, <2>1 DEF BarrierTurn, InBarrier
  <2> QED
    BY <1>0, <1>2, <2>1, <2>2 DEF InBarrier
<1>8. ASSUME NEW c \in Callers, BarrierFinish(c) \/ DisposeSet(c) \/ DisposeSwap(c)
      PROVE  Unique' /\ Started' /\ Stamped'
  <2>1. In(tasks') \subseteq In(tasks)
    <3>1. CASE BarrierFinish(c)
      BY <1>0, <3>1, RemovedIn DEF BarrierFinish
    <3>2. CASE DisposeSet(c)
      BY <3>2 DEF DisposeSet, queueVars
    <3>3. CASE DisposeSwap(c)
      BY <1>0, <3>3, InTasks DEF DisposeSwap
    <3> QED
      BY <1>8, <3>1, <3>2, <3>3
  <2>2. /\ taskIdCounter' = taskIdCounter /\ now' = now /\ time' = time
        /\ pc'[c] \in {"idle", "disposeSwap"}
        /\ \A t \in Threads \ {c} :
             /\ own'[t] = own[t]
             /\ pc'[t] \in InBarrier => pc[t] \in InBarrier
             /\ pc'[t] = "run" => pc[t] = "run"
             /\ pc'[t] = "barrier" => pc[t] = "barrier"
    BY <1>0, <1>8 DEF BarrierFinish, DisposeSet, DisposeSwap, queueVars, Woken, InBarrier
  <2> QED
    BY <1>0, <1>2, <2>1, <2>2 DEF InBarrier
<1>9. ASSUME NEW w \in Workers, TakeTask(w) PROVE Unique' /\ Started' /\ Stamped'
  <2>1. /\ tasks # <<>> /\ tasks' = Tail(tasks) /\ own' = [own EXCEPT ![w] = tasks[1].id]
        /\ pc' = [pc EXCEPT ![w] = "run"] /\ UNCHANGED <<taskIdCounter, now, time>>
    BY <1>9 DEF TakeTask
  <2>2. In(tasks') = In(tasks) \ {tasks[1]} /\ tasks[1] \in In(tasks)
    BY <1>0, <2>1, TailIn, InTasks, SerialFacts
  <2>3. Unique' /\ Stamped'
    BY <1>0, <2>1, <2>2 DEF Unique, Stamped
  <2>4. ASSUME NEW t \in Threads
        PROVE  /\ pc'[t] = "run" => \A x \in In(tasks') : x.id # own'[t]
               /\ pc'[t] \in InBarrier => \A x \in In(tasks') : x.id = own'[t] => x.barrier
               /\ pc'[t] \in InBarrier \cup {"run"} => own'[t] <= taskIdCounter'
    <3>1. CASE t = w
      <4>1. pc'[w] = "run" /\ own'[w] = tasks[1].id
        BY <1>0, <2>1
      <4> QED
        BY <1>0, <2>1, <2>2, <3>1, <4>1 DEF Unique, InBarrier
    <3>2. CASE t # w
      BY <1>0, <2>1, <2>2, <3>2 DEF Started
    <3> QED
      BY <3>1, <3>2
  <2>5. Started'
    BY <2>4 DEF Started
  <2> QED
    BY <2>3, <2>5
<1>10. ASSUME NEW w \in Workers, Handle(w), ~TakeTask(w) PROVE Unique' /\ Started' /\ Stamped'
  <2>1. /\ tasks' = tasks /\ taskIdCounter' = taskIdCounter /\ now' = now
        /\ pc'[w] \notin InBarrier \cup {"run", "barrier"}
        /\ \A t \in Threads \ {w} :
             /\ own'[t] = own[t] /\ time'[t] = time[t]
             /\ pc'[t] \in InBarrier => pc[t] \in InBarrier
             /\ pc'[t] = "run" => pc[t] = "run"
             /\ pc'[t] = "barrier" => pc[t] = "barrier"
    BY <1>0, <1>10 DEF Handle, HandlerExit, WaitForTask, WaitForTurn, WaitUntilDue, TaskFinish, NapOver,
                       queueVars, Woken, InBarrier
  <2> QED
    BY <1>0, <1>2, <2>1 DEF InBarrier
<1>11. ASSUME NEW t \in Threads, StrayWakeup(t) PROVE Unique' /\ Started' /\ Stamped'
  <2>1. /\ UNCHANGED <<tasks, taskIdCounter, now, own, time>>
        /\ (pc'[t] = "barrierWait" /\ pc[t] \in InBarrier) \/ pc'[t] = "loop"
        /\ \A u \in Threads \ {t} : pc'[u] = pc[u]
    BY <1>0, <1>11 DEF StrayWakeup, queueVars, InBarrier
  <2> QED
    BY <1>0, <1>2, <2>1 DEF InBarrier
<1>12. CASE Tick
  <2>1. UNCHANGED <<tasks, taskIdCounter, pc, own, time>> /\ now' = now + 1
    BY <1>12 DEF Tick, queueVars, threadVars
  <2>2. ASSUME NEW c \in Callers PROVE time[c] \in Nat
    <3>1. c \in Threads /\ time[c] \in Times
      BY <1>0
    <3> QED
      BY <1>0, <3>1
  <2>3. Unique' /\ Started'
    BY <1>0, <2>1 DEF Unique, Started
  <2>4. ASSUME NEW c \in Callers, pc[c] = "barrier" PROVE time[c] <= now + 1
    <3>1. time[c] <= now
      BY <1>0, <2>4 DEF Stamped
    <3> QED
      BY <1>0, <2>2, <3>1
  <2>5. ASSUME NEW e \in In(tasks), e.barrier PROVE e.time <= now + 1
    <3>1. e.time <= now /\ e.time \in Nat
      BY <1>0, <2>5 DEF Stamped
    <3> QED
      BY <1>0, <3>1
  <2>6. Stamped'
    <3>1. In(tasks') = In(tasks)
      BY <2>1
    <3> QED
      BY <2>1, <2>4, <2>5, <3>1 DEF Stamped
  <2> QED
    BY <1>1, <2>3, <2>6 DEF Serial
<1>13. CASE UNCHANGED vars
  <2>1. UNCHANGED <<tasks, taskIdCounter, now, pc, own, time>>
    BY <1>13 DEF vars, queueVars, threadVars
  <2>2. Unique' /\ Started' /\ Stamped'
    BY <1>0, <2>1 DEF Unique, Started, Stamped
  <2> QED
    BY <1>1, <2>2 DEF Serial
<1> QED
  BY <1>1, <1>4, <1>5, <1>6, <1>7, <1>8, <1>9, <1>10, <1>11, <1>12, <1>13
     DEF Next, Continue, Serial

-----------------------------------------------------------------------------
(* What the abstract executor sees of the queue. *)

Running == {own[t] : t \in Executing}
Spent   == (1 .. taskIdCounter) \ ({e.id : e \in Pending} \cup Running)

LEMMA Seen ==
  ASSUME TypeOK
  PROVE  /\ Pending = {e \in In(tasks) : e.id \notin Running}
         /\ \A i : i \in Spent <=> /\ i \in 1 .. taskIdCounter
                                   /\ i \notin Running
                                   /\ \A e \in In(tasks) : e.id # i
<1>1. Pending = {e \in In(tasks) : e.id \notin Running}
  <2>1. Pending = In(tasks) \ {e \in Task : \E t \in Executing : own[t] = e.id}
    BY DEF Pending, In
  <2> QED
    BY <2>1, InTasks DEF Running
<1> QED
  BY <1>1 DEF Spent

LEMMA SeenNext ==
  ASSUME TypeOK'
  PROVE  /\ Pending' = {e \in In(tasks') : e.id \notin Running'}
         /\ \A i : i \in Spent' <=> /\ i \in 1 .. taskIdCounter'
                                    /\ i \notin Running'
                                    /\ \A e \in In(tasks') : e.id # i
<1>1. Pending' = {e \in In(tasks') : e.id \notin Running'}
  <2>1. Pending' = In(tasks') \ {e \in Task : \E t \in Executing' : own'[t] = e.id}
    BY DEF Pending, In
  <2>2. In(tasks') \subseteq Task
    <3>1. tasks' \in Seq(Task) /\ DOMAIN tasks' = 1 .. Len(tasks')
      BY LenProperties DEF TypeOK
    <3> QED
      BY <3>1, ElementOfSeq DEF In
  <2> QED
    BY <2>1, <2>2 DEF Running
<1> QED
  BY <1>1 DEF Spent

(* The steps of the executor, in terms of what it sees. *)
LEMMA Stutters ==
  ASSUME Pending' = Pending, Running' = Running, Spent' = Spent, now' = now
  PROVE  [Executor!Next]_(Executor!exVars)
  BY DEF Executor!exVars, Running, Spent

LEMMA Submits ==
  ASSUME NEW e, Pending' = Pending \cup {e}, \A p \in Pending : p.id # e.id,
         e.id \notin Running \cup Spent, Running' = Running, Spent' = Spent, now' = now
  PROVE  [Executor!Next]_(Executor!exVars)
<1>1. e \in Pending' \ Pending /\ Executor!Submit(e)
  BY DEF Executor!Submit, Running, Spent
<1> QED
  BY <1>1 DEF Executor!Next

LEMMA Starts ==
  ASSUME NEW e \in Pending, Running = {}, e.time <= now, \A p \in Pending \ {e} : Before(e, p),
         Pending' = Pending \ {e}, Running' = {e.id}, Spent' = Spent, now' = now
  PROVE  [Executor!Next]_(Executor!exVars)
<1>1. Executor!Start(e)
  BY DEF Executor!Start, Executor!Precedes, Before, Running, Spent
<1> QED
  BY <1>1 DEF Executor!Next

LEMMA SubmitsAndStarts ==
  ASSUME NEW i \in Nat, NEW t \in 0 .. now,
         \A p \in Pending : p.id # i /\ Before([id |-> i, time |-> t, barrier |-> TRUE], p),
         i \notin Spent, Running = {}, Running' = {i},
         Pending' = Pending, Spent' = Spent, now \in Nat, now' = now
  PROVE  [Executor!Next]_(Executor!exVars)
<1>1. Executor!SubmitAndStart([id |-> i, time |-> t, barrier |-> TRUE])
  BY DEF Executor!SubmitAndStart, Executor!Precedes, Before, Running, Spent
<1>2. i \in Running' \ Running
  OBVIOUS
<1> QED
  BY <1>1, <1>2 DEF Executor!Next, Running

LEMMA Finishes ==
  ASSUME NEW i \in Running, Running' = Running \ {i}, Spent' = Spent \cup {i},
         Pending' = Pending, now' = now
  PROVE  [Executor!Next]_(Executor!exVars)
<1>1. Executor!Finish(i)
  BY DEF Executor!Finish, Running, Spent
<1> QED
  BY <1>1 DEF Executor!Next, Running

LEMMA Discards ==
  ASSUME NEW es, Pending # {}, es = Pending \/ \E e \in Pending : es = {e},
         Pending' = Pending \ es, Spent' = Spent \cup {e.id : e \in es},
         Running' = Running, now' = now
  PROVE  [Executor!Next]_(Executor!exVars)
<1>1. Executor!Discard(es) /\ es \in {Pending} \cup {{e} : e \in Pending}
  BY DEF Executor!Discard, Running, Spent
<1> QED
  BY <1>1 DEF Executor!Next

LEMMA Passes ==
  ASSUME Pending' = Pending, Running' = Running, Spent' = Spent, now' > now
  PROVE  [Executor!Next]_(Executor!exVars)
<1>1. Executor!TimePasses
  BY DEF Executor!TimePasses, Running, Spent
<1> QED
  BY <1>1 DEF Executor!Next

(* At most one thread is inside a function, and the counter tells whether. *)
LEMMA Alone ==
  ASSUME AtMostOne
  PROVE  /\ currentRunningTasks = 0 <=> Executing = {}
         /\ \A t \in Executing : Executing = {t}
<1>1. Cardinality(Executing) = currentRunningTasks /\ currentRunningTasks <= 1
  BY DEF AtMostOne, Counting, RunningCount
<1>2. ASSUME NEW t \in Executing PROVE Executing = {t}
  <2>1. Cardinality(Executing \ {t}) = Cardinality(Executing) - 1 /\ IsFiniteSet(Executing \ {t})
    BY ExecutingFinite, FS_RemoveElement
  <2>2. Cardinality(Executing \ {t}) = 0
    BY <1>1, <2>1, ExecutingFinite, FS_CardinalityType
  <2> QED
    BY <2>1, <2>2, FS_EmptySet
<1>3. currentRunningTasks = 0 <=> Executing = {}
  BY <1>1, ExecutingFinite, FS_EmptySet
<1> QED
  BY <1>2, <1>3

LEMMA RunningIds ==
  ASSUME Serial, NEW i \in Running
  PROVE  i \in Nat /\ i <= taskIdCounter /\ i # 0
<1>1. PICK t \in Threads : pc[t] \in {"run", "barrierRun"} /\ i = own[t]
  BY DEF Running, Executing
<1>2. own[t] \in Ids /\ own[t] <= taskIdCounter /\ Ids \subseteq Nat \ {0}
  BY <1>1, SerialFacts DEF Serial, Started, TypeOK, InBarrier, Ids
<1> QED
  BY <1>1, <1>2

(* The step inserts an entry that is not of a running barrier. *)
LEMMA InsertSubmits ==
  ASSUME Serial, TypeOK', NEW when \in Times, NEW barrier \in BOOLEAN,
         InsertTask(when, barrier, tasks'), Running' = Running, now' = now
  PROVE  [Executor!Next]_(Executor!exVars)
<1> DEFINE e == NewTask(when, barrier)
<1>0. /\ TypeOK /\ taskIdCounter \in Nat
      /\ \A x \in In(tasks) : x.id \in Nat /\ x.id <= taskIdCounter
  BY SerialFacts
<1>1. In(tasks') = In(tasks) \cup {e}
  BY <1>0, InsertedIn
<1>2. e.id = taskIdCounter + 1 /\ taskIdCounter' = taskIdCounter + 1
  BY DEF InsertTask, NewTask
<1> HIDE DEF e
<1>3. ASSUME NEW i \in Running PROVE i \in Nat /\ i <= taskIdCounter
  BY <1>3, RunningIds
<1>4. e.id \notin Running /\ \A x \in In(tasks) : x.id # e.id
  BY <1>0, <1>2, <1>3
<1>5. Pending' = Pending \cup {e}
  BY <1>0, <1>1, <1>4, Seen, SeenNext
<1>6. ASSUME NEW i PROVE i \in Spent' <=> i \in Spent
  <2>1. i \in 1 .. taskIdCounter + 1 <=> i \in 1 .. taskIdCounter \/ i = taskIdCounter + 1
    BY <1>0
  <2>2. i \in 1 .. taskIdCounter => i # taskIdCounter + 1
    BY <1>0
  <2> QED
    BY <1>0, <1>1, <1>2, <2>1, <2>2, Seen, SeenNext
<1>7. Spent' = Spent
  BY <1>6
<1>8. (\A p \in Pending : p.id # e.id) /\ e.id \notin Running \cup Spent
  <2>1. e.id \notin 1 .. taskIdCounter
    BY <1>0, <1>2
  <2> QED
    BY <1>0, <1>4, <2>1, Seen
<1> QED
  BY <1>5, <1>7, <1>8, Submits

(* Nothing the executor sees changes. *)
LEMMA SameIsStutter ==
  ASSUME TypeOK, TypeOK', UNCHANGED <<tasks, taskIdCounter, now>>, Running' = Running
  PROVE  [Executor!Next]_(Executor!exVars)
<1>1. Pending' = Pending
  BY Seen, SeenNext
<1>2. \A i : i \in Spent' <=> i \in Spent
  BY Seen, SeenNext
<1> QED
  BY <1>1, <1>2, Stutters

(* The first entry leaves the pending ones for the thread t that runs it. *)
LEMMA FrontStarts ==
  ASSUME Serial, TypeOK', tasks # <<>>, tasks[1].time <= now, NEW t \in Threads,
         Executing = {}, Executing' = {t}, own'[t] = tasks[1].id,
         tasks' = tasks \/ tasks' = Tail(tasks), UNCHANGED <<taskIdCounter, now>>
  PROVE  [Executor!Next]_(Executor!exVars)
<1> DEFINE e == tasks[1]
<1>0. /\ TypeOK /\ DistinctIds /\ Unique
      /\ \A p \in In(tasks) \ {e} : Before(e, p)
      /\ e \in In(tasks) /\ e.id \in 1 .. taskIdCounter
  <2>1. TypeOK /\ DistinctIds /\ \A p \in In(tasks) \ {e} : Before(e, p)
    BY SerialFacts
  <2>2. e \in In(tasks)
    BY <2>1, InTasks
  <2> QED
    BY <2>1, <2>2, SerialFacts DEF Serial
<1>1. Running = {} /\ Running' = {e.id}
  BY DEF Running
<1>2. tasks' = Tail(tasks) => In(tasks') = In(tasks) \ {e}
  BY <1>0, TailIn
<1> HIDE DEF e
<1>3. Pending = In(tasks) /\ \A x \in In(tasks) : x.id = e.id => x = e
  BY <1>0, <1>1, Seen DEF Unique
<1>4. Pending' = Pending \ {e}
  <2>1. CASE tasks' = tasks
    BY <1>0, <1>1, <1>3, <2>1, SeenNext
  <2>2. CASE tasks' = Tail(tasks)
    BY <1>0, <1>1, <1>2, <1>3, <2>2, SeenNext
  <2> QED
    BY <2>1, <2>2
<1>5. ASSUME NEW i PROVE i \in Spent' <=> i \in Spent
  <2>1. i \in Spent <=> i \in 1 .. taskIdCounter /\ \A x \in In(tasks) : x.id # i
    BY <1>0, <1>1, Seen
  <2>2. i \in Spent' <=> i \in 1 .. taskIdCounter /\ i # e.id /\ \A x \in In(tasks') : x.id # i
    BY <1>1, SeenNext
  <2>3. In(tasks') \subseteq In(tasks) /\ In(tasks) \subseteq In(tasks') \cup {e}
    BY <1>2
  <2> QED
    BY <1>0, <2>1, <2>2, <2>3
<1>6. Spent' = Spent
  BY <1>5
<1> QED
  BY <1>0, <1>1, <1>3, <1>4, <1>6, Starts DEF e

(* What the only running thread executed ends, and is in the deque no more. *)
LEMMA OwnFinishes ==
  ASSUME Serial, TypeOK', NEW t \in Threads, own[t] \in 1 .. taskIdCounter,
         Executing = {t}, Executing' = {},
         In(tasks') = {e \in In(tasks) : e.id # own[t]}, UNCHANGED <<taskIdCounter, now>>
  PROVE  [Executor!Next]_(Executor!exVars)
<1>0. TypeOK
  BY SerialFacts
<1>1. Running = {own[t]} /\ Running' = {}
  BY DEF Running
<1>2. Pending' = Pending
  BY <1>0, <1>1, Seen, SeenNext
<1>3. ASSUME NEW i PROVE i \in Spent' <=> i \in Spent \cup {own[t]}
  BY <1>0, <1>1, Seen, SeenNext
<1>4. Spent' = Spent \cup {own[t]}
  BY <1>3
<1>5. own[t] \in Running /\ Running' = Running \ {own[t]}
  BY <1>1
<1> QED
  BY <1>2, <1>4, <1>5, Finishes

(* The functions under way stay under way. *)
LEMMA RunningStays ==
  ASSUME \A t \in Threads : /\ t \in Executing' <=> t \in Executing
                            /\ t \in Executing => own'[t] = own[t]
  PROVE  Running' = Running
<1>1. Executing \subseteq Threads /\ Executing' \subseteq Threads
  BY DEF Executing
<1> QED
  BY <1>1 DEF Running

LEMMA CallMaps ==
  ASSUME Serial, TypeOK', NEW c \in Callers, Call(c)
  PROVE  [Executor!Next]_(Executor!exVars)
<1>0. /\ TypeOK /\ DistinctIds /\ pc \in [Threads -> Places] /\ c \in Threads
      /\ Unique /\ Started
  BY SerialFacts DEF Serial, Threads
<1>1. Running' = Running /\ now' = now /\ taskIdCounter' = taskIdCounter
  <2>1. own' = own /\ now' = now /\ taskIdCounter' = taskIdCounter
    BY <1>0 DEF Call, EnqueueBegin, Cancel, BarrierBegin, DisposeBegin, SetMaxConcurrentTasks, queueVars
  <2>2. \A t \in Threads : t \in Executing' <=> t \in Executing
    BY <1>0 DEF Call, EnqueueBegin, Cancel, BarrierBegin, DisposeBegin, SetMaxConcurrentTasks,
                queueVars, Woken, Executing
  <2> QED
    BY <2>1, <2>2, RunningStays
<1>2. CASE tasks' = tasks
  BY <1>0, <1>1, <1>2, SameIsStutter
<1>3. CASE Cancel(c)
  <2>1. PICK id \in 1 .. taskIdCounter :
          /\ \A i \in DOMAIN tasks : tasks[i].barrier => tasks[i].id # id
          /\ RemoveTask(id, tasks')
    BY <1>3 DEF Cancel
  <2>2. In(tasks') = {e \in In(tasks) : e.id # id}
    BY <1>0, <2>1, RemovedIn
  <2>3. \A e \in In(tasks) : e.barrier => e.id # id
    BY <2>1 DEF In
  <2>4. CASE \A e \in In(tasks) : e.id # id
    <3>1. In(tasks') = In(tasks)
      BY <2>2, <2>4
    <3>2. Pending' = Pending
      BY <1>0, <1>1, <3>1, Seen, SeenNext
    <3>3. ASSUME NEW i PROVE i \in Spent' <=> i \in Spent
      BY <1>0, <1>1, <3>1, Seen, SeenNext
    <3>4. Spent' = Spent
      BY <3>3
    <3> QED
      BY <1>1, <3>2, <3>4, Stutters
  <2>5. ASSUME NEW e \in In(tasks), e.id = id PROVE [Executor!Next]_(Executor!exVars)
    <3>1. id \notin Running
      <4> SUFFICES ASSUME NEW t \in Threads, pc[t] \in {"run", "barrierRun"}, own[t] = id PROVE FALSE
        BY DEF Running, Executing
      <4> QED
        BY <1>0, <2>3, <2>5 DEF Started, InBarrier
    <3>2. e \in Pending
      BY <1>0, <2>5, <3>1, Seen
    <3>3. \A x \in In(tasks) : x.id = id <=> x = e
      BY <1>0, <2>5 DEF Unique
    <3>4. Pending' = Pending \ {e}
      BY <1>0, <1>1, <2>2, <3>3, Seen, SeenNext
    <3>5. ASSUME NEW i PROVE i \in Spent' <=> i \in Spent \cup {id}
      BY <1>0, <1>1, <2>1, <2>2, <2>5, <3>1, Seen, SeenNext
    <3>6. Spent' = Spent \cup {x.id : x \in {e}}
      BY <2>5, <3>5
    <3> QED
      BY <1>1, <3>2, <3>4, <3>6, Discards
  <2> QED
    BY <2>4, <2>5
<1> QED
  BY <1>2, <1>3 DEF Call, EnqueueBegin, BarrierBegin, DisposeBegin, SetMaxConcurrentTasks, queueVars

LEMMA BarrierMaps ==
  ASSUME Serial, TypeOK', NEW c \in Callers, BarrierLocked(c) \/ BarrierRetry(c) \/ BarrierFinish(c)
  PROVE  [Executor!Next]_(Executor!exVars)
<1>0. /\ TypeOK /\ AtMostOne /\ DistinctIds /\ pc \in [Threads -> Places] /\ own \in [Threads -> 0 .. MaxTasks]
      /\ c \in Threads /\ Unique /\ Started /\ Stamped
      /\ taskIdCounter \in Nat /\ now \in Nat
      /\ \A e \in In(tasks) : e.id \in Nat /\ e.id # 0 /\ e.id <= taskIdCounter
  BY SerialFacts DEF Serial, Threads
(* A turn of the loop of barrier() that does not run the function. *)
<1>1. ASSUME NEW id, NEW q, BarrierTurn(c, id, q), pc[c] \notin {"run", "barrierRun"}, pc'[c] # "barrierRun"
      PROVE  Running' = Running
  <2>1. pc'[c] \in {"idle", "barrierAsleep"} /\ \A t \in Threads \ {c} : pc'[t] = pc[t] /\ own'[t] = own[t]
    BY <1>0, <1>1 DEF BarrierTurn
  <2> QED
    BY <1>1, <2>1, RunningStays DEF Executing
(* One that does. *)
<1>2. ASSUME NEW id, NEW q, BarrierTurn(c, id, q), pc'[c] = "barrierRun"
      PROVE  /\ q # <<>> /\ q[1].id = id /\ own'[c] = id
             /\ Executing = {} /\ Executing' = {c}
  <2>1. /\ q # <<>> /\ q[1].id = id /\ own' = [own EXCEPT ![c] = id] /\ currentRunningTasks = 0
        /\ pc' = [pc EXCEPT ![c] = "barrierRun"]
    BY <1>0, <1>2 DEF BarrierTurn
  <2>2. Executing = {}
    BY <1>0, <2>1, Alone
  <2>3. Executing' = {c}
    BY <1>0, <2>1, <2>2 DEF Executing
  <2> QED
    BY <1>0, <2>1, <2>2, <2>3
<1>3. CASE BarrierLocked(c)
  <2>1. /\ InsertTask(time[c], TRUE, tasks') /\ now' = now /\ pc[c] = "barrier"
        /\ time[c] \in Times /\ time[c] \in Nat /\ time[c] <= now /\ taskIdCounter' = taskIdCounter + 1
        /\ BarrierTurn(c, taskIdCounter', tasks')
    BY <1>0, <1>3, SerialFacts DEF BarrierLocked, InsertTask, Stamped
  <2>2. CASE pc'[c] # "barrierRun"
    BY <1>1, <2>1, <2>2, InsertSubmits
  <2>3. CASE pc'[c] = "barrierRun"
    <3> DEFINE e == NewTask(time[c], TRUE)
    <3>1. /\ In(tasks') = In(tasks) \cup {e} /\ tasks' # <<>> /\ DOMAIN tasks' = 1 .. Len(tasks) + 1
          /\ Len(tasks) \in Nat
      BY <1>0, <2>1, InsertedIn, InTasks
    <3>2. /\ tasks'[1].id = taskIdCounter + 1 /\ own'[c] = taskIdCounter + 1
          /\ Executing = {} /\ Executing' = {c}
      BY <1>2, <2>1, <2>3
    <3>3. e = [id |-> taskIdCounter + 1, time |-> time[c], barrier |-> TRUE]
      BY DEF NewTask
    <3> HIDE DEF e
    <3>4. tasks'[1] = e
      <4>1. tasks'[1] \in In(tasks')
        BY <3>1 DEF In
      <4> QED
        BY <1>0, <3>1, <3>2, <4>1
    <3>5. ASSUME NEW p \in In(tasks) PROVE Before(e, p) /\ p.id # taskIdCounter + 1
      <4>1. p.id # taskIdCounter + 1 /\ p \in In(tasks')
        BY <1>0, <3>1
      <4>2. PICK j \in DOMAIN tasks' : p = tasks'[j]
        BY <4>1 DEF In
      <4>3. j # 1 /\ 1 \in DOMAIN tasks' /\ 1 < j
        BY <3>1, <3>2, <4>1, <4>2
      <4>4. QueueSorted'
        BY <2>1, SortedInsert DEF Serial
      <4> QED
        BY <3>4, <4>1, <4>2, <4>3, <4>4 DEF QueueSorted, Before
    <3>6. Running = {} /\ Running' = {taskIdCounter + 1}
      BY <3>2 DEF Running
    <3>7. Pending = In(tasks)
      BY <1>0, <3>6, Seen
    <3>8. Pending' = Pending
      <4>1. Pending' = {x \in In(tasks') : x.id # taskIdCounter + 1}
        BY <3>6, SeenNext
      <4>2. e.id = taskIdCounter + 1
        BY <3>3
      <4> QED
        BY <3>1, <3>5, <3>7, <4>1, <4>2
    <3>9. ASSUME NEW i PROVE i \in Spent' <=> i \in Spent
      <4>1. i \in Spent <=> i \in 1 .. taskIdCounter /\ \A x \in In(tasks) : x.id # i
        BY <1>0, <3>6, Seen
      <4>2. i \in Spent' <=> /\ i \in 1 .. taskIdCounter + 1 /\ i # taskIdCounter + 1
                             /\ \A x \in In(tasks) \cup {e} : x.id # i
        BY <2>1, <3>1, <3>6, SeenNext
      <4>3. i \in 1 .. taskIdCounter <=> i \in 1 .. taskIdCounter + 1 /\ i # taskIdCounter + 1
        BY <1>0
      <4>4. e.id = taskIdCounter + 1
        BY <3>3
      <4> QED
        BY <4>1, <4>2, <4>3, <4>4
    <3>10. Spent' = Spent /\ taskIdCounter + 1 \notin Spent
      <4>1. taskIdCounter + 1 \notin 1 .. taskIdCounter
        BY <1>0
      <4> QED
        BY <1>0, <3>9, <4>1, Seen
    <3>11. taskIdCounter + 1 \in Nat /\ time[c] \in 0 .. now
      BY <1>0, <2>1
    <3> QED
      BY <1>0, <2>1, <3>3, <3>5, <3>6, <3>7, <3>8, <3>10, <3>11, SubmitsAndStarts
  <2> QED
    BY <2>2, <2>3
<1>4. CASE BarrierRetry(c)
  <2>1. /\ BarrierTurn(c, own[c], tasks) /\ pc[c] = "barrierWait"
        /\ UNCHANGED <<tasks, taskIdCounter, now>>
    BY <1>4 DEF BarrierRetry
  <2>2. CASE pc'[c] # "barrierRun"
    BY <1>0, <1>1, <2>1, <2>2, SameIsStutter
  <2>3. CASE pc'[c] = "barrierRun"
    <3>1. tasks # <<>> /\ tasks[1].id = own[c] /\ own'[c] = tasks[1].id /\ Executing = {} /\ Executing' = {c}
      BY <1>2, <2>1, <2>3
    <3>2. tasks[1] \in In(tasks)
      BY <1>0, <3>1, InTasks
    <3>3. tasks[1].barrier
      BY <1>0, <2>1, <3>1, <3>2 DEF Started, InBarrier
    <3>4. tasks[1].time <= now
      BY <1>0, <3>2, <3>3 DEF Stamped
    <3> QED
      BY <1>0, <2>1, <3>1, <3>4, FrontStarts
  <2> QED
    BY <2>2, <2>3
<1>5. CASE BarrierFinish(c)
  <2>1. /\ pc[c] = "barrierRun" /\ RemoveTask(own[c], tasks') /\ UNCHANGED <<taskIdCounter, now>>
        /\ pc' = Woken([pc EXCEPT ![c] = "idle"])
    BY <1>5 DEF BarrierFinish
  <2>2. Executing = {c}
    BY <1>0, <2>1, Alone DEF Executing
  <2>3. Executing' = {}
    <3>1. \A t \in Threads : pc'[t] \notin {"run", "barrierRun"}
      BY <1>0, <2>1, <2>2 DEF Woken, Executing
    <3> QED
      BY <3>1 DEF Executing
  <2>4. In(tasks') = {e \in In(tasks) : e.id # own[c]}
    BY <1>0, <2>1, RemovedIn
  <2>5. own[c] \in 1 .. taskIdCounter
    <3>1. own[c] \in Running
      BY <2>2 DEF Running
    <3> QED
      BY <1>0, <3>1, RunningIds
  <2> QED
    BY <1>0, <2>1, <2>2, <2>3, <2>4, <2>5, OwnFinishes
<1> QED
  BY <1>3, <1>4, <1>5

LEMMA CallerMaps ==
  ASSUME Serial, TypeOK', NEW c \in Callers, EnqueueLocked(c) \/ DisposeSet(c) \/ DisposeSwap(c)
  PROVE  [Executor!Next]_(Executor!exVars)
<1>0. TypeOK /\ pc \in [Threads -> Places] /\ c \in Threads /\ time[c] \in Times
  BY SerialFacts DEF Threads
<1>1. Running' = Running /\ now' = now
  <2>1. own' = own /\ now' = now /\ \A t \in Threads : t \in Executing' <=> t \in Executing
    BY <1>0 DEF EnqueueLocked, DisposeSet, DisposeSwap, queueVars, Woken, Executing
  <2> QED
    BY <2>1, RunningStays
<1>2. CASE EnqueueLocked(c)
  <2>1. InsertTask(time[c], FALSE, tasks')
    BY <1>2 DEF EnqueueLocked
  <2> QED
    BY <1>0, <1>1, <2>1, InsertSubmits
<1>3. CASE DisposeSet(c)
  BY <1>0, <1>1, <1>3, SameIsStutter DEF DisposeSet, queueVars
<1>4. CASE DisposeSwap(c)
  <2>1. In(tasks') = {} /\ taskIdCounter' = taskIdCounter
    BY <1>0, <1>4, InTasks DEF DisposeSwap
  <2>2. Pending' = {}
    BY <2>1, SeenNext
  <2>3. ASSUME NEW i PROVE i \in Spent' <=> i \in Spent \cup {e.id : e \in Pending}
    <3>1. i \in Spent' <=> i \in 1 .. taskIdCounter /\ i \notin Running
      BY <1>1, <2>1, SeenNext
    <3>2. ASSUME NEW e \in Pending PROVE e.id \in 1 .. taskIdCounter /\ e.id \notin Running
      BY <1>0, <3>2, Seen, SerialFacts
    <3>3. i \in Spent <=> i \in 1 .. taskIdCounter /\ i \notin Running /\ \A e \in In(tasks) : e.id # i
      BY <1>0, Seen
    <3>4. i \notin Running => \A e \in In(tasks) : e.id = i => e \in Pending
      BY <1>0, Seen
    <3> QED
      BY <3>1, <3>2, <3>3, <3>4
  <2>4. Spent' = Spent \cup {e.id : e \in Pending}
    BY <2>3
  <2>5. CASE Pending = {}
    <3>1. Spent' = Spent
      BY <2>4, <2>5
    <3> QED
      BY <1>1, <2>2, <2>5, <3>1, Stutters
  <2>6. CASE Pending # {}
    <3>1. Pending' = Pending \ Pending
      BY <2>2
    <3> QED
      BY <1>1, <2>4, <2>6, <3>1, Discards
  <2> QED
    BY <2>5, <2>6
<1> QED
  BY <1>2, <1>3, <1>4

LEMMA HandlerMaps ==
  ASSUME SerialLimit, Serial, TypeOK', NEW w \in Workers, Handle(w)
  PROVE  [Executor!Next]_(Executor!exVars)
<1>0. /\ TypeOK /\ AtMostOne /\ DistinctIds /\ pc \in [Threads -> Places] /\ own \in [Threads -> 0 .. MaxTasks]
      /\ w \in Threads /\ taskIdCounter \in Nat /\ currentRunningTasks \in {0, 1}
      /\ maxConcurrentTasks = 1 /\ Started
  <2>1. maxConcurrentTasks = 1
    BY SerialFacts DEF SerialLimit, TypeOK
  <2> QED
    BY <2>1, SerialFacts DEF Serial, Threads
<1>1. CASE TakeTask(w)
  <2>1. /\ tasks # <<>> /\ tasks[1].time <= now /\ tasks' = Tail(tasks) /\ currentRunningTasks < 1
        /\ own' = [own EXCEPT ![w] = tasks[1].id] /\ pc' = [pc EXCEPT ![w] = "run"]
        /\ UNCHANGED <<taskIdCounter, now>>
    BY <1>0, <1>1 DEF TakeTask, Available, Due
  <2>2. Executing = {}
    BY <1>0, <2>1, Alone
  <2>3. Executing' = {w} /\ own'[w] = tasks[1].id
    BY <1>0, <2>1, <2>2 DEF Executing
  <2> QED
    BY <1>0, <2>1, <2>2, <2>3, FrontStarts
<1>2. CASE TaskFinish(w)
  <2>1. /\ pc[w] = "run" /\ UNCHANGED <<tasks, taskIdCounter, now>>
        /\ pc' = Woken([pc EXCEPT ![w] = "loop"])
    BY <1>2 DEF TaskFinish
  <2>2. Executing = {w}
    BY <1>0, <2>1, Alone DEF Executing
  <2>3. Executing' = {}
    <3>1. \A t \in Threads : pc'[t] \notin {"run", "barrierRun"}
      BY <1>0, <2>1, <2>2 DEF Woken, Executing
    <3> QED
      BY <3>1 DEF Executing
  <2>4. In(tasks') = {e \in In(tasks) : e.id # own[w]}
    BY <1>0, <2>1 DEF Started
  <2>5. own[w] \in 1 .. taskIdCounter
    <3>1. own[w] \in Running
      BY <2>2 DEF Running
    <3> QED
      BY <1>0, <3>1, RunningIds
  <2> QED
    BY <1>0, <2>1, <2>2, <2>3, <2>4, <2>5, OwnFinishes
<1>3. CASE HandlerExit(w) \/ WaitForTask(w) \/ WaitForTurn(w) \/ WaitUntilDue(w) \/ NapOver(w)
  <2>1. /\ UNCHANGED <<tasks, taskIdCounter, now, own>>
        /\ \A t \in Threads : t \in Executing' <=> t \in Executing
    BY <1>0, <1>3 DEF HandlerExit, WaitForTask, WaitForTurn, WaitUntilDue, NapOver, queueVars, Executing
  <2> QED
    BY <1>0, <2>1, RunningStays, SameIsStutter
<1> QED
  BY <1>1, <1>2, <1>3 DEF Handle

LEMMA RefinementStep ==
  ASSUME SerialLimit, Serial, TypeOK', [Next]_vars
  PROVE  [Executor!Next]_(Executor!exVars)
<1>0. TypeOK /\ pc \in [Threads -> Places] /\ now \in Nat
  BY SerialFacts
<1>1. ASSUME NEW c \in Callers, Call(c) \/ Continue(c) PROVE [Executor!Next]_(Executor!exVars)
  BY <1>1, CallMaps, BarrierMaps, CallerMaps DEF Continue
<1>2. ASSUME NEW t \in Threads, StrayWakeup(t) PROVE [Executor!Next]_(Executor!exVars)
  <2>1. /\ UNCHANGED <<tasks, taskIdCounter, now, own>>
        /\ \A u \in Threads : u \in Executing' <=> u \in Executing
    BY <1>0, <1>2 DEF StrayWakeup, queueVars, Executing
  <2> QED
    BY <1>0, <2>1, RunningStays, SameIsStutter
<1>3. CASE Tick
  <2>1. UNCHANGED <<tasks, taskIdCounter, pc, own>> /\ now' > now
    BY <1>0, <1>3 DEF Tick, queueVars, threadVars
  <2>2. Running' = Running
    BY <2>1, RunningStays DEF Executing
  <2>3. Pending' = Pending
    BY <1>0, <2>1, <2>2, Seen, SeenNext
  <2>4. ASSUME NEW i PROVE i \in Spent' <=> i \in Spent
    BY <1>0, <2>1, <2>2, Seen, SeenNext
  <2>5. Spent' = Spent
    BY <2>4
  <2> QED
    BY <2>1, <2>2, <2>3, <2>5, Passes
<1>4. CASE UNCHANGED vars
  <2>1. UNCHANGED <<tasks, taskIdCounter, pc, own, now>>
    BY <1>4 DEF vars, queueVars, threadVars
  <2>2. Running' = Running
    BY <2>1, RunningStays DEF Executing
  <2> QED
    BY <1>0, <2>1, <2>2, SameIsStutter
<1> QED
  BY <1>1, <1>2, <1>3, <1>4, HandlerMaps DEF Next

(* A queue whose concurrency limit stays at 1 does nothing a serial executor   *)
(* may not do: each critical section of enqueue(), cancel(), barrier(),        *)
(* dispose() and runNextTask() is one of its steps, or none.                   *)
THEOREM IsOrderedExecutorCorrect ==
  ASSUME SerialLimit
  PROVE  Spec => IsOrderedExecutor
<1>1. Init => Serial /\ Executor!Init
  <2> SUFFICES ASSUME Init PROVE Serial /\ Executor!Init
    OBVIOUS
  <2>1. /\ Counting /\ tasks = <<>> /\ taskIdCounter = 0 /\ now = 0 /\ currentRunningTasks = 0
        /\ \A t \in Threads : pc[t] \in {"loop", "idle"}
    BY CountingInit DEF Init
  <2>2. In(tasks) = {} /\ DOMAIN tasks = {}
    BY <2>1, InTasks DEF Counting
  <2>3. Executing = {}
    BY <2>1 DEF Executing
  <2>4. Sorted /\ AtMostOne
    BY <2>1, <2>2 DEF Sorted, QueueSorted, AtMostOne
  <2>5. Unique /\ Started /\ Stamped
    BY <2>1, <2>2 DEF Unique, Started, Stamped, InBarrier, Threads
  <2>6. Running = {} /\ Pending = {}
    BY <2>2, <2>3 DEF Running, Pending
  <2>7. Spent = {}
    BY <2>1 DEF Spent
  <2> QED
    BY <2>1, <2>4, <2>5, <2>6, <2>7 DEF Serial, Executor!Init, Running, Spent
<1>2. Serial /\ [Next]_vars => Serial'
  BY SerialStep
<1>3. Serial => TypeOK
  BY SerialFacts
<1>4. Serial /\ TypeOK' /\ [Next]_vars => [Executor!Next]_(Executor!exVars)
  BY RefinementStep
<1> QED
  BY <1>1, <1>2, <1>3, <1>4, PTL DEF Spec, IsOrderedExecutor, Executor!Spec
=============================================================================
