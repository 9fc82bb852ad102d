------------------------- MODULE DeadlineCalls_proofs -------------------------
(***************************************************************************)
(* The circuit breaker's counter is exact and a bounded call has exactly   *)
(* one winner, for any number of calls.                                    *)
(***************************************************************************)
EXTENDS DeadlineCalls, FiniteSetTheorems, TLAPS

(* A call whose task the JS thread has not run, completed or reported.       *)
Fresh(c) == runs[c] = 0 /\ c \notin ready /\ state[c] # "Completed" /\ c \notin reported

Begun(c) == waiter[c] \notin {"none", "failing", "dispatching"}

(* A call owns at most one task, which is in the queue or executing.         *)
OneTask ==
  /\ \A c \in Calls : ~Begun(c) => Fresh(c)
  /\ \A i \in DOMAIN jsQueue :
       /\ Fresh(jsQueue[i].call) /\ Begun(jsQueue[i].call)
       /\ jsPc # "idle" => jsQueue[i].call # task.call
       /\ \A j \in DOMAIN jsQueue : i # j => jsQueue[i].call # jsQueue[j].call

(* What is known of the task that is executing.                              *)
Executing ==
  /\ jsPc # "idle" => Begun(task.call)
  /\ jsPc \in {"load", "run"} => Fresh(task.call)
  /\ jsPc \in {"load", "finish"} => kind[task.call] # "control"
  /\ jsPc \in {"finish", "set"} => task.call \notin ready /\ task.call \notin reported
  /\ jsPc = "finish" => state[task.call] # "Completed"
  /\ jsPc = "finish" /\ state[task.call] = "Pending" => runs[task.call] = 1
  /\ jsPc = "set" => runs[task.call] = 1 /\ (state[task.call] = "Completed" \/ kind[task.call] = "control")

(* How a call's state, its caller and its promise agree.                     *)
Agreement ==
  \A c \in Calls :
    /\ state[c] = "TimedOut" <=> waiter[c] = "timedOut" /\ kind[c] # "control"
    /\ waiter[c] = "counted" => kind[c] # "control"
    /\ waiter[c] = "returned" => c \in ready
    /\ c \in ready => runs[c] = 1 /\ (state[c] = "Completed" \/ kind[c] = "control")
    /\ c \in reported => state[c] = "TimedOut"

Types ==
  /\ overdue \in Nat
  /\ state \in [Calls -> {"Pending", "Completed", "TimedOut"}]
  /\ ready \subseteq Calls
  /\ kind \in [Calls -> Kind]
  /\ waiter \in [Calls -> {"none", "failing", "dispatching", "parked", "counted", "taking"} \cup Done]
  /\ jsQueue \in Seq(Task)
  /\ task \in Task
  /\ jsPc \in {"idle", "load", "run", "finish", "set"}
  /\ disposed \in BOOLEAN
  /\ runs \in [Calls -> Nat]
  /\ reported \subseteq Calls

Protocol == OneTask /\ Executing /\ Agreement
IInv == Types /\ Protocol /\ OverdueCount

-----------------------------------------------------------------------------
(* A number below the modulus is its own remainder. *)
LEMMA SmallModulo ==
  ASSUME NEW n \in Nat, NEW w \in Nat, n < w PROVE n % w = n
  BY SMT

(* The queue after an append and after its head was taken. *)
LEMMA Appended ==
  ASSUME NEW S, NEW q \in Seq(S), NEW e \in S
  PROVE  /\ Append(q, e) \in Seq(S)
         /\ \A i \in DOMAIN Append(q, e) : IF i \in DOMAIN q THEN Append(q, e)[i] = q[i] 
                                           ELSE Append(q, e)[i] = e /\ i = Len(q) + 1
         /\ DOMAIN q \subseteq DOMAIN Append(q, e)
  OBVIOUS

LEMMA Taken ==
  ASSUME NEW S, NEW q \in Seq(S), q # <<>>
  PROVE  /\ Head(q) \in S /\ Head(q) = q[1] /\ 1 \in DOMAIN q
         /\ Tail(q) \in Seq(S)
         /\ \A i \in DOMAIN Tail(q) : i + 1 \in DOMAIN q /\ Tail(q)[i] = q[i + 1] /\ i + 1 # 1
         /\ \A i, j \in DOMAIN Tail(q) : i # j => i + 1 # j + 1
  OBVIOUS

(* The calls owed are finitely many. *)
LEMMA OwedFinite ==
  ASSUME Types
  PROVE  /\ IsFiniteSet(Owed) /\ Cardinality(Owed) \in Nat
         /\ Cardinality(Owed) <= Cardinality(Calls) /\ Cardinality(Calls) < Width
         /\ Cardinality(Calls) \in Nat /\ Width \in Nat
<1>1. Owed \subseteq Calls
  BY DEF Owed
<1> QED
  BY <1>1, DeadlineAssumption, FS_Subset, FS_CardinalityType

-----------------------------------------------------------------------------
LEMMA TypesInit == Init => Types
<1> SUFFICES ASSUME Init PROVE Types
  OBVIOUS
<1>1. jsQueue \in Seq(Task) /\ task \in Task
  BY DEF Init
<1> QED
  BY <1>1 DEF Init, Types

LEMMA QueuedTasks ==
  ASSUME Types PROVE \A i \in DOMAIN jsQueue : jsQueue[i] \in Task /\ jsQueue[i].call \in Calls
<1>1. \A i \in DOMAIN jsQueue : jsQueue[i] \in Task
  BY DEF Types
<1> QED
  BY <1>1 DEF Task

(* What the tasks put in the queue are. *)
LEMMA DispatchedType ==
  ASSUME Types, NEW c \in Calls, NEW p \in BOOLEAN, Dispatched(c, p)
  PROVE  jsQueue' \in Seq(Task)
<1>1. [call |-> c, plain |-> p] \in Task
  BY DEF Task
<1> QED
  BY <1>1, Appended DEF Types, Dispatched

LEMMA TypesStep ==
  ASSUME Types, [Next]_vars PROVE Types'
<1>0. Width \in Nat /\ Width > 0
  BY DeadlineAssumption, FS_CardinalityType
<1> USE DEF Types, Goes, JsGoes, callerVars, jsVars, history, Done
<1>1. CASE UNCHANGED vars
  BY <1>1 DEF vars
<1>2. ASSUME NEW c \in Calls, Begin(c) PROVE Types'
  BY <1>2 DEF Begin
<1>3. ASSUME NEW c \in Calls, Proceed(c) PROVE Types'
  <2>1. CASE FailFast(c)
    BY <2>1, DispatchedType DEF FailFast
  <2>2. CASE Dispatch(c)
    BY <2>2, DispatchedType DEF Dispatch
  <2>3. CASE GetResult(c) \/ GiveUp(c)
    BY <2>3 DEF GetResult, GiveUp
  <2>4. CASE CountTimeout(c)
    BY <1>0, <2>4 DEF CountTimeout
  <2>5. CASE Claim(c)
    BY <2>5 DEF Claim
  <2>6. CASE LostRace(c)
    BY <1>0, <2>6 DEF LostRace, Decremented
  <2> QED
    BY <1>3, <2>1, <2>2, <2>3, <2>4, <2>5, <2>6 DEF Proceed
<1>4. CASE JsTake
  <2>1. Head(jsQueue) \in Task /\ Tail(jsQueue) \in Seq(Task)
    BY <1>4, Taken DEF JsTake
  <2> QED
    BY <1>4, <2>1 DEF JsTake
<1>5. CASE JsRun
  BY <1>5 DEF JsRun, Task
<1>6. CASE JsNative
  <2>0. task.call \in Calls
    BY DEF Task
  <2>1. CASE JsLoad \/ JsWin \/ JsSet
    BY <2>0, <2>1 DEF JsLoad, JsWin, JsSet
  <2>2. CASE JsReport
    BY <1>0, <2>0, <2>2 DEF JsReport, Decremented
  <2> QED
    BY <1>6, <2>1, <2>2 DEF JsNative
<1>7. CASE Dispose
  BY <1>7 DEF Dispose
<1> QED
  BY <1>1, <1>2, <1>3, <1>4, <1>5, <1>6, <1>7 DEF Next

-----------------------------------------------------------------------------
LEMMA ProtocolInit == Init => Protocol
  BY DEF Init, Protocol, OneTask, Executing, Agreement, Fresh, Begun

(* Putting the task of a call that just began in the queue. *)
LEMMA DispatchedOneTask ==
  ASSUME Types, Protocol, NEW c \in Calls, NEW p \in BOOLEAN, Dispatched(c, p), ~Begun(c),
         NEW pc \in {"failed", "parked"}, waiter' = [waiter EXCEPT ![c] = pc],
         UNCHANGED <<state, ready, runs, reported, jsPc, task>>
  PROVE  OneTask'
<1>1. Fresh(c) /\ Begun(c)' /\ (jsPc # "idle" => c # task.call)
  BY DEF Protocol, OneTask, Executing, Types, Begun
<1>2. \A d \in Calls : (Fresh(d) <=> Fresh(d)') /\ (Begun(d) => Begun(d)')
  BY DEF Fresh, Begun, Types
<1>3. \A i \in DOMAIN jsQueue : jsQueue[i].call \in Calls /\ jsQueue[i].call # c
  BY QueuedTasks DEF Protocol, OneTask
<1>4. CASE disposed
  BY <1>1, <1>2, <1>3, <1>4 DEF Dispatched, Protocol, OneTask
<1>5. CASE ~disposed
  <2>1. \A i \in DOMAIN jsQueue' : IF i \in DOMAIN jsQueue THEN jsQueue'[i] = jsQueue[i]
                                   ELSE jsQueue'[i].call = c /\ i = Len(jsQueue) + 1
    BY <1>5, Appended DEF Dispatched, Types, Task
  <2> QED
    BY <1>1, <1>2, <1>3, <2>1 DEF Protocol, OneTask
<1> QED
  BY <1>4, <1>5 DEF Types

LEMMA ProtocolStep ==
  ASSUME Types, Protocol, [Next]_vars PROVE Protocol'
<1> USE DEF Protocol, Goes, JsGoes, callerVars, jsVars, history, Done
<1>0. /\ task.call \in Calls
      /\ \A i \in DOMAIN jsQueue : jsQueue[i].call \in Calls
  BY QueuedTasks DEF Types, Task
<1>1. CASE UNCHANGED vars
  BY <1>1 DEF vars, OneTask, Executing, Agreement, Fresh, Begun
<1>2. ASSUME NEW c \in Calls, Begin(c) PROVE Protocol'
  BY <1>0, <1>2 DEF Begin, OneTask, Executing, Agreement, Fresh, Begun, Types
<1>3. ASSUME NEW c \in Calls, Proceed(c) PROVE Protocol'
  <2>1. CASE FailFast(c)
    <3>1. CASE kind[c] = "SkipIfTimedOut"
      BY <1>0, <2>1, <3>1 DEF FailFast, OneTask, Executing, Agreement, Fresh, Begun, Types
    <3>2. CASE kind[c] # "SkipIfTimedOut"
      <4>1. OneTask'
        BY <2>1, <3>2, DispatchedOneTask DEF FailFast, Begun
      <4>2. Executing' /\ Agreement'
        BY <1>0, <2>1, <3>2 DEF FailFast, Executing, Agreement, Fresh, Begun, Types
      <4> QED
        BY <4>1, <4>2
    <3> QED
      BY <3>1, <3>2
  <2>2. CASE Dispatch(c)
    <3>1. OneTask'
      BY <2>2, DispatchedOneTask DEF Dispatch, Begun
    <3>2. Executing' /\ Agreement'
      BY <1>0, <2>2 DEF Dispatch, Executing, Agreement, Fresh, Begun, Types
    <3> QED
      BY <3>1, <3>2
  <2>3. CASE GetResult(c)
    BY <1>0, <2>3 DEF GetResult, OneTask, Executing, Agreement, Fresh, Begun, Types
  <2>4. CASE GiveUp(c)
    BY <1>0, <2>4 DEF GiveUp, OneTask, Executing, Agreement, Fresh, Begun, Types
  <2>5. CASE CountTimeout(c)
    BY <1>0, <2>5 DEF CountTimeout, OneTask, Executing, Agreement, Fresh, Begun, Types
  <2>6. CASE Claim(c)
    BY <1>0, <2>6 DEF Claim, OneTask, Executing, Agreement, Fresh, Begun, Types
  <2>7. CASE LostRace(c)
    BY <1>0, <2>7 DEF LostRace, OneTask, Executing, Agreement, Fresh, Begun, Types
  <2> QED
    BY <1>3, <2>1, <2>2, <2>3, <2>4, <2>5, <2>6, <2>7 DEF Proceed
<1>4. CASE JsTake
  <2>1. task' = jsQueue[1] /\ 1 \in DOMAIN jsQueue /\ jsPc' # "idle"
    BY <1>4, Taken DEF JsTake, Types
  <2>2. \A i \in DOMAIN jsQueue' :
          i + 1 \in DOMAIN jsQueue /\ jsQueue'[i] = jsQueue[i + 1] /\ i + 1 # 1
    BY <1>4, Taken DEF JsTake, Types
  <2>3. \A i, j \in DOMAIN jsQueue' : i # j => i + 1 # j + 1
    BY <1>4, Taken DEF JsTake, Types
  <2>4. OneTask'
    BY <1>0, <1>4, <2>1, <2>2, <2>3 DEF JsTake, OneTask, Fresh, Begun
  <2>5. Executing' /\ Agreement'
    BY <1>0, <1>4, <2>1 DEF JsTake, OneTask, Executing, Agreement, Fresh, Begun, Types
  <2> QED
    BY <2>4, <2>5
<1>5. CASE JsRun
  BY <1>0, <1>5 DEF JsRun, OneTask, Executing, Agreement, Fresh, Begun, Types
<1>6. CASE JsLoad
  BY <1>0, <1>6 DEF JsLoad, Skips, OneTask, Executing, Agreement, Fresh, Begun, Types
<1>7. CASE JsWin
  BY <1>0, <1>7 DEF JsWin, OneTask, Executing, Agreement, Fresh, Begun, Types
<1>8. CASE JsSet
  BY <1>0, <1>8 DEF JsSet, OneTask, Executing, Agreement, Fresh, Begun, Types
<1>9. CASE JsReport
  BY <1>0, <1>9 DEF JsReport, OneTask, Executing, Agreement, Fresh, Begun, Types
<1>10. CASE Dispose
  BY <1>0, <1>10 DEF Dispose, OneTask, Executing, Agreement, Fresh, Begun, Types
<1> QED
  BY <1>1, <1>2, <1>3, <1>4, <1>5, <1>6, <1>7, <1>8, <1>9, <1>10 DEF Next, JsNative

-----------------------------------------------------------------------------
(* One more call is owed, or one less, or the same ones are. *)
LEMMA OneMore ==
  ASSUME Types, NEW c, c \in Calls, c \notin Owed, OverdueCount,
         Owed' = Owed \cup {c}, overdue' = (overdue + 1) % Width, Types'
  PROVE  OverdueCount'
<1>1. Cardinality(Owed') = Cardinality(Owed) + 1
  BY OwedFinite, FS_AddElement
<1>2. Cardinality(Owed') \in Nat /\ Cardinality(Owed') < Width
  <2>1. Owed' \subseteq Calls
    BY DEF Owed
  <2> QED
    BY <2>1, DeadlineAssumption, FS_Subset, FS_CardinalityType, OwedFinite
<1> QED
  BY <1>1, <1>2, SmallModulo, OwedFinite DEF OverdueCount

LEMMA OneLess ==
  ASSUME Types, NEW c, c \in Owed, OverdueCount, Owed' = Owed \ {c}, overdue' = Decremented
  PROVE  OverdueCount'
<1>1. Cardinality(Owed') = Cardinality(Owed) - 1
  BY OwedFinite, FS_RemoveElement
<1>2. Owed # {} /\ Cardinality(Owed) # 0
  BY OwedFinite, FS_EmptySet
<1> QED
  BY <1>1, <1>2, SmallModulo, OwedFinite DEF OverdueCount, Decremented

LEMMA CountStep ==
  ASSUME Types, Protocol, OverdueCount, [Next]_vars, Types' PROVE OverdueCount'
<1> USE DEF Goes, JsGoes, callerVars, jsVars, history, Done
<1>0. task.call \in Calls
  BY DEF Types, Task
<1>1. SUFFICES ASSUME ~(Owed' = Owed /\ overdue' = overdue)
               PROVE  OverdueCount'
  BY DEF OverdueCount
<1>2. CASE UNCHANGED vars
  BY <1>1, <1>2 DEF vars, Owed
<1>3. ASSUME NEW c \in Calls, Begin(c) \/ FailFast(c) \/ Dispatch(c) \/ GetResult(c) \/ GiveUp(c)
      PROVE  OverdueCount'
  <2>1. UNCHANGED <<overdue, state, reported>>
    BY <1>3 DEF Begin, FailFast, Dispatch, GetResult, GiveUp
  <2>2. waiter[c] # "counted" /\ \E to : to # "counted" /\ waiter' = [waiter EXCEPT ![c] = to]
    BY <1>3 DEF Begin, FailFast, Dispatch, GetResult, GiveUp
  <2>3. \A d \in Calls : waiter'[d] = "counted" <=> waiter[d] = "counted"
    BY <2>2 DEF Types
  <2> QED
    BY <1>1, <2>1, <2>3 DEF Owed
<1>4. ASSUME NEW c \in Calls, CountTimeout(c) PROVE OverdueCount'
  <2>1. c \notin Owed
    BY <1>4 DEF CountTimeout, Owed, Protocol, Agreement
  <2>2. Owed' = Owed \cup {c}
    BY <1>4 DEF CountTimeout, Owed, Types
  <2> QED
    BY <1>4, <2>1, <2>2, OneMore DEF CountTimeout
<1>5. ASSUME NEW c \in Calls, Claim(c) PROVE OverdueCount'
  BY <1>1, <1>5 DEF Claim, Owed, Protocol, Agreement, Types
<1>6. ASSUME NEW c \in Calls, LostRace(c) PROVE OverdueCount'
  <2>1. c \in Owed
    BY <1>6 DEF LostRace, Owed
  <2>2. Owed' = Owed \ {c}
    BY <1>6 DEF LostRace, Owed, Types
  <2> QED
    BY <1>6, <2>1, <2>2, OneLess DEF LostRace
<1>7. CASE JsTake \/ JsRun \/ JsLoad \/ JsSet \/ Dispose
  BY <1>1, <1>7 DEF JsTake, JsRun, JsLoad, JsSet, Dispose, Owed
<1>8. CASE JsWin
  BY <1>1, <1>8 DEF JsWin, Owed, Types
<1>9. CASE JsReport
  <2>1. task.call \in Owed
    BY <1>0, <1>9 DEF JsReport, Owed, Protocol, Executing
  <2>2. waiter[task.call] # "counted"
    BY <1>0, <1>9 DEF JsReport, Protocol, Agreement
  <2>3. Owed' = Owed \ {task.call}
    BY <1>0, <1>9, <2>2 DEF JsReport, Owed
  <2> QED
    BY <1>9, <2>1, <2>3, OneLess DEF JsReport
<1> QED
  BY <1>2, <1>3, <1>4, <1>5, <1>6, <1>7, <1>8, <1>9 DEF Next, Proceed, JsNative

-----------------------------------------------------------------------------
LEMMA Invariance == Spec => []IInv
<1>1. Init => IInv
  <2>1. ASSUME Init PROVE OverdueCount
    <3>1. Owed = {}
      BY <2>1 DEF Init, Owed
    <3> QED
      BY <2>1, <3>1, FS_EmptySet DEF Init, OverdueCount
  <2> QED
    BY <2>1, TypesInit, ProtocolInit DEF IInv
<1>2. IInv /\ [Next]_vars => IInv'
  BY TypesStep, ProtocolStep, CountStep DEF IInv
<1> QED
  BY <1>1, <1>2, PTL DEF Spec

(* The type invariant: the counter stays within the number of calls, it does   *)
(* not wrap below zero whatever the race between deadlines and completions.    *)
THEOREM TypeCorrect == Spec => []TypeOK
<1>1. IInv => TypeOK
  BY OwedFinite DEF IInv, TypeOK, Types, OverdueCount
<1> QED
  BY <1>1, Invariance, PTL

(* The circuit breaker counts exactly the calls that are overdue.              *)
THEOREM OverdueCountCorrect == Spec => []OverdueCount
<1>1. IInv => OverdueCount
  BY DEF IInv
<1> QED
  BY <1>1, Invariance, PTL

(* A call has its value from its one run, or a timeout, never both.            *)
THEOREM OneWinnerCorrect == Spec => []OneWinner
<1>1. IInv => OneWinner
  BY DEF IInv, Protocol, Agreement, OneWinner
<1> QED
  BY <1>1, Invariance, PTL
=============================================================================
