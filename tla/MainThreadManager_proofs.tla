----------------------- MODULE MainThreadManager_proofs -----------------------
(***************************************************************************)
(* No task is stranded, no wakeup is missed, batches balance and a         *)
(* synchronous dispatch returns after its task, for any number of threads, *)
(* of tasks and of nested batches and pumps.                               *)
(***************************************************************************)
EXTENDS MainThreadManager, FiniteSetTheorems, SequenceTheorems, TLAPS

Frames  == [op : Op, arg : Nat, upTo : Nat, by : Everyone]
Pending == [flushId : Nat, task : Nat]
Posts   == [op : {"flush", "idle"}, arg : Nat, by : Everyone]

(* How many frames of a call stack are in some of the operations.            *)
At(s, ops) == {i \in DOMAIN s : s[i].op \in ops}
N(s, ops)  == Cardinality(At(s, ops))

Bodies  == {"popped", "run"}
Batches == {"batch", "end", "close"}

(* The counters count frames of the call stack.                              *)
Counted ==
  /\ executingTaskCount = N(stack, Bodies)
  /\ batchCount = N(stack, Batches)

(* What a frame knows of the pending tasks.                                  *)
FrameOK(f, tasks, sequence, count, torn) ==
  /\ f.op \in {"pump", "end", "close"} => f.arg < sequence
  /\ f.op \in {"pump", "end"} =>
       /\ f.upTo <= count
       /\ \A i \in DOMAIN tasks : tasks[i].flushId <= f.arg => tasks[i].task <= f.upTo
  /\ f.op = "pump" => \A i \in DOMAIN tasks : tasks[i].task <= f.upTo => tasks[i].flushId <= f.arg
  /\ f.op = "close" => torn \/ \A i \in DOMAIN tasks : f.arg < tasks[i].flushId

Bounded ==
  /\ batchFlushId <= flushIdSequence
  /\ \A i \in DOMAIN pendingTasks : pendingTasks[i].task <= dispatched
  /\ \A i \in DOMAIN stack :
       FrameOK(stack[i], pendingTasks, flushIdSequence, dispatched, tornDown)

(* A batch that is being flushed is the outermost one, and nothing is called *)
(* while it closes.                                                          *)
NestedIn(s) ==
  \A j \in DOMAIN s :
    /\ s[j].op \in {"end", "close"} => \A i \in 1 .. j - 1 : s[i].op \notin Batches
    /\ s[j].op = "close" => j = Len(s)

Nested == NestedIn(stack)

IInv == TypeOK /\ Counted /\ PendingSorted /\ Bounded /\ Nested /\ NoStrandedTask /\ NoMissedWakeup

-----------------------------------------------------------------------------
(* Call stacks. *)

LEMMA Pushed ==
  ASSUME NEW S, NEW s \in Seq(S), NEW f \in S
  PROVE  /\ Append(s, f) \in Seq(S) /\ Len(Append(s, f)) = Len(s) + 1 /\ Append(s, f) # <<>>
         /\ DOMAIN s = 1 .. Len(s) /\ Len(s) \in Nat
         /\ DOMAIN Append(s, f) = 1 .. Len(s) + 1
         /\ \A i \in 1 .. Len(s) : Append(s, f)[i] = s[i]
         /\ Append(s, f)[Len(s) + 1] = f
  OBVIOUS

LEMMA Popped ==
  ASSUME NEW S, NEW s \in Seq(S), s # <<>>
  PROVE  /\ Pop(s) \in Seq(S) /\ Len(Pop(s)) = Len(s) - 1
         /\ DOMAIN s = 1 .. Len(s) /\ Len(s) \in Nat \ {0} /\ Len(s) \in DOMAIN s
         /\ DOMAIN Pop(s) = 1 .. Len(s) - 1
         /\ \A i \in 1 .. Len(s) - 1 : Pop(s)[i] = s[i]
         /\ s[Len(s)] \in S
<1>1. Len(s) \in Nat \ {0} /\ DOMAIN s = 1 .. Len(s) /\ \A i \in 1 .. Len(s) : s[i] \in S
  OBVIOUS
<1>2. /\ Pop(s) \in Seq(S) /\ Len(Pop(s)) = Len(s) - 1
      /\ \A i \in 1 .. Len(s) - 1 : Pop(s)[i] = s[i]
  BY <1>1, SubSeqProperties DEF Pop
<1> QED
  BY <1>1, <1>2, LenProperties

LEMMA AtFinite ==
  ASSUME NEW s \in Seq(Frames), NEW ops
  PROVE  IsFiniteSet(At(s, ops)) /\ N(s, ops) \in Nat
<1>1. At(s, ops) \subseteq 1 .. Len(s) /\ Len(s) \in Nat
  BY DEF At
<1>2. IsFiniteSet(1 .. Len(s))
  BY <1>1, FS_Interval
<1> QED
  BY <1>1, <1>2, FS_Subset, FS_CardinalityType DEF N

LEMMA CountPushed ==
  ASSUME NEW s \in Seq(Frames), NEW f \in Frames, NEW ops
  PROVE  N(Append(s, f), ops) = IF f.op \in ops THEN N(s, ops) + 1 ELSE N(s, ops)
<1>1. CASE f.op \in ops
  <2>1. At(Append(s, f), ops) = At(s, ops) \cup {Len(s) + 1} /\ Len(s) + 1 \notin At(s, ops)
    BY <1>1, Pushed DEF At
  <2> QED
    BY <1>1, <2>1, AtFinite, FS_AddElement DEF N
<1>2. CASE f.op \notin ops
  <2>1. At(Append(s, f), ops) = At(s, ops)
    BY <1>2, Pushed DEF At
  <2> QED
    BY <1>2, <2>1 DEF N
<1> QED
  BY <1>1, <1>2

LEMMA CountPopped ==
  ASSUME NEW s \in Seq(Frames), s # <<>>, NEW ops
  PROVE  N(Pop(s), ops) = IF s[Len(s)].op \in ops THEN N(s, ops) - 1 ELSE N(s, ops)
<1>1. CASE s[Len(s)].op \in ops
  <2>1. At(Pop(s), ops) = At(s, ops) \ {Len(s)} /\ Len(s) \in At(s, ops)
    BY <1>1, Popped DEF At
  <2> QED
    BY <1>1, <2>1, AtFinite, FS_RemoveElement DEF N
<1>2. CASE s[Len(s)].op \notin ops
  <2>1. At(Pop(s), ops) = At(s, ops)
    <3>1. ASSUME NEW i \in At(s, ops) PROVE i \in At(Pop(s), ops)
      <4>1. i \in 1 .. Len(s) /\ s[i].op \in ops /\ i # Len(s)
        BY <1>2, <3>1, Popped DEF At
      <4> QED
        BY <4>1, Popped DEF At
    <3>2. At(Pop(s), ops) \subseteq At(s, ops)
      BY Popped DEF At
    <3> QED
      BY <3>1, <3>2
  <2> QED
    BY <1>2, <2>1 DEF N
<1> QED
  BY <1>1, <1>2

LEMMA TopCounts ==
  ASSUME NEW s \in Seq(Frames), s # <<>>, NEW ops, s[Len(s)].op \in ops
  PROVE  N(s, ops) >= 1
<1>1. Len(s) \in At(s, ops)
  BY Popped DEF At
<1> QED
  BY <1>1, AtFinite, FS_EmptySet DEF N

(* When there is at most one frame of some operations, and it is on top.     *)
LEMMA OnlyTop ==
  ASSUME NEW s \in Seq(Frames), s # <<>>, NEW ops, s[Len(s)].op \in ops, N(s, ops) <= 1
  PROVE  \A i \in 1 .. Len(s) - 1 : s[i].op \notin ops
<1> SUFFICES ASSUME NEW i \in 1 .. Len(s) - 1, s[i].op \in ops PROVE FALSE
  OBVIOUS
<1>1. i \in At(Pop(s), ops)
  BY Popped DEF At
<1>2. Pop(s) \in Seq(Frames) /\ N(Pop(s), ops) = N(s, ops) - 1
  BY Popped, CountPopped
<1>3. N(Pop(s), ops) \in Nat /\ N(s, ops) \in Nat /\ N(Pop(s), ops) = 0
  BY <1>2, AtFinite
<1>4. At(Pop(s), ops) = {}
  BY <1>2, <1>3, AtFinite, FS_EmptySet DEF N
<1> QED
  BY <1>1, <1>4

-----------------------------------------------------------------------------
(* The effect on the call stack: nothing, a push, a pop or a new top frame. *)

Push(f) == f \in Frames /\ stack' = Append(stack, f)
PopTop  == stack # <<>> /\ stack' = Pop(stack)
Retop(f) == f \in Frames /\ stack # <<>> /\ stack' = Append(Pop(stack), f)

LEMMA PushType ==
  ASSUME TypeOK, NEW f, Push(f)
  PROVE  /\ stack' \in Seq(Frames)
         /\ \A ops : N(stack, ops)' = IF f.op \in ops THEN N(stack, ops) + 1 ELSE N(stack, ops)
  BY Pushed, CountPushed DEF TypeOK, Push, Frames

LEMMA PopType ==
  ASSUME TypeOK, PopTop
  PROVE  /\ stack' \in Seq(Frames) /\ Top \in Frames
         /\ \A ops : N(stack, ops)' = IF Top.op \in ops THEN N(stack, ops) - 1 ELSE N(stack, ops)
  BY Popped, CountPopped DEF TypeOK, PopTop, Frames, Top

LEMMA RetopType ==
  ASSUME TypeOK, NEW f, Retop(f)
  PROVE  /\ stack' \in Seq(Frames) /\ Top \in Frames
         /\ \A ops : N(stack, ops)' = N(stack, ops) - (IF Top.op \in ops THEN 1 ELSE 0)
                                                  + (IF f.op \in ops THEN 1 ELSE 0)
<1>1. stack \in Seq(Frames) /\ stack # <<>> /\ f \in Frames
  BY DEF TypeOK, Retop, Frames
<1>2. Pop(stack) \in Seq(Frames) /\ Top \in Frames
  BY <1>1, Popped DEF Top
<1>3. stack' \in Seq(Frames)
  BY <1>1, <1>2, Pushed DEF Retop
<1>4. ASSUME NEW ops
      PROVE  N(stack, ops)' = N(stack, ops) - (IF Top.op \in ops THEN 1 ELSE 0)
                                            + (IF f.op \in ops THEN 1 ELSE 0)
  <2>1. N(stack, ops)' = IF f.op \in ops THEN N(Pop(stack), ops) + 1 ELSE N(Pop(stack), ops)
    BY <1>1, <1>2, CountPushed DEF Retop
  <2>2. N(Pop(stack), ops) = IF Top.op \in ops THEN N(stack, ops) - 1 ELSE N(stack, ops)
    BY <1>1, CountPopped DEF Top
  <2>3. N(stack, ops) \in Nat /\ N(Pop(stack), ops) \in Nat
    BY <1>1, <1>2, AtFinite
  <2> QED
    BY <2>1, <2>2, <2>3
<1> QED
  BY <1>2, <1>3, <1>4

PcType == [Everyone -> {"idle", "dispatch", "post", "waitSync", "asleep", "awake", "tearing"}]

(* Leaving a flush loop, if there is one on top: a batch being flushed stays, *)
(* about to close.                                                            *)
LEMMA Left ==
  ASSUME NEW s \in Seq(Frames), NEW p \in PcType, LeaveLoop(s, p)
  PROVE  /\ stack' \in Seq(Frames) /\ pc' \in PcType
         /\ N(stack', Bodies) = N(s, Bodies) /\ N(stack', Batches) = N(s, Batches)
         /\ Len(stack') <= Len(s) /\ Len(stack') \in Nat /\ Len(s) \in Nat
         /\ \A i \in 1 .. Len(stack') :
              \/ stack'[i] = s[i]
              \/ /\ i = Len(s) /\ s[i].op = "end"
                 /\ stack'[i] = [s[i] EXCEPT !.op = "close", !.upTo = 0]
         /\ Len(stack') # Len(s) => s # <<>> /\ Len(stack') = Len(s) - 1 /\ s[Len(s)].op \in Loops
         /\ \A t \in Everyone : pc'[t] # p[t] => p[t] = "waitSync" /\ pc'[t] = "idle"
<1>1. CASE s = <<>> \/ s[Len(s)].op \notin Loops
  <2>1. stack' = s /\ pc' = p
    BY <1>1 DEF LeaveLoop
  <2> QED
    BY <2>1
<1>2. CASE s # <<>> /\ s[Len(s)].op \in Loops
  <2> DEFINE f == s[Len(s)]
             g == [f EXCEPT !.op = "close", !.upTo = 0]
  <2>1. f \in Frames /\ Pop(s) \in Seq(Frames) /\ g \in Frames
    <3>1. f \in Frames /\ Pop(s) \in Seq(Frames)
      BY <1>2, Popped
    <3> QED
      BY <3>1 DEF Frames, Op
  <2>2. pc' = Released(p, f.by)
    BY <1>2 DEF LeaveLoop
  <2>3. pc' \in PcType /\ \A t \in Everyone : pc'[t] # p[t] => p[t] = "waitSync" /\ pc'[t] = "idle"
    BY <2>2 DEF Released, PcType
  <2>4. /\ N(Pop(s), Bodies) = N(s, Bodies)
        /\ f.op = "end" => N(Pop(s), Batches) = N(s, Batches) - 1
        /\ f.op # "end" => N(Pop(s), Batches) = N(s, Batches)
    BY <1>2, CountPopped DEF Loops, Bodies, Batches
  <2>5. CASE f.op = "end"
    <3>1. stack' = Append(Pop(s), g)
      BY <1>2, <2>5 DEF LeaveLoop
    <3>2. g.op = "close"
      BY <2>1 DEF Frames
    <3>3. N(stack', Bodies) = N(s, Bodies) /\ N(stack', Batches) = N(Pop(s), Batches) + 1
      <4>1. g.op \notin Bodies /\ g.op \in Batches
        BY <3>2 DEF Bodies, Batches
      <4>2. /\ N(Append(Pop(s), g), Bodies) = N(Pop(s), Bodies)
            /\ N(Append(Pop(s), g), Batches) = N(Pop(s), Batches) + 1
        BY <2>1, <4>1, CountPushed
      <4> QED
        BY <2>4, <3>1, <4>2
    <3>4. N(s, Batches) \in Nat
      BY AtFinite
    <3>5. stack' \in Seq(Frames) /\ Len(stack') = Len(s)
      BY <1>2, <2>1, <3>1, Popped, Pushed
    <3>6. \A i \in 1 .. Len(s) : IF i = Len(s) THEN stack'[i] = g ELSE stack'[i] = s[i]
      <4>1. Len(Pop(s)) = Len(s) - 1 /\ \A i \in 1 .. Len(s) - 1 : Pop(s)[i] = s[i]
        BY <1>2, Popped
      <4>2. Append(Pop(s), g)[Len(Pop(s)) + 1] = g
        BY <2>1, Pushed
      <4>3. \A i \in 1 .. Len(Pop(s)) : Append(Pop(s), g)[i] = Pop(s)[i]
        BY <2>1, Pushed
      <4> QED
        BY <3>1, <4>1, <4>2, <4>3
    <3>7. N(stack', Batches) = N(s, Batches)
      BY <2>4, <2>5, <3>3, <3>4
    <3>8. Len(s) \in Nat
      OBVIOUS
    <3> HIDE DEF f, g
    <3>9. \A i \in 1 .. Len(stack') :
            \/ stack'[i] = s[i]
            \/ i = Len(s) /\ s[i].op = "end" /\ stack'[i] = [s[i] EXCEPT !.op = "close", !.upTo = 0]
      BY <2>5, <3>5, <3>6 DEF f, g
    <3>10. Len(stack') <= Len(s) /\ Len(stack') \in Nat /\ Len(s) \in Nat
      BY <3>5, <3>8
    <3>11. Len(stack') # Len(s) => s # <<>> /\ Len(stack') = Len(s) - 1 /\ s[Len(s)].op \in Loops
      BY <3>5
    <3> QED
      BY <2>3, <3>3, <3>5, <3>7, <3>9, <3>10, <3>11
  <2>6. CASE f.op # "end"
    <3>1. stack' = Pop(s)
      BY <1>2, <2>6 DEF LeaveLoop
    <3>2. /\ Len(s) \in Nat \ {0} /\ Len(stack') = Len(s) - 1
          /\ \A i \in 1 .. Len(s) - 1 : stack'[i] = s[i]
      BY <1>2, <3>1, Popped
    <3>3. \A i \in 1 .. Len(stack') : stack'[i] = s[i]
      BY <3>2
    <3>4. N(stack', Bodies) = N(s, Bodies) /\ N(stack', Batches) = N(s, Batches)
      BY <2>4, <2>6, <3>1
    <3>5. stack' \in Seq(Frames)
      BY <2>1, <3>1
    <3>6. Len(stack') <= Len(s) /\ Len(stack') \in Nat /\ Len(s) \in Nat
      BY <3>2
    <3>7. Len(stack') # Len(s) => s # <<>> /\ Len(stack') = Len(s) - 1 /\ s[Len(s)].op \in Loops
      BY <1>2, <3>2
    <3> QED
      BY <2>3, <3>3, <3>4, <3>5, <3>6, <3>7
  <2> QED
    BY <2>5, <2>6
<1> QED
  BY <1>1, <1>2

-----------------------------------------------------------------------------
LEMMA CloseCounts ==
  ASSUME TypeOK, Nested, OnTop("close")
  PROVE  N(stack, Batches) = 1
<1>1. stack \in Seq(Frames) /\ stack # <<>> /\ stack[Len(stack)].op = "close"
  BY DEF TypeOK, OnTop, Top, Frames
<1>2. At(stack, Batches) = {Len(stack)}
  BY <1>1, Popped DEF Nested, NestedIn, At, Batches
<1> QED
  BY <1>2, FS_Singleton DEF N

LEMMA TypeInit == Init => TypeOK /\ Counted
<1> SUFFICES ASSUME Init PROVE TypeOK /\ Counted
  OBVIOUS
<1>1. At(stack, Bodies) = {} /\ At(stack, Batches) = {}
  BY DEF Init, At
<1>2. Counted
  BY <1>1, FS_EmptySet DEF Init, Counted, N
<1>3. TypeOK
  <2>1. /\ pendingTasks \in Seq([flushId : Nat, task : Nat])
        /\ mainQueue \in Seq([op : {"flush", "idle"}, arg : Nat, by : Everyone])
        /\ stack \in Seq([op : Op, arg : Nat, upTo : Nat, by : Everyone])
    BY DEF Init
  <2>2. /\ pc \in [Everyone -> {"idle", "dispatch", "post", "waitSync", "asleep", "awake", "tearing"}]
        /\ job \in [Everyone -> [task : Nat, flushId : Nat, sync : BOOLEAN]]
    BY DEF Init
  <2> QED
    BY <2>1, <2>2 DEF Init, TypeOK
<1> QED
  BY <1>2, <1>3

(* Without the call stack. *)
OtherTypes ==
  /\ pendingTasks \in Seq(Pending)
  /\ batchCount \in Nat /\ executingTaskCount \in Nat
  /\ flushIdSequence \in Nat /\ tasksSequence \in Nat /\ batchFlushId \in Nat
  /\ idleCallbacks \in Nat /\ idleFlushScheduled \in BOOLEAN /\ tornDown \in BOOLEAN
  /\ mainQueue \in Seq(Posts)
  /\ pc \in PcType
  /\ job \in [Everyone -> [task : Nat, flushId : Nat, sync : BOOLEAN]]
  /\ dispatched \in Nat /\ calls \in Nat /\ finished \subseteq Nat

LEMMA TypeParts ==
  /\ TypeOK <=> OtherTypes /\ stack \in Seq(Frames)
  /\ TypeOK' <=> OtherTypes' /\ stack' \in Seq(Frames)
  BY DEF TypeOK, OtherTypes, Frames, Pending, Posts, PcType

(* What leaves the call stack alone. *)
LEMMA TypeStepThreads ==
  ASSUME OtherTypes, NEW t \in Everyone,
         Call(t) \/ Continue(t) \/ (t \in Threads /\ WaitTimeout(t))
  PROVE  OtherTypes' /\ UNCHANGED <<stack, countVars>>
<1> USE DEF OtherTypes, PcType, taskVars, countVars, idleVars, threadVars
<1>1. CASE DispatchBegin(t)
  BY <1>1 DEF DispatchBegin
<1>2. CASE OnIdle(t)
  <2>1. Append(mainQueue, IdlePost(tasksSequence)) \in Seq(Posts)
    BY DEF IdlePost, Posts, Everyone, Nobody
  <2> QED
    BY <1>2, <2>1 DEF OnIdle
<1>3. CASE WaitBegin(t) \/ WaitAgain(t) \/ WaitTimeout(t)
  BY <1>3 DEF WaitBegin, WaitAgain, WaitTimeout, WaitTurn
<1>4. CASE TearDownBegin(t)
  BY <1>4 DEF TearDownBegin
<1>5. CASE TearDownLocked(t)
  BY <1>5 DEF TearDownLocked, Notified
<1>6. CASE DispatchLocked(t)
  <2>1. flushIdSequence' \in Nat /\ batchFlushId' \in Nat /\ pc' \in PcType
    <3>1. CASE Parked(t)
      BY <3>1 DEF Parked
    <3>2. CASE Stamped(t)
      BY <3>2 DEF Stamped
    <3> QED
      BY <1>6, <3>1, <3>2 DEF DispatchLocked
  <2>2. dispatched' \in Nat /\ tasksSequence' \in Nat
    BY <1>6 DEF DispatchLocked
  <2>3. [flushId |-> flushIdSequence', task |-> dispatched'] \in Pending
    BY <2>1, <2>2 DEF Pending
  <2>4. pendingTasks' \in Seq(Pending)
    BY <1>6, <2>3, Pushed DEF DispatchLocked
  <2>5. job' \in [Everyone -> [task : Nat, flushId : Nat, sync : BOOLEAN]]
    BY <1>6, <2>1, <2>2 DEF DispatchLocked
  <2>6. UNCHANGED <<stack, countVars, idleVars, tornDown, mainQueue, finished, calls>>
    BY <1>6 DEF DispatchLocked
  <2> QED
    BY <2>1, <2>2, <2>4, <2>5, <2>6
<1>7. CASE ScheduleFlush(t)
  <2>1. [op |-> "flush", arg |-> job[t].flushId, by |-> IF job[t].sync THEN t ELSE Nobody] \in Posts
    BY DEF Posts, Everyone, Nobody
  <2>2. mainQueue' \in Seq(Posts)
    BY <1>7, <2>1, Pushed DEF ScheduleFlush
  <2> QED
    BY <1>7, <2>2 DEF ScheduleFlush
<1> QED
  BY <1>1, <1>2, <1>3, <1>4, <1>5, <1>6, <1>7 DEF Call, Continue

(* Counting goes on: what each effect on the call stack does to the counters. *)
LEMMA PushCounted ==
  ASSUME TypeOK, Counted, NEW f, Push(f),
         \/ f.op \in Loops \cup {"callback"} /\ UNCHANGED countVars
            /\ f.op # "end"
         \/ f.op = "popped" /\ executingTaskCount' = executingTaskCount + 1 /\ batchCount' = batchCount
         \/ f.op = "batch" /\ batchCount' = batchCount + 1 /\ executingTaskCount' = executingTaskCount
  PROVE  Counted'
<1>1. /\ N(stack, Bodies)' = IF f.op \in Bodies THEN N(stack, Bodies) + 1 ELSE N(stack, Bodies)
      /\ N(stack, Batches)' = IF f.op \in Batches THEN N(stack, Batches) + 1 ELSE N(stack, Batches)
  BY PushType
<1>2. N(stack, Bodies) \in Nat /\ N(stack, Batches) \in Nat
  BY AtFinite DEF TypeOK, Frames
<1> QED
  BY <1>1, <1>2 DEF Counted, countVars, Loops, Bodies, Batches

LEMMA PopCounted ==
  ASSUME TypeOK, Counted, PopTop,
         executingTaskCount' = executingTaskCount - (IF Top.op \in Bodies THEN 1 ELSE 0),
         batchCount' = batchCount - (IF Top.op \in Batches THEN 1 ELSE 0)
  PROVE  Counted'
<1>1. /\ N(stack, Bodies)' = IF Top.op \in Bodies THEN N(stack, Bodies) - 1 ELSE N(stack, Bodies)
      /\ N(stack, Batches)' = IF Top.op \in Batches THEN N(stack, Batches) - 1 ELSE N(stack, Batches)
  BY PopType
<1>2. N(stack, Bodies) \in Nat /\ N(stack, Batches) \in Nat
  BY AtFinite DEF TypeOK, Frames
<1> QED
  BY <1>1, <1>2 DEF Counted

LEMMA RetopCounted ==
  ASSUME TypeOK, Counted, NEW f, Retop(f), UNCHANGED countVars,
         Top.op \in Bodies <=> f.op \in Bodies, Top.op \in Batches <=> f.op \in Batches
  PROVE  Counted'
<1>1. /\ N(stack, Bodies)' = N(stack, Bodies) - (IF Top.op \in Bodies THEN 1 ELSE 0)
                                              + (IF f.op \in Bodies THEN 1 ELSE 0)
      /\ N(stack, Batches)' = N(stack, Batches) - (IF Top.op \in Batches THEN 1 ELSE 0)
                                                + (IF f.op \in Batches THEN 1 ELSE 0)
  BY RetopType
<1>2. N(stack, Bodies) \in Nat /\ N(stack, Batches) \in Nat
  BY AtFinite DEF TypeOK, Frames
<1> QED
  BY <1>1, <1>2 DEF Counted, countVars

(* The frame on top is counted. *)
LEMMA TopCounted ==
  ASSUME TypeOK, Counted, stack # <<>>
  PROVE  /\ Top \in Frames /\ stack \in Seq(Frames)
         /\ Top.op \in Bodies => executingTaskCount >= 1
         /\ Top.op \in Batches => batchCount >= 1
  BY TopCounts, Popped DEF TypeOK, Frames, Counted, Top

(* What the actions do to the call stack. *)
LEMMA PopTaskShape ==
  ASSUME TypeOK, PopTask, pendingTasks # <<>>
  PROVE  Push(Frame("popped", Head(pendingTasks).task)) /\ OtherTypes'
<1>1. Head(pendingTasks) \in Pending /\ Tail(pendingTasks) \in Seq(Pending)
  BY TypeParts DEF OtherTypes
<1>2. Push(Frame("popped", Head(pendingTasks).task))
  BY <1>1 DEF PopTask, Push, Frame, Frames, Op, Pending, Everyone, Nobody
<1>3. OtherTypes
  BY TypeParts
<1>4. OtherTypes'
  BY <1>1, <1>3 DEF PopTask, OtherTypes, idleVars, threadVars
<1> QED
  BY <1>2, <1>4

LEMMA TypeStepCalls ==
  ASSUME TypeOK, Counted, CallOnMain PROVE TypeOK' /\ Counted'
<1> USE DEF taskVars, countVars, idleVars, threadVars
<1>1. CASE BeginBatch
  <2>1. Push(Frame("batch", 0))
    BY <1>1 DEF BeginBatch, Push, Frame, Frames, Op, Everyone, Nobody
  <2>2. Counted'
    <3>1. Frame("batch", 0).op = "batch"
      BY DEF Frame
    <3> QED
      BY <1>1, <2>1, <3>1, PushCounted DEF BeginBatch
  <2>3. OtherTypes'
    <3>1. OtherTypes
      BY TypeParts
    <3> QED
      BY <1>1, <3>1 DEF BeginBatch, OtherTypes
  <2> QED
    BY <2>1, <2>2, <2>3, PushType, TypeParts
<1>2. CASE FlushUpToNow
  <2>1. Push(Pump("pump", flushIdSequence))
    BY <1>2 DEF FlushUpToNow, Push, Pump, Frame, Frames, Op, Everyone, Nobody, TypeOK
  <2>2. Counted'
    <3>1. Pump("pump", flushIdSequence).op = "pump"
      BY DEF Pump, Frame
    <3> QED
      BY <1>2, <2>1, <3>1, PushCounted DEF FlushUpToNow, Loops
  <2>3. OtherTypes'
    <3>1. OtherTypes
      BY TypeParts
    <3> QED
      BY <1>2, <3>1 DEF FlushUpToNow, OtherTypes
  <2> QED
    BY <2>1, <2>2, <2>3, PushType, TypeParts
<1>3. CASE RunNextTask
  <2>1. Push(Frame("popped", Head(pendingTasks).task)) /\ OtherTypes'
    BY <1>3, PopTaskShape DEF RunNextTask, Runnable
  <2>2. Counted'
    <3>1. Frame("popped", Head(pendingTasks).task).op = "popped"
      BY DEF Frame
    <3> QED
      BY <1>3, <2>1, <3>1, PushCounted DEF RunNextTask, PopTask
  <2> QED
    BY <2>1, <2>2, PushType, TypeParts
<1> QED
  BY <1>1, <1>2, <1>3 DEF CallOnMain

LEMMA TypeStepMain ==
  ASSUME TypeOK, Counted, Nested, ContinueOnMain PROVE TypeOK' /\ Counted'
<1> USE DEF taskVars, countVars, idleVars, threadVars
<1>0. pc \in PcType /\ OtherTypes /\ stack \in Seq(Frames)
  BY TypeParts DEF OtherTypes
<1>1. CASE PostedFlush
  <2> DEFINE f == [Frame("flush", Head(mainQueue).arg) EXCEPT !.by = Head(mainQueue).by]
  <2>1. Head(mainQueue) \in Posts /\ Tail(mainQueue) \in Seq(Posts)
    BY <1>0, <1>1 DEF PostedFlush, OtherTypes
  <2>2. f \in Frames /\ f.op = "flush"
    BY <2>1 DEF Frame, Frames, Posts, Op, Everyone, Nobody
  <2>3. stack = <<>> /\ stack' = Append(<<>>, f)
    BY <1>1 DEF PostedFlush
  <2>4. Push(f)
    BY <2>2, <2>3 DEF Push
  <2>5. Counted'
    BY <1>1, <2>2, <2>4, PushCounted DEF PostedFlush, Loops
  <2>6. OtherTypes'
    BY <1>0, <1>1, <2>1 DEF PostedFlush, OtherTypes
  <2> QED
    BY <2>4, <2>5, <2>6, PushType, TypeParts
<1>2. CASE FlushNext
  <2>1. Push(Frame("popped", Head(pendingTasks).task)) /\ OtherTypes'
    BY <1>2, PopTaskShape DEF FlushNext, Runnable
  <2>2. Counted'
    <3>1. Frame("popped", Head(pendingTasks).task).op = "popped"
      BY DEF Frame
    <3> QED
      BY <1>2, <2>1, <3>1, PushCounted DEF FlushNext, PopTask
  <2> QED
    BY <2>1, <2>2, PushType, TypeParts
<1>3. CASE FlushDone
  <2>1. stack' \in Seq(Frames) /\ pc' \in PcType
        /\ N(stack', Bodies) = N(stack, Bodies) /\ N(stack', Batches) = N(stack, Batches)
    BY <1>0, <1>3, Left DEF FlushDone
  <2>2. Counted'
    BY <1>3, <2>1 DEF FlushDone, Counted
  <2>3. OtherTypes'
    BY <1>0, <1>3, <2>1 DEF FlushDone, OtherTypes
  <2> QED
    BY <2>1, <2>2, <2>3, TypeParts
<1>4. CASE BodyBegin
  <2>1. Top \in Frames /\ Top.op = "popped" /\ stack # <<>>
    BY <1>4, TopCounted DEF BodyBegin, OnTop
  <2>2. Retop([Top EXCEPT !.op = "run"])
    BY <1>4, <2>1 DEF BodyBegin, Retop, Frames, Op
  <2>3. Counted'
    BY <1>4, <2>1, <2>2, RetopCounted DEF BodyBegin, Bodies, Batches, Frames
  <2>4. OtherTypes'
    BY <1>0, <1>4 DEF BodyBegin, OtherTypes
  <2> QED
    BY <2>2, <2>3, <2>4, RetopType, TypeParts
<1>5. CASE BodyEnd
  <2>1. Top \in Frames /\ Top.op = "run" /\ stack # <<>> /\ executingTaskCount >= 1
    BY <1>5, TopCounted DEF BodyEnd, OnTop, Bodies
  <2>2. PopTop
    BY <1>5, <2>1 DEF BodyEnd, PopTop
  <2>3. Counted'
    BY <1>5, <2>1, <2>2, PopCounted DEF BodyEnd, Bodies, Batches, TypeOK
  <2>4. pc' \in PcType
    BY <1>0, <1>5 DEF BodyEnd, DiscountedPc, Notified, PcType
  <2>5. finished' \subseteq Nat /\ executingTaskCount' \in Nat
    <3>1. Top.arg \in Nat
      BY <2>1 DEF Frames
    <3> QED
      <4>1. finished' = finished \cup {Top.arg} /\ executingTaskCount' = executingTaskCount - 1
        BY <1>5 DEF BodyEnd
      <4>2. finished \subseteq Nat /\ executingTaskCount \in Nat
        BY <1>0 DEF OtherTypes
      <4>3. finished' \subseteq Nat
        BY <3>1, <4>1, <4>2
      <4>4. executingTaskCount' \in Nat
        BY <2>1, <4>1, <4>2
      <4> QED
        BY <4>3, <4>4
  <2>6. OtherTypes'
    BY <1>0, <1>5, <2>4, <2>5 DEF BodyEnd, OtherTypes
  <2> QED
    BY <2>2, <2>3, <2>6, PopType, TypeParts
<1>6. CASE BodySkipped
  <2>1. Top \in Frames /\ Top.op = "popped" /\ stack # <<>> /\ executingTaskCount >= 1
    BY <1>6, TopCounted DEF BodySkipped, OnTop, Bodies
  <2>2. Pop(stack) \in Seq(Frames) /\ DiscountedPc \in PcType
    BY <1>0, <2>1, Popped DEF DiscountedPc, Notified, PcType
  <2>3. stack' \in Seq(Frames) /\ pc' \in PcType
        /\ N(stack', Bodies) = N(Pop(stack), Bodies) /\ N(stack', Batches) = N(Pop(stack), Batches)
    BY <1>6, <2>2, Left DEF BodySkipped
  <2>4. N(Pop(stack), Bodies) = N(stack, Bodies) - 1 /\ N(Pop(stack), Batches) = N(stack, Batches)
    BY <1>0, <2>1, CountPopped DEF Bodies, Batches, Top
  <2>5. Counted'
    BY <1>6, <2>3, <2>4 DEF BodySkipped, Counted
  <2>6. OtherTypes'
    BY <1>0, <1>6, <2>1, <2>3 DEF BodySkipped, OtherTypes
  <2> QED
    BY <2>3, <2>5, <2>6, TypeParts
<1>7. CASE EndInnerBatch
  <2>1. Top \in Frames /\ Top.op = "batch" /\ stack # <<>>
    BY <1>7, TopCounted DEF EndInnerBatch, OnTop
  <2>2. PopTop
    BY <1>7, <2>1 DEF EndInnerBatch, PopTop
  <2>3. Counted'
    BY <1>7, <2>1, <2>2, PopCounted DEF EndInnerBatch, Bodies, Batches, TypeOK
  <2>4. OtherTypes'
    BY <1>0, <1>7 DEF EndInnerBatch, OtherTypes
  <2> QED
    BY <2>2, <2>3, <2>4, PopType, TypeParts
<1>8. CASE EndLastBatch
  <2>1. Top \in Frames /\ Top.op = "batch" /\ stack # <<>>
    BY <1>8, TopCounted DEF EndLastBatch, OnTop
  <2>2. Retop(Pump("end", batchFlushId))
    BY <1>0, <1>8, <2>1 DEF EndLastBatch, Retop, Pump, Frame, Frames, Op, OtherTypes, Everyone, Nobody
  <2>3. Counted'
    BY <1>8, <2>1, <2>2, RetopCounted DEF EndLastBatch, Pump, Frame, Bodies, Batches
  <2>4. OtherTypes'
    BY <1>0, <1>8 DEF EndLastBatch, OtherTypes
  <2> QED
    BY <2>2, <2>3, <2>4, RetopType, TypeParts
<1>9. CASE CloseBatch
  <2>1. Top \in Frames /\ Top.op = "close" /\ stack # <<>> /\ OnTop("close")
    BY <1>9, TopCounted DEF CloseBatch, OnTop
  <2>2. PopTop
    BY <1>9, <2>1 DEF CloseBatch, PopTop
  <2>3. batchCount = 1
    BY <2>1, CloseCounts DEF Counted
  <2>4. Counted'
    BY <1>9, <2>1, <2>2, <2>3, PopCounted DEF CloseBatch, Bodies, Batches, TypeOK
  <2>5. [op |-> "flush", arg |-> batchFlushId, by |-> Nobody] \in Posts
    BY <1>0 DEF OtherTypes, Posts, Everyone, Nobody
  <2>6. mainQueue' \in Seq(Posts)
    BY <1>0, <1>9, <2>5, Pushed DEF CloseBatch, OtherTypes
  <2>7. OtherTypes'
    BY <1>0, <1>9, <2>6 DEF CloseBatch, OtherTypes, Notified, PcType
  <2> QED
    BY <2>2, <2>4, <2>7, PopType, TypeParts
<1>10. CASE IdleNotYet \/ RunIdleCallback
  <2>1. IdlePost(tasksSequence) \in Posts
    BY <1>0 DEF IdlePost, OtherTypes, Posts, Everyone, Nobody
  <2>2. Tail(mainQueue) \in Seq(Posts)
    BY <1>0, <1>10 DEF IdleNotYet, RunIdleCallback, PostedIdle, OtherTypes
  <2>3. Append(Tail(mainQueue), IdlePost(tasksSequence)) \in Seq(Posts)
    BY <2>1, <2>2, Pushed
  <2>4. OtherTypes'
    <3>1. CASE IdleNotYet
      BY <1>0, <2>3, <3>1 DEF IdleNotYet, PostedIdle, OtherTypes
    <3>2. CASE RunIdleCallback
      <4>1. idleCallbacks' \in Nat /\ idleFlushScheduled' \in BOOLEAN
        BY <1>0, <3>2 DEF RunIdleCallback, OtherTypes
      <4> QED
        BY <1>0, <2>2, <2>3, <3>2, <4>1 DEF RunIdleCallback, PostedIdle, OtherTypes
    <3> QED
      BY <1>10, <3>1, <3>2
  <2>5. CASE stack' = stack
    <3>1. UNCHANGED countVars
      BY <1>10 DEF IdleNotYet, RunIdleCallback, PostedIdle
    <3>2. Counted'
      BY <2>5, <3>1 DEF Counted, N, At
    <3> QED
      BY <1>0, <2>4, <2>5, <3>2, TypeParts
  <2>6. CASE stack' # stack
    <3>1. Push(Frame("callback", 0))
      <4>1. stack = <<>> /\ stack' = <<Frame("callback", 0)>>
        BY <1>10, <2>6 DEF IdleNotYet, RunIdleCallback, PostedIdle
      <4>2. Frame("callback", 0) \in Frames
        BY DEF Frame, Frames, Op, Everyone, Nobody
      <4> QED
        BY <4>1, <4>2 DEF Push
    <3>2. Counted'
      <4>1. Frame("callback", 0).op = "callback"
        BY DEF Frame
      <4> QED
        BY <1>10, <3>1, <4>1, PushCounted DEF IdleNotYet, RunIdleCallback, PostedIdle
    <3> QED
      BY <2>4, <3>1, <3>2, PushType, TypeParts
  <2> QED
    BY <2>5, <2>6
<1>11. CASE CallbackEnd
  <2>1. Top \in Frames /\ Top.op = "callback" /\ stack # <<>>
    BY <1>11, TopCounted DEF CallbackEnd, OnTop
  <2>2. PopTop
    BY <1>11, <2>1 DEF CallbackEnd, PopTop
  <2>3. Counted'
    BY <1>11, <2>1, <2>2, PopCounted DEF CallbackEnd, Bodies, Batches, TypeOK
  <2>4. OtherTypes'
    BY <1>0, <1>11 DEF CallbackEnd, OtherTypes
  <2> QED
    BY <2>2, <2>3, <2>4, PopType, TypeParts
<1> QED
  BY <1>1, <1>2, <1>3, <1>4, <1>5, <1>6, <1>7, <1>8, <1>9, <1>10, <1>11 DEF ContinueOnMain

LEMMA TypeStep ==
  ASSUME TypeOK, Counted, Nested, [Next]_vars PROVE TypeOK' /\ Counted'
<1>1. CASE UNCHANGED vars
  BY <1>1, TypeParts
    DEF vars, OtherTypes, Counted, N, At, taskVars, countVars, idleVars, threadVars
<1>2. ASSUME NEW t \in Everyone, Call(t) \/ Continue(t) \/ (t \in Threads /\ WaitTimeout(t))
      PROVE  TypeOK' /\ Counted'
  <2>1. OtherTypes' /\ UNCHANGED <<stack, countVars>>
    BY <1>2, TypeParts, TypeStepThreads
  <2>2. Counted'
    BY <2>1 DEF Counted, N, At, countVars
  <2> QED
    BY <2>1, <2>2, TypeParts
<1> QED
  BY <1>1, <1>2, TypeStepCalls, TypeStepMain DEF Next, Everyone

-----------------------------------------------------------------------------
(* The tasks are sorted, and a frame knows which ones are for it. *)

LEMMA PendingType ==
  ASSUME TypeOK
  PROVE  /\ pendingTasks \in Seq(Pending)
         /\ \A i \in DOMAIN pendingTasks :
              /\ i \in Nat /\ i >= 1
              /\ pendingTasks[i].flushId \in Nat /\ pendingTasks[i].task \in Nat
<1>1. pendingTasks \in Seq(Pending)
  BY TypeParts DEF OtherTypes
<1>2. \A i \in DOMAIN pendingTasks : pendingTasks[i] \in Pending /\ i \in Nat /\ i >= 1
  BY <1>1
<1> QED
  BY <1>1, <1>2 DEF Pending

LEMMA NotRunnable ==
  ASSUME TypeOK, PendingSorted, NEW n \in Nat, ~Runnable(n)
  PROVE  \A i \in DOMAIN pendingTasks : n < pendingTasks[i].flushId
<1>1. pendingTasks \in Seq(Pending)
  BY PendingType
<1>2. \A i \in DOMAIN pendingTasks : pendingTasks[i].flushId \in Nat /\ i \in Nat /\ i >= 1
  BY PendingType
<1>3. SUFFICES ASSUME pendingTasks # <<>> PROVE \A i \in DOMAIN pendingTasks : n < pendingTasks[i].flushId
  OBVIOUS
<1>4. Head(pendingTasks) = pendingTasks[1] /\ 1 \in DOMAIN pendingTasks
  BY <1>1, <1>3
<1>5. n < pendingTasks[1].flushId
  BY <1>2, <1>3, <1>4 DEF Runnable
<1> QED
  BY <1>2, <1>4, <1>5 DEF PendingSorted

(* How a step changes the queue. *)
Dispatching == 
  /\ dispatched' = dispatched + 1
  /\ \/ flushIdSequence' = flushIdSequence /\ batchFlushId' = flushIdSequence
     \/ flushIdSequence' = flushIdSequence + 1 /\ batchFlushId' = batchFlushId
  /\ pendingTasks' = Append(pendingTasks, [flushId |-> flushIdSequence', task |-> dispatched'])

Taking == 
  /\ pendingTasks # <<>> /\ pendingTasks' = Tail(pendingTasks)
  /\ UNCHANGED <<dispatched, flushIdSequence, batchFlushId>>

Keeping ==
  /\ pendingTasks' = pendingTasks \/ pendingTasks' = <<>>
  /\ UNCHANGED <<dispatched, batchFlushId>>
  /\ flushIdSequence' \in {flushIdSequence, flushIdSequence + 1}

LEMMA QueueSteps ==
  ASSUME TypeOK, [Next]_vars PROVE Dispatching \/ Taking \/ Keeping
<1> USE DEF taskVars
<1>1. CASE UNCHANGED vars
  BY <1>1 DEF vars, Keeping
<1>2. ASSUME NEW t \in Everyone, Call(t) \/ Continue(t) \/ WaitTimeout(t)
      PROVE  Dispatching \/ Keeping
  <2>1. CASE DispatchLocked(t)
    BY <2>1 DEF DispatchLocked, Parked, Stamped, Dispatching
  <2>2. CASE ~DispatchLocked(t)
    BY <1>2, <2>2 DEF Call, Continue, DispatchBegin, OnIdle, WaitBegin, WaitAgain, WaitTimeout,
      WaitTurn, TearDownBegin, TearDownLocked, ScheduleFlush, Keeping
  <2> QED
    BY <2>1, <2>2
<1>3. CASE CallOnMain
  BY <1>3 DEF CallOnMain, BeginBatch, FlushUpToNow, RunNextTask, Runnable, PopTask, Taking, Keeping
<1>4. CASE ContinueOnMain
  BY <1>4 DEF ContinueOnMain, PostedFlush, FlushNext, FlushDone, BodyBegin, BodyEnd, BodySkipped,
    EndInnerBatch, EndLastBatch, CloseBatch, IdleNotYet, RunIdleCallback, CallbackEnd, PostedIdle,
    Runnable, PopTask, Taking, Keeping
<1> QED
  BY <1>1, <1>2, <1>3, <1>4 DEF Next, Everyone

(* What is pending after the step: what was, or the task just dispatched. *)
LEMMA PendingAfter ==
  ASSUME TypeOK, Dispatching \/ Taking \/ Keeping
  PROVE  \A i \in DOMAIN pendingTasks' :
           \/ \E j \in DOMAIN pendingTasks : pendingTasks'[i] = pendingTasks[j]
           \/ Dispatching /\ pendingTasks'[i].flushId = flushIdSequence' /\ pendingTasks'[i].task = dispatched'
<1>1. pendingTasks \in Seq(Pending) /\ dispatched \in Nat /\ flushIdSequence \in Nat
  BY TypeParts DEF OtherTypes
<1>2. CASE Dispatching
  <2> DEFINE e == [flushId |-> flushIdSequence', task |-> dispatched']
  <2>1. e \in Pending
    BY <1>1, <1>2 DEF Dispatching, Pending
  <2>2. pendingTasks' = Append(pendingTasks, e)
    BY <1>2 DEF Dispatching
  <2> QED
    BY <1>1, <1>2, <2>1, <2>2, Pushed
<1>3. CASE Taking
  <2>1. \A i \in DOMAIN Tail(pendingTasks) :
          i + 1 \in DOMAIN pendingTasks /\ Tail(pendingTasks)[i] = pendingTasks[i + 1]
    BY <1>1, <1>3 DEF Taking
  <2> QED
    BY <1>3, <2>1 DEF Taking
<1>4. CASE Keeping
  BY <1>4 DEF Keeping
<1> QED
  BY <1>2, <1>3, <1>4

LEMMA SortedStep ==
  ASSUME TypeOK, PendingSorted, [Next]_vars PROVE PendingSorted'
<1>1. pendingTasks \in Seq(Pending) /\ dispatched \in Nat /\ flushIdSequence \in Nat
  BY TypeParts DEF OtherTypes
<1>2. CASE Dispatching
  <2> DEFINE e == [flushId |-> flushIdSequence', task |-> dispatched']
  <2>1. e \in Pending /\ flushIdSequence' >= flushIdSequence /\ flushIdSequence' \in Nat
    BY <1>1, <1>2 DEF Dispatching, Pending
  <2>2. pendingTasks' = Append(pendingTasks, e)
    BY <1>2 DEF Dispatching
  <2>3. /\ DOMAIN pendingTasks = 1 .. Len(pendingTasks) /\ Len(pendingTasks) \in Nat
        /\ DOMAIN pendingTasks' = 1 .. Len(pendingTasks) + 1
        /\ \A i \in 1 .. Len(pendingTasks) : pendingTasks'[i] = pendingTasks[i]
        /\ pendingTasks'[Len(pendingTasks) + 1] = e
    BY <1>1, <2>1, <2>2, Pushed
  <2>4. \A i \in 1 .. Len(pendingTasks) : pendingTasks[i].flushId \in Nat
    BY <2>3, PendingType
  <2>5. e.flushId = flushIdSequence'
    OBVIOUS
  <2> HIDE DEF e
  <2>6. \A i \in 1 .. Len(pendingTasks) + 1 : pendingTasks'[i].flushId <= flushIdSequence'
    BY <1>1, <2>1, <2>3, <2>4, <2>5 DEF PendingSorted
  <2>7. ASSUME NEW i \in 1 .. Len(pendingTasks) + 1, NEW j \in 1 .. Len(pendingTasks) + 1, i < j
        PROVE  pendingTasks'[i].flushId <= pendingTasks'[j].flushId
    <3>1. CASE j = Len(pendingTasks) + 1
      BY <2>3, <2>5, <2>6, <3>1
    <3>2. CASE j # Len(pendingTasks) + 1
      <4>1. i \in DOMAIN pendingTasks /\ j \in DOMAIN pendingTasks
        BY <2>3, <2>7, <3>2
      <4> QED
        BY <2>3, <2>7, <4>1 DEF PendingSorted
    <3> QED
      BY <3>1, <3>2
  <2> QED
    BY <2>3, <2>6, <2>7 DEF PendingSorted
<1>3. CASE Taking
  <2>1. \A i \in DOMAIN Tail(pendingTasks) :
          i + 1 \in DOMAIN pendingTasks /\ Tail(pendingTasks)[i] = pendingTasks[i + 1] /\ i \in Nat
    BY <1>1, <1>3 DEF Taking
  <2> QED
    BY <1>3, <2>1 DEF Taking, PendingSorted
<1>4. CASE Keeping
  <2>1. \A i \in DOMAIN pendingTasks : pendingTasks[i].flushId \in Nat
    BY PendingType
  <2> QED
    BY <1>1, <1>4, <2>1 DEF Keeping, PendingSorted
<1> QED
  BY <1>2, <1>3, <1>4, QueueSteps

-----------------------------------------------------------------------------
(* Batches nest. *)

LEMMA PopNested ==
  ASSUME NEW s \in Seq(Frames), s # <<>>, NestedIn(s)
  PROVE  NestedIn(Pop(s)) /\ \A i \in DOMAIN Pop(s) : Pop(s)[i].op # "close"
<1>1. /\ Len(Pop(s)) = Len(s) - 1 /\ DOMAIN s = 1 .. Len(s) /\ Len(s) \in Nat \ {0}
      /\ DOMAIN Pop(s) = 1 .. Len(s) - 1
      /\ \A i \in 1 .. Len(s) - 1 : Pop(s)[i] = s[i]
  BY Popped
<1> QED
  BY <1>1 DEF NestedIn

LEMMA PushNested ==
  ASSUME NEW s \in Seq(Frames), NEW f \in Frames, NestedIn(s),
         \A i \in DOMAIN s : s[i].op # "close",
         f.op = "close" => FALSE,
         f.op = "end" => \A i \in DOMAIN s : s[i].op \notin Batches
  PROVE  NestedIn(Append(s, f))
<1>1. /\ Len(Append(s, f)) = Len(s) + 1 /\ DOMAIN s = 1 .. Len(s) /\ Len(s) \in Nat
      /\ DOMAIN Append(s, f) = 1 .. Len(s) + 1
      /\ \A i \in 1 .. Len(s) : Append(s, f)[i] = s[i]
      /\ Append(s, f)[Len(s) + 1] = f
  BY Pushed
<1> QED
  BY <1>1 DEF NestedIn

LEMMA LeftNested ==
  ASSUME NEW s \in Seq(Frames), NEW p \in PcType, NestedIn(s), LeaveLoop(s, p)
  PROVE  NestedIn(stack')
<1>1. /\ stack' \in Seq(Frames)
      /\ Len(stack') <= Len(s) /\ Len(stack') \in Nat /\ Len(s) \in Nat
      /\ \A i \in 1 .. Len(stack') :
           \/ stack'[i] = s[i]
           \/ i = Len(s) /\ s[i].op = "end" /\ stack'[i] = [s[i] EXCEPT !.op = "close", !.upTo = 0]
      /\ Len(stack') # Len(s) => s # <<>> /\ Len(stack') = Len(s) - 1 /\ s[Len(s)].op \in Loops
  BY Left
<1>0. Len(stack') <= Len(s) /\ Len(stack') \in Nat /\ Len(s) \in Nat
  BY <1>1
<1>2. DOMAIN stack' = 1 .. Len(stack') /\ DOMAIN s = 1 .. Len(s)
  <2>1. stack' \in Seq(Frames)
    BY <1>1
  <2> QED
    BY <2>1, LenProperties
<1>3. \A i \in 1 .. Len(s) : s[i] \in Frames
  OBVIOUS
<1>4. ASSUME NEW i \in 1 .. Len(stack'), stack'[i] # s[i]
      PROVE  i = Len(s) /\ i = Len(stack') /\ s[i].op = "end" /\ stack'[i].op = "close"
  <2>1. i = Len(s) /\ s[i].op = "end" /\ stack'[i] = [s[i] EXCEPT !.op = "close", !.upTo = 0]
    BY <1>1, <1>4
  <2>2. i = Len(stack')
    BY <1>0, <2>1
  <2>3. s[i] \in Frames
    BY <1>0, <1>3
  <2>4. stack'[i].op = "close"
    BY <2>1, <2>3 DEF Frames
  <2> QED
    BY <2>1, <2>2, <2>4
<1>5. ASSUME NEW j \in 1 .. Len(stack'), stack'[j].op \in {"end", "close"}
      PROVE  /\ \A i \in 1 .. j - 1 : stack'[i].op \notin Batches
             /\ stack'[j].op = "close" => j = Len(stack')
  <2>1. j \in 1 .. Len(s) /\ s[j].op \in {"end", "close"}
    BY <1>0, <1>4, <1>5
  <2>2. \A i \in 1 .. j - 1 : s[i].op \notin Batches
    BY <1>2, <2>1 DEF NestedIn
  <2>3. \A i \in 1 .. j - 1 : stack'[i] = s[i]
    BY <1>0, <1>4, <2>1
  <2>4. ASSUME stack'[j].op = "close" PROVE j = Len(stack')
    <3>1. CASE stack'[j] = s[j]
      <4>1. j = Len(s)
        BY <1>2, <2>1, <2>4, <3>1 DEF NestedIn
      <4> QED
        BY <1>0, <4>1
    <3>2. CASE stack'[j] # s[j]
      BY <1>4, <3>2
    <3> QED
      BY <3>1, <3>2
  <2> QED
    BY <2>2, <2>3, <2>4
<1> QED
  BY <1>2, <1>5 DEF NestedIn

LEMMA NestedStep ==
  ASSUME TypeOK, Counted, Nested, [Next]_vars PROVE Nested'
<1>1. stack \in Seq(Frames) /\ pc \in PcType /\ DiscountedPc \in PcType
  BY TypeParts DEF OtherTypes, DiscountedPc, Notified, PcType
<1>2. SUFFICES ASSUME stack' # stack PROVE NestedIn(stack')
  BY DEF Nested
<1>3. ASSUME NEW f \in Frames, stack' = Append(stack, f), f.op \notin {"end", "close"},
             stack # <<>> => Top.op # "close"
      PROVE  NestedIn(stack')
  <2>1. \A i \in DOMAIN stack : stack[i].op # "close"
    BY <1>1, <1>3 DEF Nested, NestedIn, Top
  <2> QED
    BY <1>1, <1>3, <2>1, PushNested DEF Nested
<1>4. ASSUME stack # <<>>, stack' = Pop(stack) PROVE NestedIn(stack')
  BY <1>1, <1>4, PopNested DEF Nested
<1>5. CASE UNCHANGED vars
  BY <1>2, <1>5 DEF vars
<1>6. ASSUME NEW t \in Everyone, Call(t) \/ Continue(t) \/ (t \in Threads /\ WaitTimeout(t))
      PROVE  FALSE
  BY <1>2, <1>6, TypeParts, TypeStepThreads
<1>7. CASE PopTask /\ pendingTasks # <<>> /\ (stack # <<>> => Top.op # "close")
  <2>1. Frame("popped", Head(pendingTasks).task) \in Frames
    BY <1>7, PopTaskShape DEF Push
  <2>2. Frame("popped", Head(pendingTasks).task).op = "popped"
    BY DEF Frame
  <2> QED
    BY <1>3, <1>7, <2>1, <2>2 DEF PopTask
<1>8. CASE CallOnMain
  <2>1. CASE BeginBatch
    <3>1. Frame("batch", 0) \in Frames /\ Frame("batch", 0).op = "batch"
      BY DEF Frame, Frames, Op, Everyone, Nobody
    <3> QED
      BY <1>3, <2>1, <3>1 DEF BeginBatch, MainFree
  <2>2. CASE FlushUpToNow
    <3>1. Pump("pump", flushIdSequence) \in Frames /\ Pump("pump", flushIdSequence).op = "pump"
      BY DEF Pump, Frame, Frames, Op, Everyone, Nobody, TypeOK
    <3> QED
      BY <1>3, <2>2, <3>1 DEF FlushUpToNow, MainFree
  <2>3. CASE RunNextTask
    BY <1>7, <2>3 DEF RunNextTask, Runnable, MainFree
  <2> QED
    BY <1>8, <2>1, <2>2, <2>3 DEF CallOnMain
<1>9. CASE PostedFlush \/ RunIdleCallback
  <2>1. stack = <<>> /\ \E f : stack' = <<f>> /\ f.op \in {"flush", "callback"}
    <3>1. CASE PostedFlush
      BY <3>1 DEF PostedFlush, Frame
    <3>2. CASE RunIdleCallback
      BY <1>2, <3>2 DEF RunIdleCallback, PostedIdle, Frame
    <3> QED
      BY <1>9, <3>1, <3>2
  <2> QED
    BY <2>1 DEF NestedIn
<1>10. CASE FlushNext
  BY <1>7, <1>10 DEF FlushNext, Runnable, TopIn, Loops
<1>11. CASE FlushDone
  BY <1>1, <1>11, LeftNested DEF FlushDone, Nested
<1>12. CASE BodySkipped
  <2>1. stack # <<>> /\ LeaveLoop(Pop(stack), DiscountedPc)
    BY <1>12 DEF BodySkipped, OnTop
  <2> QED
    BY <1>1, <2>1, Popped, PopNested, LeftNested DEF Nested
<1>13. CASE BodyBegin \/ EndLastBatch
  <2>1. stack # <<>> /\ Pop(stack) \in Seq(Frames) /\ Top \in Frames /\ NestedIn(Pop(stack))
        /\ \A i \in DOMAIN Pop(stack) : Pop(stack)[i].op # "close"
    BY <1>1, <1>13, Popped, PopNested DEF BodyBegin, EndLastBatch, OnTop, Top, Nested
  <2>2. CASE BodyBegin
    <3>1. [Top EXCEPT !.op = "run"] \in Frames /\ [Top EXCEPT !.op = "run"].op = "run"
      BY <2>1 DEF Frames, Op
    <3> QED
      BY <2>1, <2>2, <3>1, PushNested DEF BodyBegin
  <2>3. CASE EndLastBatch
    <3>1. Pump("end", batchFlushId) \in Frames /\ Pump("end", batchFlushId).op = "end"
      BY DEF Pump, Frame, Frames, Op, Everyone, Nobody, TypeOK
    <3>2. \A i \in 1 .. Len(stack) - 1 : stack[i].op \notin Batches
      BY <1>1, <2>1, <2>3, OnlyTop DEF EndLastBatch, OnTop, Top, Counted, Batches
    <3>3. \A i \in DOMAIN Pop(stack) : Pop(stack)[i].op \notin Batches
      BY <1>1, <2>1, <3>2, Popped
    <3> QED
      BY <2>1, <2>3, <3>1, <3>3, PushNested DEF EndLastBatch
  <2> QED
    BY <1>13, <2>2, <2>3
<1>14. CASE BodyEnd \/ EndInnerBatch \/ CloseBatch \/ CallbackEnd
  BY <1>4, <1>14 DEF BodyEnd, EndInnerBatch, CloseBatch, CallbackEnd, OnTop
<1>15. CASE IdleNotYet
  BY <1>2, <1>15 DEF IdleNotYet
<1> QED
  BY <1>5, <1>6, <1>8, <1>9, <1>10, <1>11, <1>12, <1>13, <1>14, <1>15 DEF Next, ContinueOnMain, Everyone
-----------------------------------------------------------------------------
(* What each frame of the call stack knows stays true. *)

(* A frame pushed by a step. *)
Pumping(f) ==
  /\ flushIdSequence' = flushIdSequence + 1
  /\ UNCHANGED <<pendingTasks, dispatched>>
  /\ f.upTo = dispatched
  /\ \/ f.op = "pump" /\ f.arg = flushIdSequence
     \/ f.op = "end" /\ f.arg = batchFlushId

NewFrame(f) == f \in Frames /\ (f.op \notin {"pump", "end", "close"} \/ Pumping(f))

Pushing   == \E f \in Frames : stack' = Append(stack, f) /\ NewFrame(f)
Popping   == stack # <<>> /\ Top.op \notin Loops /\ stack' = Pop(stack)
Retopping == \E f \in Frames : /\ stack # <<>> /\ Top.op \notin Loops
                               /\ stack' = Append(Pop(stack), f) /\ NewFrame(f)

LEMMA StackSteps ==
  ASSUME TypeOK, [Next]_vars, stack' # stack
  PROVE  Pushing \/ Popping \/ Retopping \/ FlushDone \/ BodySkipped
<1>1. CASE UNCHANGED vars
  BY <1>1 DEF vars
<1>2. ASSUME NEW t \in Everyone, Call(t) \/ Continue(t) \/ (t \in Threads /\ WaitTimeout(t))
      PROVE  FALSE
  BY <1>2, TypeParts, TypeStepThreads
<1>3. CASE PopTask /\ pendingTasks # <<>>
  <2> DEFINE f == Frame("popped", Head(pendingTasks).task)
  <2>1. f \in Frames /\ stack' = Append(stack, f)
    BY <1>3, PopTaskShape DEF Push
  <2>2. f.op = "popped"
    BY DEF Frame
  <2> QED
    BY <2>1, <2>2 DEF Pushing, NewFrame
<1>4. CASE CallOnMain
  <2>1. CASE BeginBatch
    <3>1. Frame("batch", 0) \in Frames /\ Frame("batch", 0).op = "batch"
      BY DEF Frame, Frames, Op, Everyone, Nobody
    <3> QED
      BY <2>1, <3>1 DEF BeginBatch, Pushing, NewFrame
  <2>2. CASE FlushUpToNow
    <3> DEFINE f == Pump("pump", flushIdSequence)
    <3>1. f \in Frames /\ f.op = "pump" /\ f.arg = flushIdSequence /\ f.upTo = dispatched
      BY DEF Pump, Frame, Frames, Op, Everyone, Nobody, TypeOK
    <3>2. Pumping(f)
      BY <2>2, <3>1 DEF FlushUpToNow, Pumping
    <3> QED
      BY <2>2, <3>1, <3>2 DEF FlushUpToNow, Pushing, NewFrame
  <2>3. CASE RunNextTask
    BY <1>3, <2>3 DEF RunNextTask, Runnable
  <2> QED
    BY <1>4, <2>1, <2>2, <2>3 DEF CallOnMain
<1>5. CASE PostedFlush \/ RunIdleCallback
  <2>1. /\ stack = <<>>
        /\ \E f \in Frames : stack' = <<f>> /\ f.op \in {"flush", "callback"}
    <3>1. CASE PostedFlush
      <4> DEFINE f == [Frame("flush", Head(mainQueue).arg) EXCEPT !.by = Head(mainQueue).by]
      <4>1. mainQueue \in Seq(Posts) /\ mainQueue # <<>>
        BY <3>1, TypeParts DEF OtherTypes, PostedFlush
      <4>2. Head(mainQueue) \in Posts
        BY <4>1
      <4>3. f \in Frames /\ f.op = "flush"
        BY <4>2 DEF Frame, Frames, Posts, Op, Everyone, Nobody
      <4> QED
        BY <3>1, <4>3 DEF PostedFlush
    <3>2. CASE RunIdleCallback
      <4>1. Frame("callback", 0) \in Frames /\ Frame("callback", 0).op = "callback"
        BY DEF Frame, Frames, Op, Everyone, Nobody
      <4> QED
        BY <3>2, <4>1 DEF RunIdleCallback, PostedIdle
    <3> QED
      BY <1>5, <3>1, <3>2
  <2> QED
    BY <2>1 DEF Pushing, NewFrame
<1>6. CASE FlushNext
  BY <1>3, <1>6 DEF FlushNext, Runnable
<1>7. CASE BodyBegin \/ EndLastBatch
  <2>1. stack # <<>> /\ Top \in Frames /\ Top.op \in {"popped", "batch"}
    <3>1. stack # <<>> /\ Top.op \in {"popped", "batch"}
      BY <1>7 DEF BodyBegin, EndLastBatch, OnTop
    <3> QED
      BY <3>1, TypeParts, Popped DEF Top
  <2>2. CASE BodyBegin
    <3>1. [Top EXCEPT !.op = "run"] \in Frames /\ [Top EXCEPT !.op = "run"].op = "run"
      BY <2>1 DEF Frames, Op
    <3> QED
      BY <2>1, <2>2, <3>1 DEF BodyBegin, Retopping, NewFrame, Loops
  <2>3. CASE EndLastBatch
    <3> DEFINE f == Pump("end", batchFlushId)
    <3>1. f \in Frames /\ f.op = "end" /\ f.arg = batchFlushId /\ f.upTo = dispatched
      BY DEF Pump, Frame, Frames, Op, Everyone, Nobody, TypeOK
    <3>2. Pumping(f)
      BY <2>3, <3>1 DEF EndLastBatch, Pumping
    <3> QED
      BY <2>1, <2>3, <3>1, <3>2 DEF EndLastBatch, Retopping, NewFrame, Loops
  <2> QED
    BY <1>7, <2>2, <2>3
<1>8. CASE BodyEnd \/ EndInnerBatch \/ CloseBatch \/ CallbackEnd
  BY <1>8 DEF BodyEnd, EndInnerBatch, CloseBatch, CallbackEnd, OnTop, Popping, Loops
<1>9. CASE IdleNotYet
  BY <1>9 DEF IdleNotYet
<1> QED
  BY <1>1, <1>2, <1>4, <1>5, <1>6, <1>7, <1>8, <1>9 DEF Next, ContinueOnMain, Everyone

LEMMA FrameKept ==
  ASSUME TypeOK, Dispatching \/ Taking \/ Keeping, tornDown => tornDown', NEW f \in Frames,
         FrameOK(f, pendingTasks, flushIdSequence, dispatched, tornDown)
  PROVE  FrameOK(f, pendingTasks', flushIdSequence', dispatched', tornDown')
<1>1. flushIdSequence \in Nat /\ dispatched \in Nat /\ f.arg \in Nat /\ f.upTo \in Nat
  BY TypeParts DEF OtherTypes, Frames
<1>2. /\ flushIdSequence <= flushIdSequence' /\ flushIdSequence' \in Nat
      /\ dispatched <= dispatched' /\ dispatched' \in Nat
      /\ Dispatching => dispatched' = dispatched + 1
  BY <1>1 DEF Dispatching, Taking, Keeping
<1>3. \A i \in DOMAIN pendingTasks' :
        \/ \E j \in DOMAIN pendingTasks : pendingTasks'[i] = pendingTasks[j]
        \/ Dispatching /\ pendingTasks'[i].flushId = flushIdSequence' /\ pendingTasks'[i].task = dispatched'
  BY PendingAfter
<1>4. CASE f.op = "pump" \/ f.op = "end"
  BY <1>1, <1>2, <1>3, <1>4 DEF FrameOK
<1>5. CASE f.op = "close"
  BY <1>1, <1>2, <1>3, <1>5 DEF FrameOK
<1> QED
  BY <1>4, <1>5 DEF FrameOK

(* Torn down stays torn down. *)
LEMMA StaysTornDown == ASSUME [Next]_vars, tornDown PROVE tornDown'
<1> USE DEF idleVars, countVars, taskVars, threadVars
<1>1. CASE UNCHANGED vars
  BY <1>1 DEF vars
<1>2. ASSUME NEW t \in Everyone, Call(t) \/ Continue(t) \/ WaitTimeout(t) PROVE tornDown'
  BY <1>2 DEF Call, Continue, DispatchBegin, OnIdle, WaitBegin, WaitAgain, WaitTimeout, WaitTurn,
    TearDownBegin, TearDownLocked, DispatchLocked, ScheduleFlush
<1>3. CASE CallOnMain
  BY <1>3 DEF CallOnMain, BeginBatch, FlushUpToNow, RunNextTask, PopTask
<1>4. CASE ContinueOnMain
  BY <1>4 DEF ContinueOnMain, PostedFlush, FlushNext, FlushDone, BodyBegin, BodyEnd, BodySkipped,
    EndInnerBatch, EndLastBatch, CloseBatch, IdleNotYet, RunIdleCallback, CallbackEnd, PostedIdle,
    PopTask
<1> QED
  BY <1>1, <1>2, <1>3, <1>4 DEF Next, Everyone

(* The loop that is left over a stack of known frames. *)
LEMMA LeftFrames ==
  ASSUME TypeOK, PendingSorted, NEW s \in Seq(Frames), NEW p \in PcType, LeaveLoop(s, p),
         tornDown \/ (s # <<>> => ~Runnable(s[Len(s)].arg)),
         \A i \in DOMAIN s : FrameOK(s[i], pendingTasks, flushIdSequence, dispatched, tornDown)
  PROVE  \A i \in DOMAIN stack' :
           FrameOK(stack'[i], pendingTasks, flushIdSequence, dispatched, tornDown)
<1>1. /\ stack' \in Seq(Frames)
      /\ \A i \in 1 .. Len(stack') :
           \/ stack'[i] = s[i]
           \/ i = Len(s) /\ s[i].op = "end" /\ stack'[i] = [s[i] EXCEPT !.op = "close", !.upTo = 0]
  BY Left
<1>2. Len(stack') <= Len(s) /\ Len(stack') \in Nat /\ Len(s) \in Nat
  BY Left
<1>3. DOMAIN stack' = 1 .. Len(stack') /\ DOMAIN s = 1 .. Len(s) /\ \A i \in DOMAIN s : s[i] \in Frames
  <2>1. stack' \in Seq(Frames)
    BY <1>1
  <2> QED
    BY <2>1, LenProperties
<1>4. ASSUME NEW i \in DOMAIN stack', stack'[i] # s[i]
      PROVE  FrameOK(stack'[i], pendingTasks, flushIdSequence, dispatched, tornDown)
  <2> DEFINE f == s[i]
             g == [f EXCEPT !.op = "close", !.upTo = 0]
  <2>1. i = Len(s) /\ f.op = "end" /\ stack'[i] = g
    BY <1>1, <1>3, <1>4
  <2>2. i \in DOMAIN s
    BY <1>2, <1>3, <1>4
  <2>3. f \in Frames /\ f.arg \in Nat
    <3>1. f \in Frames
      BY <1>3, <2>2
    <3> QED
      BY <3>1 DEF Frames
  <2>4. g.op = "close" /\ g.arg = f.arg
    BY <2>3 DEF Frames
  <2>5. f.arg < flushIdSequence
    BY <2>1, <2>2 DEF FrameOK
  <2>6. tornDown \/ ~Runnable(f.arg)
    BY <1>2, <1>3, <2>1, <2>2
  <2>7. tornDown \/ \A j \in DOMAIN pendingTasks : f.arg < pendingTasks[j].flushId
    BY <2>3, <2>6, NotRunnable
  <2> HIDE DEF f, g
  <2> QED
    BY <2>1, <2>4, <2>5, <2>7 DEF FrameOK
<1>5. \A i \in DOMAIN stack' : i \in DOMAIN s
  BY <1>2, <1>3
<1> QED
  BY <1>4, <1>5

LEMMA BoundedStep ==
  ASSUME TypeOK, Counted, Nested, PendingSorted, Bounded, [Next]_vars PROVE Bounded'
<1>1. /\ stack \in Seq(Frames) /\ pc \in PcType /\ DiscountedPc \in PcType
      /\ flushIdSequence \in Nat /\ dispatched \in Nat /\ batchFlushId \in Nat
  BY TypeParts DEF OtherTypes, DiscountedPc, Notified, PcType
<1>2. Dispatching \/ Taking \/ Keeping
  BY QueueSteps
<1>3. batchFlushId' <= flushIdSequence'
  BY <1>1, <1>2 DEF Dispatching, Taking, Keeping, Bounded
<1>4. \A i \in DOMAIN pendingTasks' : pendingTasks'[i].task <= dispatched'
  <2>1. dispatched <= dispatched' /\ dispatched' \in Nat
    BY <1>1, <1>2 DEF Dispatching, Taking, Keeping
  <2>2. \A j \in DOMAIN pendingTasks : pendingTasks[j].task \in Nat /\ pendingTasks[j].task <= dispatched
    BY PendingType DEF Bounded
  <2>3. \A i \in DOMAIN pendingTasks' :
          \/ \E j \in DOMAIN pendingTasks : pendingTasks'[i] = pendingTasks[j]
          \/ pendingTasks'[i].task = dispatched'
    BY <1>2, PendingAfter
  <2> QED
    BY <1>1, <2>1, <2>2, <2>3
<1>5. tornDown => tornDown'
  BY StaysTornDown
<1> DEFINE Known(f)  == FrameOK(f, pendingTasks, flushIdSequence, dispatched, tornDown)
           KnownNext(f) == FrameOK(f, pendingTasks', flushIdSequence', dispatched', tornDown')
<1>6. \A f \in Frames : Known(f) => KnownNext(f)
  BY <1>2, <1>5, FrameKept
<1>7. DOMAIN stack = 1 .. Len(stack) /\ \A i \in DOMAIN stack : stack[i] \in Frames /\ Known(stack[i])
  BY <1>1 DEF Bounded
<1>8. ASSUME NEW f, NewFrame(f) PROVE KnownNext(f)
  <2>1. CASE Pumping(f)
    <3>1. f.arg \in Nat /\ f.arg <= flushIdSequence /\ f.op \in {"pump", "end"}
      BY <1>1, <2>1 DEF Pumping, Bounded
    <3>2. f.arg < flushIdSequence' /\ f.upTo <= dispatched'
      BY <1>1, <2>1, <3>1 DEF Pumping
    <3>3. \A i \in DOMAIN pendingTasks : pendingTasks[i].task <= f.upTo
      BY <2>1 DEF Pumping, Bounded
    <3>4. f.op = "pump" => \A i \in DOMAIN pendingTasks : pendingTasks[i].flushId <= f.arg
      BY <2>1 DEF Pumping, PendingSorted
    <3>5. pendingTasks' = pendingTasks
      BY <2>1 DEF Pumping
    <3> QED
      BY <3>1, <3>2, <3>3, <3>4, <3>5 DEF FrameOK
  <2>2. CASE f.op \notin {"pump", "end", "close"}
    BY <2>2 DEF FrameOK
  <2> QED
    BY <1>8, <2>1, <2>2 DEF NewFrame
<1> HIDE DEF Known, KnownNext
<1>9. SUFFICES \A i \in DOMAIN stack' : KnownNext(stack'[i])
  BY <1>3, <1>4 DEF Bounded, KnownNext
<1>10. CASE stack' = stack
  BY <1>6, <1>7, <1>10
<1>11. CASE Pushing
  <2>1. PICK f \in Frames : stack' = Append(stack, f) /\ NewFrame(f)
    BY <1>11 DEF Pushing
  <2>2. KnownNext(f)
    BY <1>8, <2>1
  <2>3. /\ DOMAIN stack' = 1 .. Len(stack) + 1 /\ stack'[Len(stack) + 1] = f /\ Len(stack) \in Nat
        /\ \A i \in 1 .. Len(stack) : stack'[i] = stack[i]
    BY <1>1, <2>1, Pushed
  <2> QED
    BY <1>6, <1>7, <2>2, <2>3
<1>12. CASE Popping
  <2>1. /\ DOMAIN stack' = 1 .. Len(stack) - 1 /\ Len(stack) \in Nat
        /\ \A i \in 1 .. Len(stack) - 1 : stack'[i] = stack[i]
    BY <1>1, <1>12, Popped DEF Popping
  <2> QED
    BY <1>6, <1>7, <2>1
<1>13. CASE Retopping
  <2>1. PICK f \in Frames : stack # <<>> /\ stack' = Append(Pop(stack), f) /\ NewFrame(f)
    BY <1>13 DEF Retopping
  <2>2. KnownNext(f)
    BY <1>8, <2>1
  <2>3. /\ Pop(stack) \in Seq(Frames) /\ Len(Pop(stack)) = Len(stack) - 1 /\ Len(stack) \in Nat \ {0}
        /\ \A i \in 1 .. Len(stack) - 1 : Pop(stack)[i] = stack[i]
    BY <1>1, <2>1, Popped
  <2>4. /\ DOMAIN stack' = 1 .. Len(stack) /\ stack'[Len(stack)] = f
        /\ \A i \in 1 .. Len(stack) - 1 : stack'[i] = Pop(stack)[i]
    BY <2>1, <2>3, Pushed
  <2> QED
    BY <1>6, <1>7, <2>2, <2>3, <2>4
<1>14. CASE FlushDone \/ BodySkipped
  <2>1. UNCHANGED <<pendingTasks, flushIdSequence, dispatched, tornDown>>
    BY <1>14 DEF FlushDone, BodySkipped, taskVars
  <2>2. CASE FlushDone
    <3>1. stack # <<>> /\ ~Runnable(stack[Len(stack)].arg) /\ LeaveLoop(stack, pc)
      BY <2>2 DEF FlushDone, TopIn, Top
    <3> QED
      BY <1>1, <1>7, <2>1, <3>1, LeftFrames DEF Known, KnownNext
  <2>3. CASE BodySkipped
    <3>1. stack # <<>> /\ tornDown /\ LeaveLoop(Pop(stack), DiscountedPc)
      BY <2>3 DEF BodySkipped, OnTop
    <3>2. /\ Pop(stack) \in Seq(Frames) /\ DOMAIN Pop(stack) = 1 .. Len(stack) - 1 /\ Len(stack) \in Nat
          /\ \A i \in 1 .. Len(stack) - 1 : Pop(stack)[i] = stack[i]
      BY <1>1, <3>1, Popped
    <3>3. \A i \in DOMAIN Pop(stack) : Known(Pop(stack)[i])
      BY <1>7, <3>2
    <3> QED
      BY <1>1, <2>1, <3>1, <3>2, <3>3, LeftFrames DEF Known, KnownNext
  <2> QED
    BY <1>14, <2>2, <2>3
<1> QED
  BY <1>10, <1>11, <1>12, <1>13, <1>14, StackSteps

-----------------------------------------------------------------------------
(* Who flushes a task goes on to be there until the task is taken. *)

LEMMA PostKept ==
  ASSUME TypeOK, [Next]_vars, NEW i \in DOMAIN mainQueue, mainQueue[i].op = "flush"
  PROVE  \/ \E j \in DOMAIN mainQueue' : mainQueue'[j] = mainQueue[i]
         \/ \E f \in Frames : stack' = <<f>> /\ f.op = "flush" /\ f.arg = mainQueue[i].arg
<1> USE DEF idleVars, countVars, taskVars, threadVars
<1>1. mainQueue \in Seq(Posts) /\ i \in 1 .. Len(mainQueue)
  BY TypeParts DEF OtherTypes
<1>2. CASE mainQueue' = mainQueue
  BY <1>2
<1>3. CASE \E x \in Posts : mainQueue' = Append(mainQueue, x)
  BY <1>1, <1>3, Pushed
<1>4. CASE /\ mainQueue # <<>> /\ Head(mainQueue).op = "idle"
           /\ \/ mainQueue' = Tail(mainQueue)
              \/ \E x \in Posts : mainQueue' = Append(Tail(mainQueue), x)
  <2>1. /\ Tail(mainQueue) \in Seq(Posts) /\ Len(Tail(mainQueue)) = Len(mainQueue) - 1
        /\ DOMAIN Tail(mainQueue) = 1 .. Len(mainQueue) - 1
        /\ \A k \in 1 .. Len(mainQueue) - 1 : Tail(mainQueue)[k] = mainQueue[k + 1]
    BY <1>1, <1>4
  <2>2. i # 1 /\ Len(mainQueue) \in Nat
    BY <1>1, <1>4
  <2>3. i - 1 \in 1 .. Len(mainQueue) - 1 /\ (i - 1) + 1 = i
    BY <1>1, <2>2
  <2>4. Tail(mainQueue)[i - 1] = mainQueue[i] /\ i - 1 \in 1 .. Len(Tail(mainQueue))
    BY <2>1, <2>3
  <2>5. CASE mainQueue' = Tail(mainQueue)
    BY <2>1, <2>3, <2>4, <2>5
  <2>6. CASE \E x \in Posts : mainQueue' = Append(Tail(mainQueue), x)
    <3>1. PICK x \in Posts : mainQueue' = Append(Tail(mainQueue), x)
      BY <2>6
    <3>2. i - 1 \in DOMAIN mainQueue' /\ mainQueue'[i - 1] = mainQueue[i]
      <4>1. /\ DOMAIN Append(Tail(mainQueue), x) = 1 .. Len(Tail(mainQueue)) + 1
            /\ Len(Tail(mainQueue)) \in Nat
            /\ \A k \in 1 .. Len(Tail(mainQueue)) : Append(Tail(mainQueue), x)[k] = Tail(mainQueue)[k]
        BY <2>1, Pushed
      <4> QED
        BY <2>4, <3>1, <4>1
    <3> QED
      BY <3>2
  <2> QED
    BY <1>4, <2>5, <2>6
<1>5. CASE PostedFlush
  <2> DEFINE f == [Frame("flush", Head(mainQueue).arg) EXCEPT !.by = Head(mainQueue).by]
  <2>1. mainQueue # <<>> /\ Head(mainQueue) = mainQueue[1] /\ mainQueue[1] \in Posts
    BY <1>1, <1>5 DEF PostedFlush
  <2>2. f \in Frames /\ f.op = "flush" /\ f.arg = mainQueue[1].arg
    BY <2>1 DEF Frame, Frames, Posts, Op, Everyone, Nobody
  <2>3. stack' = <<f>> /\ mainQueue' = Tail(mainQueue)
    BY <1>5 DEF PostedFlush
  <2>4. CASE i = 1
    BY <2>2, <2>3, <2>4
  <2>5. CASE i # 1
    <3>1. /\ DOMAIN Tail(mainQueue) = 1 .. Len(mainQueue) - 1 /\ Len(mainQueue) \in Nat
          /\ \A k \in 1 .. Len(mainQueue) - 1 : Tail(mainQueue)[k] = mainQueue[k + 1]
      BY <1>1, <2>1
    <3>2. i - 1 \in 1 .. Len(mainQueue) - 1 /\ (i - 1) + 1 = i
      BY <1>1, <2>5, <3>1
    <3> QED
      BY <2>3, <3>1, <3>2
  <2> QED
    BY <2>4, <2>5
<1>6. CASE UNCHANGED vars
  BY <1>2, <1>6 DEF vars
<1>7. ASSUME NEW t \in Everyone, Call(t) \/ Continue(t) \/ WaitTimeout(t)
      PROVE  mainQueue' = mainQueue \/ \E x \in Posts : mainQueue' = Append(mainQueue, x)
  <2>1. CASE OnIdle(t)
    <3>1. IdlePost(tasksSequence) \in Posts
      BY DEF TypeOK, IdlePost, Posts, Everyone, Nobody
    <3> QED
      BY <2>1, <3>1 DEF OnIdle
  <2>2. CASE ScheduleFlush(t)
    <3>1. [op |-> "flush", arg |-> job[t].flushId, by |-> IF job[t].sync THEN t ELSE Nobody] \in Posts
      BY DEF TypeOK, Posts, Everyone, Nobody
    <3> QED
      BY <2>2, <3>1 DEF ScheduleFlush
  <2>3. CASE ~OnIdle(t) /\ ~ScheduleFlush(t)
    BY <1>7, <2>3 DEF Call, Continue, DispatchBegin, WaitBegin, WaitAgain, WaitTimeout, WaitTurn,
      TearDownBegin, TearDownLocked, DispatchLocked
  <2> QED
    BY <2>1, <2>2, <2>3
<1>8. CASE CallOnMain
  BY <1>2, <1>8 DEF CallOnMain, BeginBatch, FlushUpToNow, RunNextTask, PopTask
<1>9. CASE CloseBatch
  <2>1. [op |-> "flush", arg |-> batchFlushId, by |-> Nobody] \in Posts
    BY DEF TypeOK, Posts, Everyone, Nobody
  <2> QED
    BY <1>2, <1>3, <1>9, <2>1 DEF CloseBatch
<1>10. CASE IdleNotYet \/ RunIdleCallback
  <2>1. IdlePost(tasksSequence) \in Posts
    BY DEF TypeOK, IdlePost, Posts, Everyone, Nobody
  <2> QED
    BY <1>4, <1>10, <2>1 DEF IdleNotYet, RunIdleCallback, PostedIdle
<1>11. CASE FlushNext \/ FlushDone \/ BodyBegin \/ BodyEnd \/ BodySkipped \/ EndInnerBatch
            \/ EndLastBatch \/ CallbackEnd
  BY <1>2, <1>11 DEF FlushNext, FlushDone, BodyBegin, BodyEnd, BodySkipped, EndInnerBatch,
    EndLastBatch, CallbackEnd, PopTask
<1> QED
  BY <1>2, <1>3, <1>5, <1>6, <1>7, <1>8, <1>9, <1>10, <1>11 DEF Next, ContinueOnMain, Everyone

LEMMA LeftPc ==
  ASSUME NEW s, NEW p \in PcType, LeaveLoop(s, p), NEW t \in Everyone, pc'[t] # p[t]
  PROVE  p[t] = "waitSync" /\ pc'[t] = "idle"
  BY DEF LeaveLoop, Released, PcType

LEMMA PosterKept ==
  ASSUME TypeOK, [Next]_vars, NEW t \in Everyone, pc[t] = "post"
  PROVE  (pc'[t] = "post" /\ job'[t] = job[t]) \/ ScheduleFlush(t)
<1> USE DEF idleVars, countVars, taskVars, threadVars
<1>1. /\ pc \in PcType /\ DiscountedPc \in PcType /\ DiscountedPc[t] = "post"
      /\ job \in [Everyone -> [task : Nat, flushId : Nat, sync : BOOLEAN]]
  BY TypeParts DEF OtherTypes, DiscountedPc, Notified, PcType
<1>2. ASSUME NEW u \in Everyone, Call(u) \/ Continue(u) \/ WaitTimeout(u), ~ScheduleFlush(t)
      PROVE  pc'[t] = "post" /\ job'[t] = job[t]
  <2>1. CASE DispatchLocked(u)
    <3>1. u # t
      BY <2>1 DEF DispatchLocked
    <3>2. pc'[t] = pc[t] /\ job'[t] = job[t]
      BY <1>1, <2>1, <3>1 DEF DispatchLocked, Parked, Stamped, PcType
    <3> QED
      BY <3>2
  <2>2. CASE ScheduleFlush(u)
    <3>1. u # t
      BY <1>2, <2>2
    <3> QED
      BY <1>1, <2>2, <3>1 DEF ScheduleFlush, PcType
  <2>3. CASE Call(u) \/ WaitAgain(u) \/ WaitTimeout(u)
    <3>1. u # t
      BY <2>3 DEF Call, DispatchBegin, OnIdle, WaitBegin, WaitAgain, WaitTimeout, TearDownBegin, Free
    <3> QED
      BY <1>1, <2>3, <3>1 DEF Call, DispatchBegin, OnIdle, WaitBegin, WaitAgain, WaitTimeout, WaitTurn,
        TearDownBegin, PcType
  <2>4. CASE TearDownLocked(u)
    <3>1. u # t
      BY <2>4 DEF TearDownLocked
    <3> QED
      BY <1>1, <2>4, <3>1 DEF TearDownLocked, Notified, PcType
  <2> QED
    BY <1>2, <2>1, <2>2, <2>3, <2>4 DEF Continue
<1>3. CASE UNCHANGED threadVars
  BY <1>3
<1>4. CASE BodyEnd
  BY <1>1, <1>4 DEF BodyEnd
<1>5. CASE FlushDone
  <2>1. \A q \in Everyone : pc'[q] # pc[q] => pc[q] = "waitSync"
    BY <1>1, <1>5, LeftPc DEF FlushDone
  <2> QED
    BY <1>5, <2>1 DEF FlushDone
<1>6. CASE BodySkipped
  <2>1. \A q \in Everyone : pc'[q] # DiscountedPc[q] => DiscountedPc[q] = "waitSync"
    BY <1>1, <1>6, LeftPc DEF BodySkipped
  <2> QED
    BY <1>1, <1>6, <2>1 DEF BodySkipped
<1>7. CASE CloseBatch
  BY <1>1, <1>7 DEF CloseBatch, Notified, PcType
<1>8. CASE CallOnMain
  BY <1>3, <1>8 DEF CallOnMain, BeginBatch, FlushUpToNow, RunNextTask, PopTask
<1>9. CASE PostedFlush \/ FlushNext \/ BodyBegin \/ EndInnerBatch \/ EndLastBatch \/ IdleNotYet
           \/ RunIdleCallback \/ CallbackEnd
  BY <1>3, <1>9 DEF PostedFlush, FlushNext, BodyBegin, EndInnerBatch, EndLastBatch, IdleNotYet,
    RunIdleCallback, CallbackEnd, PostedIdle, PopTask
<1>10. CASE UNCHANGED vars
  BY <1>3, <1>10 DEF vars
<1> QED
  BY <1>2, <1>4, <1>5, <1>6, <1>7, <1>8, <1>9, <1>10 DEF Next, ContinueOnMain, Everyone

LEMMA LoopKept ==
  ASSUME TypeOK, PendingSorted, [Next]_vars, ~tornDown, NEW n \in Nat,
         \E i \in DOMAIN stack : stack[i].op \in Loops /\ stack[i].arg >= n
  PROVE  \/ \E i \in DOMAIN stack' : stack'[i].op \in Loops /\ stack'[i].arg >= n
         \/ pendingTasks' = pendingTasks /\ \A i \in DOMAIN pendingTasks : n < pendingTasks[i].flushId
<1>1. PICK i \in DOMAIN stack : stack[i].op \in Loops /\ stack[i].arg >= n
  OBVIOUS
<1>2. stack \in Seq(Frames) /\ i \in 1 .. Len(stack) /\ Len(stack) \in Nat
      /\ pc \in PcType
  BY TypeParts DEF OtherTypes
<1>3. CASE stack' = stack
  BY <1>1, <1>3
<1>4. CASE Pushing
  <2>1. PICK f \in Frames : stack' = Append(stack, f)
    BY <1>4 DEF Pushing
  <2>2. i \in DOMAIN stack' /\ stack'[i] = stack[i]
    BY <1>2, <2>1, Pushed
  <2> QED
    BY <1>1, <2>2
<1>5. CASE Popping \/ Retopping
  <2>1. stack # <<>> /\ i # Len(stack)
    BY <1>1, <1>5 DEF Popping, Retopping, Top
  <2>0. i \in 1 .. Len(stack) - 1
    BY <1>2, <2>1
  <2>2. /\ Pop(stack) \in Seq(Frames) /\ DOMAIN Pop(stack) = 1 .. Len(stack) - 1
        /\ Len(Pop(stack)) = Len(stack) - 1 /\ i \in 1 .. Len(stack) - 1
        /\ Pop(stack)[i] = stack[i]
    BY <1>2, <2>0, <2>1, Popped
  <2>3. i \in DOMAIN stack' /\ stack'[i] = stack[i]
    <3>1. CASE Popping
      BY <2>2, <3>1 DEF Popping
    <3>2. CASE Retopping
      <4>1. PICK f \in Frames : stack' = Append(Pop(stack), f)
        BY <3>2 DEF Retopping
      <4> QED
        BY <2>2, <4>1, Pushed
    <3> QED
      BY <1>5, <3>1, <3>2
  <2> QED
    BY <1>1, <2>3
<1>6. CASE FlushDone
  <2>1. stack # <<>> /\ Top.op \in Loops /\ ~Runnable(Top.arg) /\ LeaveLoop(stack, pc)
        /\ pendingTasks' = pendingTasks
    BY <1>6 DEF FlushDone, TopIn, taskVars
  <2>2. CASE i = Len(stack)
    <3>1. Top.arg \in Nat /\ Top.arg >= n
      <4>1. Top \in Frames /\ Top = stack[i]
        BY <1>2, <2>2 DEF Top
      <4> QED
        BY <1>1, <4>1 DEF Frames
    <3>2. \A j \in DOMAIN pendingTasks : Top.arg < pendingTasks[j].flushId
      BY <2>1, <3>1, NotRunnable
    <3>3. \A j \in DOMAIN pendingTasks : pendingTasks[j].flushId \in Nat
      BY PendingType
    <3> QED
      BY <2>1, <3>1, <3>2, <3>3
  <2>3. CASE i # Len(stack)
    <3>1. /\ stack' \in Seq(Frames) /\ Len(stack') \in Nat
          /\ Len(stack') # Len(stack) => Len(stack') = Len(stack) - 1
      BY <1>2, <2>1, Left
    <3>2. \A k \in 1 .. Len(stack') : stack'[k] = stack[k] \/ k = Len(stack)
      BY <1>2, <2>1, Left
    <3>3. i \in 1 .. Len(stack')
      BY <1>2, <2>3, <3>1
    <3>4. i \in DOMAIN stack' /\ stack'[i] = stack[i]
      <4>1. stack' \in Seq(Frames)
        BY <3>1
      <4>2. DOMAIN stack' = 1 .. Len(stack')
        BY <4>1
      <4> QED
        BY <2>3, <3>2, <3>3, <4>2
    <3> QED
      BY <1>1, <3>4
  <2> QED
    BY <2>2, <2>3
<1>7. CASE BodySkipped
  BY <1>7 DEF BodySkipped
<1> QED
  BY <1>3, <1>4, <1>5, <1>6, <1>7, StackSteps
(* Only the dispatch of a task stamps one. *)
LEMMA OnlyDispatch ==
  ASSUME [Next]_vars, dispatched' # dispatched PROVE \E t \in Everyone : DispatchLocked(t)
<1> USE DEF taskVars
<1>1. CASE UNCHANGED vars
  BY <1>1 DEF vars
<1>2. ASSUME NEW t \in Everyone, Call(t) \/ Continue(t) \/ WaitTimeout(t), ~DispatchLocked(t) PROVE FALSE
  BY <1>2 DEF Call, Continue, DispatchBegin, OnIdle, WaitBegin, WaitAgain, WaitTimeout, WaitTurn,
    TearDownBegin, TearDownLocked, ScheduleFlush
<1>3. CASE CallOnMain
  BY <1>3 DEF CallOnMain, BeginBatch, FlushUpToNow, RunNextTask, PopTask
<1>4. CASE ContinueOnMain
  BY <1>4 DEF ContinueOnMain, PostedFlush, FlushNext, FlushDone, BodyBegin, BodyEnd, BodySkipped,
    EndInnerBatch, EndLastBatch, CloseBatch, IdleNotYet, RunIdleCallback, CallbackEnd, PostedIdle,
    PopTask
<1> QED
  BY <1>1, <1>2, <1>3, <1>4 DEF Next, Everyone


LEMMA BatchKept ==
  ASSUME TypeOK, Counted, [Next]_vars, NEW n \in Nat, n <= flushIdSequence,
         batchCount > 0, batchFlushId >= n
  PROVE  (batchCount' > 0 /\ batchFlushId' >= n) \/ CloseBatch
<1> USE DEF idleVars, countVars, taskVars, threadVars
<1>1. batchCount \in Nat /\ batchFlushId \in Nat /\ flushIdSequence \in Nat
  BY TypeParts DEF OtherTypes
<1>2. batchFlushId' >= n
  <2>1. Dispatching \/ Taking \/ Keeping
    BY QueueSteps
  <2> QED
    BY <1>1, <2>1 DEF Dispatching, Taking, Keeping
<1>3. CASE batchCount' = batchCount
  BY <1>2, <1>3
<1>4. ASSUME NEW t \in Everyone, Call(t) \/ Continue(t) \/ (t \in Threads /\ WaitTimeout(t))
      PROVE  batchCount' = batchCount
  BY <1>4, TypeParts, TypeStepThreads
<1>5. CASE BeginBatch \/ EndInnerBatch
  BY <1>1, <1>2, <1>5 DEF BeginBatch, EndInnerBatch
<1>6. CASE FlushUpToNow \/ RunNextTask \/ UNCHANGED vars
  BY <1>3, <1>6 DEF FlushUpToNow, RunNextTask, PopTask, vars
<1>7. CASE ContinueOnMain /\ ~EndInnerBatch /\ ~CloseBatch
  BY <1>3, <1>7 DEF ContinueOnMain, PostedFlush, FlushNext, FlushDone, BodyBegin, BodyEnd, BodySkipped,
    EndLastBatch, IdleNotYet, RunIdleCallback, CallbackEnd, PostedIdle, PopTask
<1> QED
  BY <1>3, <1>4, <1>5, <1>6, <1>7 DEF Next, CallOnMain, Everyone

LEMMA StrandedStep ==
  ASSUME TypeOK, Counted, Nested, PendingSorted, Bounded, NoStrandedTask, [Next]_vars
  PROVE  NoStrandedTask'
<1> DEFINE
      ByPost(n)   == \E i \in DOMAIN mainQueue' : mainQueue'[i].op = "flush" /\ mainQueue'[i].arg >= n
      ByThread(n) == \E t \in Everyone : pc'[t] = "post" /\ job'[t].flushId >= n
      ByLoop(n)   == \E i \in DOMAIN stack' : stack'[i].op \in Loops /\ stack'[i].arg >= n
      ByBatch(n)  == batchCount' > 0 /\ batchFlushId' >= n
      Reached(n)    == ByPost(n) \/ ByThread(n) \/ ByLoop(n) \/ ByBatch(n)
<1>1. SUFFICES ASSUME ~tornDown', NEW k \in DOMAIN pendingTasks' PROVE Reached(pendingTasks'[k].flushId)
  BY DEF NoStrandedTask, Covered
<1> HIDE DEF ByPost, ByThread, ByLoop, ByBatch
<1>2. ~tornDown
  BY <1>1, StaysTornDown
<1>3. /\ stack \in Seq(Frames) /\ mainQueue \in Seq(Posts) /\ pc \in PcType
      /\ job \in [Everyone -> [task : Nat, flushId : Nat, sync : BOOLEAN]]
      /\ flushIdSequence \in Nat /\ batchFlushId \in Nat /\ batchCount \in Nat
  BY TypeParts DEF OtherTypes
<1>4. Dispatching \/ Taking \/ Keeping
  BY QueueSteps
<1>5. \A j \in DOMAIN pendingTasks :
        pendingTasks[j].flushId \in Nat /\ pendingTasks[j].flushId <= flushIdSequence
  BY PendingType DEF PendingSorted
<1>6. ASSUME NEW j \in DOMAIN pendingTasks, pendingTasks'[k] = pendingTasks[j]
      PROVE  Reached(pendingTasks[j].flushId)
  <2> DEFINE n == pendingTasks[j].flushId
  <2>1. n \in Nat /\ n <= flushIdSequence /\ Covered(n)
    BY <1>2, <1>5 DEF NoStrandedTask
  <2> HIDE DEF n
  <2>2. CASE \E i \in DOMAIN mainQueue : mainQueue[i].op = "flush" /\ mainQueue[i].arg >= n
    <3>1. PICK i \in DOMAIN mainQueue : mainQueue[i].op = "flush" /\ mainQueue[i].arg >= n
      BY <2>2
    <3>2. CASE \E q \in DOMAIN mainQueue' : mainQueue'[q] = mainQueue[i]
      BY <3>1, <3>2 DEF ByPost, n
    <3>3. CASE \E f \in Frames : stack' = <<f>> /\ f.op = "flush" /\ f.arg = mainQueue[i].arg
      <4>1. PICK f \in Frames : stack' = <<f>> /\ f.op = "flush" /\ f.arg = mainQueue[i].arg
        BY <3>3
      <4>2. 1 \in DOMAIN stack' /\ stack'[1] = f
        BY <4>1
      <4>3. stack'[1].op \in Loops /\ stack'[1].arg >= n
        BY <3>1, <4>1, <4>2 DEF Loops
      <4>4. ByLoop(n)
        BY <4>2, <4>3 DEF ByLoop
      <4> QED
        BY <4>4 DEF n
    <3> QED
      BY <3>1, <3>2, <3>3, PostKept
  <2>3. CASE \E t \in Everyone : pc[t] = "post" /\ job[t].flushId >= n
    <3>1. PICK t \in Everyone : pc[t] = "post" /\ job[t].flushId >= n
      BY <2>3
    <3>2. CASE pc'[t] = "post" /\ job'[t] = job[t]
      BY <3>1, <3>2 DEF ByThread, n
    <3>3. CASE ScheduleFlush(t)
      <4> DEFINE m == [op |-> "flush", arg |-> job[t].flushId, by |-> IF job[t].sync THEN t ELSE Nobody]
      <4>1. m \in Posts /\ mainQueue' = Append(mainQueue, m)
        BY <1>3, <3>3 DEF ScheduleFlush, Posts, Everyone, Nobody
      <4>2. Len(mainQueue) + 1 \in DOMAIN mainQueue' /\ mainQueue'[Len(mainQueue) + 1] = m
        BY <1>3, <4>1, Pushed
      <4>3. m.op = "flush" /\ m.arg >= n
        BY <3>1
      <4> HIDE DEF m
      <4>4. ByPost(n)
        BY <4>2, <4>3 DEF ByPost
      <4> QED
        BY <4>4 DEF n
    <3> QED
      BY <3>1, <3>2, <3>3, PosterKept
  <2>4. CASE \E i \in DOMAIN stack : stack[i].op \in Loops /\ stack[i].arg >= n
    <3>1. \/ ByLoop(n)
          \/ pendingTasks' = pendingTasks /\ \A i \in DOMAIN pendingTasks : n < pendingTasks[i].flushId
      BY <1>2, <2>1, <2>4, LoopKept DEF ByLoop
    <3>2. ~(\A i \in DOMAIN pendingTasks : n < pendingTasks[i].flushId)
      BY <2>1 DEF n
    <3> QED
      BY <3>1, <3>2 DEF n
  <2>5. CASE batchCount > 0 /\ batchFlushId >= n
    <3>1. CASE batchCount' > 0 /\ batchFlushId' >= n
      BY <3>1 DEF ByBatch, n
    <3>2. CASE CloseBatch
      <4> DEFINE m == [op |-> "flush", arg |-> batchFlushId, by |-> Nobody]
      <4>1. Top.op = "close" /\ Len(stack) \in DOMAIN stack
        BY <1>3, <3>2, Popped DEF CloseBatch, OnTop
      <4>2. FrameOK(Top, pendingTasks, flushIdSequence, dispatched, tornDown)
        BY <4>1 DEF Bounded, Top
      <4>3. Top.arg < n
        BY <1>2, <4>1, <4>2 DEF FrameOK, n
      <4>4. Top.arg # batchFlushId
        BY <1>3, <2>1, <2>5, <4>3
      <4>5. m \in Posts /\ mainQueue' = Append(mainQueue, m)
        BY <1>3, <3>2, <4>4 DEF CloseBatch, Posts, Everyone, Nobody
      <4>6. Len(mainQueue) + 1 \in DOMAIN mainQueue' /\ mainQueue'[Len(mainQueue) + 1] = m
        BY <1>3, <4>5, Pushed
      <4>7. m.op = "flush" /\ m.arg >= n
        BY <2>5
      <4> HIDE DEF m
      <4>8. ByPost(n)
        BY <4>6, <4>7 DEF ByPost
      <4> QED
        BY <4>8 DEF n
    <3> QED
      BY <2>1, <2>5, <3>1, <3>2, BatchKept
  <2> QED
    BY <2>1, <2>2, <2>3, <2>4, <2>5 DEF Covered
<1>7. CASE Dispatching /\ pendingTasks'[k].flushId = flushIdSequence'
  <2>1. PICK t \in Everyone : DispatchLocked(t)
    <3>1. dispatched' # dispatched
      BY <1>7 DEF Dispatching, TypeOK
    <3> QED
      BY <3>1, OnlyDispatch
  <2>2. CASE Parked(t)
    <3>1. batchCount' > 0 /\ batchFlushId' = flushIdSequence' /\ flushIdSequence' \in Nat
      BY <1>3, <2>1, <2>2 DEF DispatchLocked, Parked, countVars
    <3>2. ByBatch(flushIdSequence')
      BY <3>1 DEF ByBatch
    <3> QED
      BY <1>7, <3>2
  <2>3. CASE Stamped(t)
    <3>1. pc'[t] = "post" /\ job'[t].flushId = flushIdSequence' /\ flushIdSequence' \in Nat
      <4>1. pc'[t] = "post" /\ flushIdSequence' \in Nat
        BY <1>3, <2>3 DEF Stamped, PcType
      <4>2. job'[t].flushId = flushIdSequence'
        BY <1>3, <2>1 DEF DispatchLocked
      <4> QED
        BY <4>1, <4>2
    <3>2. ByThread(flushIdSequence')
      BY <3>1 DEF ByThread
    <3> QED
      BY <1>7, <3>2
  <2> QED
    BY <2>1, <2>2, <2>3 DEF DispatchLocked
<1> QED
  <2>1. CASE \E j \in DOMAIN pendingTasks : pendingTasks'[k] = pendingTasks[j]
    BY <1>6, <2>1
  <2> QED
    BY <1>4, <1>7, <2>1, PendingAfter

-----------------------------------------------------------------------------
(* A thread that waits is told. *)

LEMMA PcSteps ==
  ASSUME TypeOK, [Next]_vars, NEW t \in Everyone, pc'[t] # pc[t]
  PROVE  \/ Call(t) \/ Continue(t) \/ WaitTimeout(t)
         \/ pc[t] = "asleep" /\ pc'[t] = "awake"
         \/ pc[t] = "waitSync" /\ pc'[t] = "idle"
<1> USE DEF threadVars
<1>1. /\ pc \in PcType /\ DiscountedPc \in PcType
      /\ DiscountedPc[t] # pc[t] => pc[t] = "asleep" /\ DiscountedPc[t] = "awake"
      /\ Notified(pc)[t] # pc[t] => pc[t] = "asleep" /\ Notified(pc)[t] = "awake"
  BY TypeParts DEF OtherTypes, DiscountedPc, Notified, PcType
<1>2. ASSUME NEW u \in Everyone, u # t, Call(u) \/ Continue(u) \/ WaitTimeout(u)
      PROVE  pc[t] = "asleep" /\ pc'[t] = "awake"
  <2>1. CASE TearDownLocked(u)
    BY <1>1, <1>2, <2>1 DEF TearDownLocked, Notified, PcType
  <2>2. CASE ~TearDownLocked(u)
    <3>1. \E v : pc' = [pc EXCEPT ![u] = v] \/ pc' = pc
      BY <1>2, <2>2 DEF Call, Continue, DispatchBegin, OnIdle, WaitBegin, WaitAgain, WaitTimeout, WaitTurn,
        TearDownBegin, DispatchLocked, Parked, Stamped, ScheduleFlush
    <3> QED
      BY <1>1, <1>2, <3>1 DEF PcType
  <2> QED
    BY <2>1, <2>2
<1>3. CASE UNCHANGED vars
  BY <1>3 DEF vars
<1>4. CASE BodyEnd \/ CloseBatch
  BY <1>1, <1>4 DEF BodyEnd, CloseBatch
<1>5. CASE FlushDone
  BY <1>1, <1>5, LeftPc DEF FlushDone
<1>6. CASE BodySkipped
  <2>1. LeaveLoop(Pop(stack), DiscountedPc)
    BY <1>6 DEF BodySkipped
  <2>2. CASE pc'[t] # DiscountedPc[t]
    BY <1>1, <2>1, <2>2, LeftPc
  <2>3. CASE pc'[t] = DiscountedPc[t]
    BY <1>1, <2>3
  <2> QED
    BY <2>2, <2>3
<1>7. CASE CallOnMain
  BY <1>7 DEF CallOnMain, BeginBatch, FlushUpToNow, RunNextTask, PopTask
<1>8. CASE PostedFlush \/ FlushNext \/ BodyBegin \/ EndInnerBatch \/ EndLastBatch \/ IdleNotYet
           \/ RunIdleCallback \/ CallbackEnd
  BY <1>8 DEF PostedFlush, FlushNext, BodyBegin, EndInnerBatch, EndLastBatch, IdleNotYet,
    RunIdleCallback, CallbackEnd, PostedIdle, PopTask
<1> QED
  BY <1>2, <1>3, <1>4, <1>5, <1>6, <1>7, <1>8 DEF Next, ContinueOnMain, Everyone

(* What is waited for does not become true under a thread that sleeps on. *)
LEMMA QuiescentStep ==
  ASSUME TypeOK, Counted, Nested, [Next]_vars, ~Quiescent, NEW t \in Threads,
         pc[t] = "asleep", pc'[t] = "asleep"
  PROVE  ~Quiescent'
<1> USE DEF taskVars, countVars, idleVars, threadVars
<1>1. /\ pc \in PcType /\ t \in Everyone /\ batchCount \in Nat /\ executingTaskCount \in Nat
      /\ stack \in Seq(Frames) /\ pendingTasks \in Seq(Pending) /\ DiscountedPc \in PcType
  BY TypeParts DEF OtherTypes, Everyone, DiscountedPc, Notified, PcType
<1>2. Notified(pc)[t] = "awake"
  BY <1>1 DEF Notified, PcType
<1>3. CASE UNCHANGED <<pendingTasks, batchCount, executingTaskCount>>
  BY <1>3 DEF Quiescent
<1>4. CASE PopTask
  BY <1>1, <1>4 DEF PopTask, Quiescent
<1>5. CASE BodyEnd \/ BodySkipped
  <2>1. DiscountedPc[t] = "asleep"
    <3>1. CASE BodyEnd
      BY <3>1 DEF BodyEnd
    <3>2. CASE BodySkipped
      <4>1. LeaveLoop(Pop(stack), DiscountedPc)
        BY <3>2 DEF BodySkipped
      <4>2. pc'[t] # DiscountedPc[t] => pc'[t] = "idle"
        BY <1>1, <4>1, LeftPc
      <4> QED
        BY <4>2
    <3> QED
      BY <1>5, <3>1, <3>2
  <2>2. ~(executingTaskCount = 1 /\ pendingTasks = <<>>)
    BY <1>2, <2>1 DEF DiscountedPc
  <2>3. executingTaskCount' = executingTaskCount - 1 /\ UNCHANGED <<pendingTasks, batchCount>>
    BY <1>5 DEF BodyEnd, BodySkipped
  <2>4. executingTaskCount >= 1
    BY <1>5, TopCounted DEF BodyEnd, BodySkipped, OnTop, Bodies
  <2> QED
    BY <1>1, <2>2, <2>3, <2>4 DEF Quiescent
<1>6. CASE BeginBatch \/ EndInnerBatch
  BY <1>1, <1>6 DEF BeginBatch, EndInnerBatch, Quiescent
<1>7. CASE CloseBatch
  BY <1>2, <1>7 DEF CloseBatch
<1>8. ASSUME NEW u \in Everyone, Call(u) \/ Continue(u) \/ WaitTimeout(u)
      PROVE  ~Quiescent'
  <2>1. CASE DispatchLocked(u)
    <3>1. pendingTasks' = Append(pendingTasks, [flushId |-> flushIdSequence', task |-> dispatched'])
      BY <2>1 DEF DispatchLocked
    <3>2. pendingTasks' # <<>>
      BY <1>1, <3>1
    <3> QED
      BY <3>2 DEF Quiescent
  <2>2. CASE TearDownLocked(u)
    <3>1. [pc EXCEPT ![u] = "idle"][t] = "asleep"
      BY <1>1, <2>2 DEF TearDownLocked, PcType
    <3>2. pc'[t] = "awake"
      BY <1>1, <2>2, <3>1 DEF TearDownLocked, Notified
    <3> QED
      BY <3>2
  <2>3. CASE ~DispatchLocked(u) /\ ~TearDownLocked(u)
    BY <1>3, <1>8, <2>3 DEF Call, Continue, DispatchBegin, OnIdle, WaitBegin, WaitAgain, WaitTimeout,
      WaitTurn, TearDownBegin, ScheduleFlush
  <2> QED
    BY <2>1, <2>2, <2>3
<1>9. CASE FlushUpToNow \/ RunNextTask \/ FlushNext \/ UNCHANGED vars
  BY <1>3, <1>4, <1>9 DEF FlushUpToNow, RunNextTask, FlushNext, vars
<1>10. CASE PostedFlush \/ FlushDone \/ BodyBegin \/ EndLastBatch \/ IdleNotYet \/ RunIdleCallback
            \/ CallbackEnd
  BY <1>3, <1>10 DEF PostedFlush, FlushDone, BodyBegin, EndLastBatch, IdleNotYet, RunIdleCallback,
    CallbackEnd, PostedIdle
<1> QED
  BY <1>5, <1>6, <1>7, <1>8, <1>9, <1>10 DEF Next, CallOnMain, ContinueOnMain, Everyone

(* A thread that tears down is there until it has notified. *)
LEMMA TearingStep ==
  ASSUME TypeOK, [Next]_vars, tornDown', NEW t \in Threads, pc[t] = "asleep", pc'[t] = "asleep",
         tornDown => \E u \in Everyone : pc[u] = "tearing"
  PROVE  \E u \in Everyone : pc'[u] = "tearing"
<1> USE DEF idleVars, countVars, taskVars, threadVars
<1>1. pc \in PcType /\ t \in Everyone
  BY TypeParts DEF OtherTypes, Everyone
<1>2. CASE tornDown
  <2>1. PICK u \in Everyone : pc[u] = "tearing"
    BY <1>2
  <2>2. CASE pc'[u] = pc[u]
    BY <2>1, <2>2
  <2>3. CASE pc'[u] # pc[u]
    <3>1. Call(u) \/ Continue(u) \/ WaitTimeout(u)
      BY <2>1, <2>3, PcSteps
    <3>2. TearDownLocked(u)
      BY <2>1, <3>1 DEF Call, Continue, DispatchBegin, OnIdle, WaitBegin, WaitAgain, WaitTimeout,
        TearDownBegin, DispatchLocked, ScheduleFlush, Free
    <3>3. [pc EXCEPT ![u] = "idle"][t] = "asleep"
      BY <1>1, <2>1 DEF PcType
    <3>4. pc'[t] = "awake"
      BY <1>1, <3>2, <3>3 DEF TearDownLocked, Notified
    <3> QED
      BY <3>4
  <2> QED
    BY <2>2, <2>3
<1>3. CASE ~tornDown
  <2>1. \E u \in Everyone : TearDownBegin(u)
    <3>1. ASSUME NEW u \in Everyone, Call(u) \/ Continue(u) \/ WaitTimeout(u), ~TearDownBegin(u)
          PROVE  FALSE
      BY <1>3, <3>1 DEF Call, Continue, DispatchBegin, OnIdle, WaitBegin, WaitAgain, WaitTimeout,
        WaitTurn, TearDownLocked, DispatchLocked, ScheduleFlush
    <3>2. CASE CallOnMain
      BY <1>3, <3>2 DEF CallOnMain, BeginBatch, FlushUpToNow, RunNextTask, PopTask
    <3>3. CASE ContinueOnMain
      BY <1>3, <3>3 DEF ContinueOnMain, PostedFlush, FlushNext, FlushDone, BodyBegin, BodyEnd,
        BodySkipped, EndInnerBatch, EndLastBatch, CloseBatch, IdleNotYet, RunIdleCallback, CallbackEnd,
        PostedIdle, PopTask
    <3>4. CASE UNCHANGED vars
      BY <1>3, <3>4 DEF vars
    <3> QED
      BY <3>1, <3>2, <3>3, <3>4 DEF Next, Everyone
  <2> QED
    BY <1>1, <2>1 DEF TearDownBegin, PcType
<1> QED
  BY <1>2, <1>3

LEMMA WakeupStep ==
  ASSUME TypeOK, Counted, Nested, NoMissedWakeup, [Next]_vars PROVE NoMissedWakeup'
<1>1. SUFFICES ASSUME NEW t \in Threads, pc'[t] = "asleep"
      PROVE  ~Quiescent' /\ (tornDown' => \E u \in Everyone : pc'[u] = "tearing")
  BY DEF NoMissedWakeup, Quiescent
<1>2. CASE pc[t] = "asleep"
  <2>1. ~Quiescent /\ (tornDown => \E u \in Everyone : pc[u] = "tearing")
    BY <1>2 DEF NoMissedWakeup
  <2>2. ~Quiescent'
    BY <1>1, <1>2, <2>1, QuiescentStep
  <2>3. tornDown' => \E u \in Everyone : pc'[u] = "tearing"
    BY <1>1, <1>2, <2>1, TearingStep
  <2> QED
    BY <2>2, <2>3
<1>3. CASE pc[t] # "asleep"
  <2>1. t \in Everyone /\ pc \in PcType
    BY TypeParts DEF OtherTypes, Everyone
  <2>2. Call(t) \/ Continue(t) \/ WaitTimeout(t)
    BY <1>1, <1>3, <2>1, PcSteps
  <2>3. WaitTurn(t)
    <3>1. CASE Call(t) /\ ~WaitBegin(t)
      BY <1>1, <1>3, <2>1, <3>1 DEF Call, DispatchBegin, OnIdle, TearDownBegin, PcType, threadVars
    <3>2. CASE DispatchLocked(t)
      BY <1>1, <2>1, <3>2 DEF DispatchLocked, Parked, Stamped, PcType
    <3>3. CASE ScheduleFlush(t)
      BY <1>1, <2>1, <3>3 DEF ScheduleFlush, PcType
    <3>4. CASE TearDownLocked(t)
      BY <1>1, <2>1, <3>4 DEF TearDownLocked, Notified, PcType
    <3>5. CASE WaitTimeout(t)
      BY <1>3, <3>5 DEF WaitTimeout
    <3> QED
      BY <2>2, <3>1, <3>2, <3>3, <3>4, <3>5 DEF Continue, WaitBegin, WaitAgain
  <2>4. ~Quiescent /\ ~tornDown
    BY <1>1, <2>1, <2>3 DEF WaitTurn, PcType
  <2>5. UNCHANGED <<pendingTasks, batchCount, executingTaskCount, tornDown>>
    BY <2>3 DEF WaitTurn, taskVars, countVars
  <2> QED
    BY <2>4, <2>5 DEF Quiescent
<1> QED
  BY <1>2, <1>3

-----------------------------------------------------------------------------
LEMMA Invariance == Spec => []IInv
<1>1. Init => IInv
  <2> SUFFICES ASSUME Init PROVE IInv
    OBVIOUS
  <2>1. stack = <<>> /\ pendingTasks = <<>> /\ batchFlushId = 0 /\ flushIdSequence = 0
    BY DEF Init
  <2>2. PendingSorted /\ Bounded /\ Nested /\ NoStrandedTask
    BY <2>1 DEF PendingSorted, Bounded, Nested, NestedIn, NoStrandedTask
  <2>3. NoMissedWakeup
    BY DEF Init, NoMissedWakeup, Everyone
  <2> QED
    BY <2>2, <2>3, TypeInit DEF IInv
<1>2. IInv /\ [Next]_vars => IInv'
  <2> SUFFICES ASSUME IInv, [Next]_vars PROVE IInv'
    OBVIOUS
  <2>1. TypeOK /\ Counted /\ PendingSorted /\ Bounded /\ Nested /\ NoStrandedTask /\ NoMissedWakeup
    BY DEF IInv
  <2>2. TypeOK' /\ Counted'
    BY <2>1, TypeStep
  <2>3. PendingSorted' /\ Bounded'
    BY <2>1, SortedStep, BoundedStep
  <2>4. Nested' /\ NoStrandedTask' /\ NoMissedWakeup'
    BY <2>1, NestedStep, StrandedStep, WakeupStep
  <2> QED
    BY <2>2, <2>3, <2>4 DEF IInv
<1> QED
  BY <1>1, <1>2, PTL DEF Spec

(* The variables have their types, the counters never below zero: a task is   *)
(* counted out once for each time it was counted in.                          *)
THEOREM TypeCorrect == Spec => []TypeOK
<1>1. IInv => TypeOK
  BY DEF IInv
<1> QED
  BY <1>1, Invariance, PTL

(* The queue is sorted by flush id, whatever batch is open when a task comes. *)
THEOREM PendingSortedCorrect == Spec => []PendingSorted
<1>1. IInv => PendingSorted
  BY DEF IInv
<1> QED
  BY <1>1, Invariance, PTL

(* A flush that reaches it is coming for every task in the queue.             *)
THEOREM NoStrandedTaskCorrect == Spec => []NoStrandedTask
<1>1. IInv => NoStrandedTask
  BY DEF IInv
<1> QED
  BY <1>1, Invariance, PTL

(* No thread sleeps in waitUntilQuiescent() past what it waits for.           *)
THEOREM NoMissedWakeupCorrect == Spec => []NoMissedWakeup
<1>1. IInv => NoMissedWakeup
  BY DEF IInv
<1> QED
  BY <1>1, Invariance, PTL

(* endBatch() closes the batch it should, and its assertions hold.            *)
THEOREM BatchesBalancedCorrect == Spec => []BatchesBalanced
<1>1. ASSUME IInv PROVE BatchesBalanced
  <2>1. TypeOK /\ Counted /\ Nested
    BY <1>1 DEF IInv
  <2>2. ASSUME OnTop("batch") PROVE batchCount > 0
    <3>1. batchCount >= 1 /\ batchCount \in Nat
      BY <2>1, <2>2, TopCounted DEF OnTop, Batches, TypeOK
    <3> QED
      BY <3>1
  <2>3. ASSUME OnTop("close") PROVE batchCount = 1
    BY <2>1, <2>3, CloseCounts DEF Counted
  <2> QED
    BY <2>2, <2>3 DEF BatchesBalanced
<1> QED
  BY <1>1, Invariance, PTL

(* The frame on top of the stack knows its tasks.                             *)
LEMMA TopKnown ==
  ASSUME IInv, stack # <<>>
  PROVE  /\ FrameOK(Top, pendingTasks, flushIdSequence, dispatched, tornDown)
         /\ Top.arg \in Nat /\ Top.upTo \in Nat
<1>1. TypeOK /\ Bounded /\ stack \in Seq(Frames)
  BY TypeParts DEF IInv
<1>2. Len(stack) \in DOMAIN stack /\ Top \in Frames
  BY <1>1, Popped DEF Top
<1> QED
  BY <1>1, <1>2 DEF Bounded, Top, Frames

(* flushUpToNow() returns when no task dispatched before it is left.          *)
THEOREM PumpsAreCompleteCorrect == Spec => []PumpsAreComplete
<1>1. ASSUME IInv PROVE PumpsAreComplete
  <2> SUFFICES ASSUME OnTop("pump"), ~Runnable(Top.arg), NEW i \in DOMAIN pendingTasks
               PROVE  pendingTasks[i].task > Top.upTo
    BY DEF PumpsAreComplete
  <2>1. TypeOK /\ PendingSorted
    BY <1>1 DEF IInv
  <2>2. /\ FrameOK(Top, pendingTasks, flushIdSequence, dispatched, tornDown) /\ Top.op = "pump"
        /\ Top.arg \in Nat /\ Top.upTo \in Nat
    BY <1>1, TopKnown DEF OnTop
  <2>3. Top.arg < pendingTasks[i].flushId
    BY <2>1, <2>2, NotRunnable
  <2>4. pendingTasks[i].flushId \in Nat /\ pendingTasks[i].task \in Nat
    BY <2>1, PendingType
  <2>5. pendingTasks[i].task <= Top.upTo => pendingTasks[i].flushId <= Top.arg
    BY <2>2 DEF FrameOK
  <2> QED
    BY <2>2, <2>3, <2>4, <2>5
<1> QED
  BY <1>1, Invariance, PTL

(* flushUpToNow() and endBatch() run no task dispatched after they began.     *)
THEOREM PumpsAreBoundedCorrect == Spec => PumpsAreBounded
<1> DEFINE Step == FlushNext /\ Top.op \in {"pump", "end"} => Head(pendingTasks).task <= Top.upTo
<1>1. ASSUME IInv PROVE Step
  <2> SUFFICES ASSUME FlushNext, Top.op \in {"pump", "end"}
               PROVE  Head(pendingTasks).task <= Top.upTo
    OBVIOUS
  <2>1. stack # <<>> /\ Runnable(Top.arg)
    BY DEF FlushNext, TopIn
  <2>2. FrameOK(Top, pendingTasks, flushIdSequence, dispatched, tornDown)
    BY <1>1, <2>1, TopKnown
  <2>3. pendingTasks \in Seq(Pending) /\ pendingTasks # <<>>
    BY <1>1, <2>1, PendingType DEF IInv, Runnable
  <2>4. 1 \in DOMAIN pendingTasks /\ Head(pendingTasks) = pendingTasks[1]
    BY <2>3
  <2> QED
    BY <2>1, <2>2, <2>4 DEF FrameOK, Runnable
<1>2. IInv /\ [Next]_vars => [Step]_vars
  BY <1>1
<1> QED
  BY <1>2, Invariance, PTL DEF Spec, PumpsAreBounded

-----------------------------------------------------------------------------
(* Synchronous dispatches. *)

(* A flush that somebody waits for is at the bottom of the call stack or is    *)
(* posted, once; its thread waits, for a task of that flush id.                *)
Asked ==
  /\ \A i \in DOMAIN stack : stack[i].by # Nobody =>
       /\ i = 1 /\ stack[i].op = "flush"
       /\ pc[stack[i].by] = "waitSync" /\ stack[i].arg = job[stack[i].by].flushId
       /\ \A j \in DOMAIN mainQueue : mainQueue[j].by # stack[i].by
  /\ \A i \in DOMAIN mainQueue : mainQueue[i].by # Nobody =>
       /\ mainQueue[i].op = "flush"
       /\ pc[mainQueue[i].by] = "waitSync" /\ mainQueue[i].arg = job[mainQueue[i].by].flushId
       /\ \A j \in DOMAIN mainQueue : mainQueue[j].by = mainQueue[i].by => j = i

(* The task that a thread posts a flush for, or waits for. *)
Followed ==
  \A t \in Threads : pc[t] \in {"post", "waitSync"} =>
    \/ tornDown
    \/ job[t].task \in finished
    \/ \E i \in DOMAIN pendingTasks :
         pendingTasks[i].task = job[t].task /\ pendingTasks[i].flushId <= job[t].flushId
    \/ \E i \in DOMAIN stack : stack[i].op \in Bodies /\ stack[i].arg = job[t].task

TearingOnce == \A u \in Everyone : pc[u] = "tearing" => tornDown

Awaited == Asked /\ Followed /\ TearingOnce

LEMMA StackTypes ==
  ASSUME TypeOK
  PROVE  /\ stack \in Seq(Frames) /\ DOMAIN stack = 1 .. Len(stack) /\ Len(stack) \in Nat
         /\ \A i \in DOMAIN stack : stack[i] \in Frames
         /\ mainQueue \in Seq(Posts) /\ DOMAIN mainQueue = 1 .. Len(mainQueue) /\ Len(mainQueue) \in Nat
         /\ \A i \in DOMAIN mainQueue : mainQueue[i] \in Posts
         /\ pc \in PcType /\ job \in [Everyone -> [task : Nat, flushId : Nat, sync : BOOLEAN]]
<1>1. stack \in Seq(Frames) /\ mainQueue \in Seq(Posts) /\ pc \in PcType
      /\ job \in [Everyone -> [task : Nat, flushId : Nat, sync : BOOLEAN]]
  BY TypeParts DEF OtherTypes
<1> QED
  BY <1>1, LenProperties

(* Frames that nobody waits for come and go. *)
SameAsked(s, r) == \A i \in DOMAIN r : r[i].by # Nobody => i \in DOMAIN s /\ r[i] = s[i]

LEMMA QuietPush ==
  ASSUME NEW s \in Seq(Frames), NEW f \in Frames, f.by = Nobody
  PROVE  SameAsked(s, Append(s, f))
  BY Pushed DEF SameAsked

LEMMA QuietPop ==
  ASSUME NEW s \in Seq(Frames), s # <<>>
  PROVE  SameAsked(s, Pop(s))
<1>1. DOMAIN s = 1 .. Len(s) /\ Len(s) \in Nat /\ DOMAIN Pop(s) = 1 .. Len(s) - 1
      /\ \A i \in 1 .. Len(s) - 1 : Pop(s)[i] = s[i]
  BY Popped
<1> QED
  BY <1>1 DEF SameAsked

LEMMA QuietRetop ==
  ASSUME NEW s \in Seq(Frames), s # <<>>, NEW f \in Frames, f.by = Nobody
  PROVE  SameAsked(s, Append(Pop(s), f))
<1>1. Pop(s) \in Seq(Frames)
  BY Popped
<1>2. SameAsked(s, Pop(s)) /\ SameAsked(Pop(s), Append(Pop(s), f))
  BY <1>1, QuietPush, QuietPop
<1> QED
  BY <1>2 DEF SameAsked

LEMMA QuietLeave ==
  ASSUME NEW s \in Seq(Frames), NEW p \in PcType, LeaveLoop(s, p),
         \A i \in DOMAIN s : s[i].op = "end" => s[i].by = Nobody
  PROVE  SameAsked(s, stack')
<1>1. /\ stack' \in Seq(Frames) /\ Len(stack') <= Len(s) /\ Len(stack') \in Nat /\ Len(s) \in Nat
      /\ \A i \in 1 .. Len(stack') :
           \/ stack'[i] = s[i]
           \/ i = Len(s) /\ s[i].op = "end" /\ stack'[i] = [s[i] EXCEPT !.op = "close", !.upTo = 0]
  BY Left
<1>2. DOMAIN stack' = 1 .. Len(stack') /\ DOMAIN s = 1 .. Len(s) /\ \A i \in DOMAIN s : s[i] \in Frames
  <2>1. stack' \in Seq(Frames)
    BY <1>1
  <2> QED
    BY <2>1, LenProperties
<1>3. ASSUME NEW i \in DOMAIN stack', stack'[i].by # Nobody
      PROVE  i \in DOMAIN s /\ stack'[i] = s[i]
  <2>0. Len(stack') <= Len(s) /\ Len(stack') \in Nat /\ Len(s) \in Nat
    BY <1>1
  <2>1. i \in DOMAIN s /\ s[i] \in Frames
    BY <1>2, <2>0
  <2>2. [s[i] EXCEPT !.op = "close", !.upTo = 0].by = s[i].by
    BY <2>1 DEF Frames
  <2> QED
    BY <1>1, <1>2, <1>3, <2>1, <2>2
<1> QED
  BY <1>3 DEF SameAsked

LEMMA AskedFrames ==
  ASSUME TypeOK, Asked, [Next]_vars, ~PostedFlush
  PROVE  SameAsked(stack, stack')
<1>1. stack \in Seq(Frames) /\ pc \in PcType /\ DiscountedPc \in PcType
  BY StackTypes DEF DiscountedPc, Notified, PcType
<1>2. \A i \in DOMAIN stack : stack[i].op # "flush" => stack[i].by = Nobody
  BY DEF Asked
<1>3. CASE stack' = stack
  BY <1>3 DEF SameAsked
<1>4. ASSUME NEW t \in Everyone, Call(t) \/ Continue(t) \/ (t \in Threads /\ WaitTimeout(t))
      PROVE  stack' = stack
  BY <1>4, TypeParts, TypeStepThreads
<1>5. CASE PopTask /\ pendingTasks # <<>>
  <2> DEFINE f == Frame("popped", Head(pendingTasks).task)
  <2>1. f \in Frames /\ stack' = Append(stack, f)
    BY <1>5, PopTaskShape DEF Push
  <2>2. f.by = Nobody
    BY DEF Frame
  <2> QED
    BY <1>1, <2>1, <2>2, QuietPush
<1>6. CASE BeginBatch
  <2>1. Frame("batch", 0) \in Frames /\ Frame("batch", 0).by = Nobody
    BY DEF Frame, Frames, Op, Everyone, Nobody
  <2> QED
    BY <1>1, <1>6, <2>1, QuietPush DEF BeginBatch
<1>7. CASE FlushUpToNow
  <2> DEFINE f == Pump("pump", flushIdSequence)
  <2>1. f \in Frames /\ f.by = Nobody
    BY DEF Pump, Frame, Frames, Op, Everyone, Nobody, TypeOK
  <2> QED
    BY <1>1, <1>7, <2>1, QuietPush DEF FlushUpToNow
<1>8. CASE BodyBegin \/ EndLastBatch
  <2>1. stack # <<>> /\ Top \in Frames /\ Top.op \in {"popped", "batch"}
    <3>1. stack # <<>> /\ Top.op \in {"popped", "batch"}
      BY <1>8 DEF BodyBegin, EndLastBatch, OnTop
    <3> QED
      BY <1>1, <3>1, Popped DEF Top
  <2>2. Top.by = Nobody
    BY <1>1, <1>2, <2>1, Popped DEF Top
  <2>3. CASE BodyBegin
    <3>1. [Top EXCEPT !.op = "run"] \in Frames /\ [Top EXCEPT !.op = "run"].by = Nobody
      BY <2>1, <2>2 DEF Frames, Op
    <3> QED
      BY <1>1, <2>1, <2>3, <3>1, QuietRetop DEF BodyBegin
  <2>4. CASE EndLastBatch
    <3> DEFINE f == Pump("end", batchFlushId)
    <3>1. f \in Frames /\ f.by = Nobody
      BY DEF Pump, Frame, Frames, Op, Everyone, Nobody, TypeOK
    <3> QED
      BY <1>1, <2>1, <2>4, <3>1, QuietRetop DEF EndLastBatch
  <2> QED
    BY <1>8, <2>3, <2>4
<1>9. CASE BodyEnd \/ EndInnerBatch \/ CloseBatch \/ CallbackEnd
  <2>1. stack # <<>> /\ stack' = Pop(stack)
    BY <1>9 DEF BodyEnd, EndInnerBatch, CloseBatch, CallbackEnd, OnTop
  <2> QED
    BY <1>1, <2>1, QuietPop
<1>10. CASE FlushDone
  <2>1. LeaveLoop(stack, pc)
    BY <1>10 DEF FlushDone
  <2> QED
    BY <1>1, <1>2, <2>1, QuietLeave
<1>11. CASE BodySkipped
  <2>1. stack # <<>> /\ LeaveLoop(Pop(stack), DiscountedPc)
    BY <1>11 DEF BodySkipped, OnTop
  <2>2. Pop(stack) \in Seq(Frames) /\ SameAsked(stack, Pop(stack))
    BY <1>1, <2>1, Popped, QuietPop
  <2>3. \A i \in DOMAIN Pop(stack) : Pop(stack)[i].op = "end" => Pop(stack)[i].by = Nobody
    BY <1>2, <2>2 DEF SameAsked
  <2>4. SameAsked(Pop(stack), stack')
    BY <1>1, <2>1, <2>2, <2>3, QuietLeave
  <2> QED
    BY <2>2, <2>4 DEF SameAsked
<1>12. CASE IdleNotYet
  BY <1>3, <1>12 DEF IdleNotYet
<1>13. CASE RunIdleCallback
  <2>1. stack = <<>> /\ (stack' = stack \/ stack' = <<Frame("callback", 0)>>)
    BY <1>13 DEF RunIdleCallback, PostedIdle
  <2>2. Frame("callback", 0).by = Nobody
    BY DEF Frame
  <2> QED
    BY <1>3, <2>1, <2>2 DEF SameAsked
<1>14. CASE FlushNext \/ RunNextTask
  BY <1>5, <1>14 DEF FlushNext, RunNextTask, Runnable
<1>15. CASE UNCHANGED vars
  BY <1>3, <1>15 DEF vars
<1> QED
  BY <1>3, <1>4, <1>6, <1>7, <1>8, <1>9, <1>10, <1>11, <1>12, <1>13, <1>14, <1>15
     DEF Next, CallOnMain, ContinueOnMain, Everyone

(* Posts that nobody waits for come and go; the others move up. *)
AskedPosts ==
  \E d \in {0, 1} : \A i \in DOMAIN mainQueue' : mainQueue'[i].by # Nobody =>
    i + d \in DOMAIN mainQueue /\ mainQueue'[i] = mainQueue[i + d]

LEMMA PostsMove ==
  ASSUME TypeOK, [Next]_vars
  PROVE  AskedPosts \/ \E t \in Everyone : ScheduleFlush(t)
<1> USE DEF idleVars, countVars, taskVars, threadVars
<1>1. /\ mainQueue \in Seq(Posts) /\ DOMAIN mainQueue = 1 .. Len(mainQueue) /\ Len(mainQueue) \in Nat
  BY StackTypes
<1>2. ASSUME mainQueue' = mainQueue PROVE AskedPosts
  <2>1. \A i \in DOMAIN mainQueue : i + 0 = i
    BY <1>1
  <2> QED
    BY <1>2, <2>1 DEF AskedPosts
<1>3. ASSUME NEW x \in Posts, x.by = Nobody, mainQueue' = Append(mainQueue, x) PROVE AskedPosts
  <2>1. \A i \in DOMAIN mainQueue' : mainQueue'[i].by # Nobody => i \in DOMAIN mainQueue /\ mainQueue'[i] = mainQueue[i]
    BY <1>1, <1>3, Pushed
  <2>2. \A i \in DOMAIN mainQueue : i + 0 = i
    BY <1>1
  <2> QED
    BY <2>1, <2>2 DEF AskedPosts
<1>4. ASSUME mainQueue # <<>>
      PROVE  /\ Tail(mainQueue) \in Seq(Posts)
             /\ \A i \in DOMAIN Tail(mainQueue) :
                  i + 1 \in DOMAIN mainQueue /\ Tail(mainQueue)[i] = mainQueue[i + 1]
  BY <1>1, <1>4
<1>5. ASSUME mainQueue # <<>>, mainQueue' = Tail(mainQueue) PROVE AskedPosts
  BY <1>4, <1>5 DEF AskedPosts
<1>6. ASSUME mainQueue # <<>>, NEW x \in Posts, x.by = Nobody, mainQueue' = Append(Tail(mainQueue), x)
      PROVE  AskedPosts
  <2>1. \A i \in DOMAIN mainQueue' : mainQueue'[i].by # Nobody =>
          i \in DOMAIN Tail(mainQueue) /\ mainQueue'[i] = Tail(mainQueue)[i]
    BY <1>4, <1>6, Pushed
  <2> QED
    BY <1>4, <1>6, <2>1 DEF AskedPosts
<1>7. IdlePost(tasksSequence) \in Posts /\ IdlePost(tasksSequence).by = Nobody
  BY DEF TypeOK, IdlePost, Posts, Everyone, Nobody
<1>8. ASSUME NEW t \in Everyone, Call(t) \/ Continue(t) \/ WaitTimeout(t), ~ScheduleFlush(t)
      PROVE  AskedPosts
  <2>1. CASE OnIdle(t)
    BY <1>2, <1>3, <1>7, <2>1 DEF OnIdle
  <2>2. CASE ~OnIdle(t)
    BY <1>2, <1>8, <2>2 DEF Call, Continue, DispatchBegin, WaitBegin, WaitAgain, WaitTimeout, WaitTurn,
      TearDownBegin, TearDownLocked, DispatchLocked
  <2> QED
    BY <2>1, <2>2
<1>9. CASE CallOnMain \/ UNCHANGED vars
  BY <1>2, <1>9 DEF CallOnMain, BeginBatch, FlushUpToNow, RunNextTask, PopTask, vars
<1>10. CASE CloseBatch
  <2> DEFINE x == [op |-> "flush", arg |-> batchFlushId, by |-> Nobody]
  <2>1. x \in Posts /\ x.by = Nobody
    BY DEF TypeOK, Posts, Everyone, Nobody
  <2> QED
    BY <1>2, <1>3, <1>10, <2>1 DEF CloseBatch
<1>11. CASE IdleNotYet \/ RunIdleCallback
  BY <1>5, <1>6, <1>7, <1>11 DEF IdleNotYet, RunIdleCallback, PostedIdle
<1>12. CASE PostedFlush
  BY <1>5, <1>12 DEF PostedFlush
<1>13. CASE FlushNext \/ FlushDone \/ BodyBegin \/ BodyEnd \/ BodySkipped \/ EndInnerBatch
            \/ EndLastBatch \/ CallbackEnd
  BY <1>2, <1>13 DEF FlushNext, FlushDone, BodyBegin, BodyEnd, BodySkipped, EndInnerBatch,
    EndLastBatch, CallbackEnd, PopTask
<1> QED
  BY <1>8, <1>9, <1>10, <1>11, <1>12, <1>13 DEF Next, ContinueOnMain, Everyone

(* Only the end of the flush it waits for lets a thread go on. *)
LEMMA WaiterKept ==
  ASSUME TypeOK, Asked, [Next]_vars, NEW t \in Threads, pc[t] = "waitSync"
  PROVE  \/ pc'[t] = "waitSync" /\ job'[t] = job[t]
         \/ /\ pc'[t] = "idle" /\ job'[t] = job[t] /\ mainQueue' = mainQueue
            /\ stack' = <<>> /\ \A j \in DOMAIN mainQueue : mainQueue[j].by # t
            /\ \/ tornDown
               \/ FlushDone /\ Len(stack) = 1 /\ stack[1].arg = job[t].flushId
<1> USE DEF threadVars
<1>1. /\ stack \in Seq(Frames) /\ DOMAIN stack = 1 .. Len(stack) /\ Len(stack) \in Nat
      /\ pc \in PcType /\ DiscountedPc \in PcType
      /\ DiscountedPc[t] = "waitSync" /\ Notified(pc)[t] = "waitSync"
      /\ job \in [Everyone -> [task : Nat, flushId : Nat, sync : BOOLEAN]]
      /\ t \in Everyone /\ t # Nobody
  <2>1. t \in Everyone /\ t # Nobody
    BY MainThreadAssumption DEF Everyone, Nobody
  <2> QED
    BY <2>1, StackTypes DEF DiscountedPc, Notified, PcType
<1>2. ASSUME NEW u \in Everyone, Call(u) \/ Continue(u) \/ WaitTimeout(u)
      PROVE  pc'[t] = "waitSync" /\ job'[t] = job[t]
  <2>1. u # t
    BY <1>2 DEF Call, Continue, DispatchBegin, OnIdle, WaitBegin, WaitAgain, WaitTimeout, WaitTurn,
      TearDownBegin, TearDownLocked, DispatchLocked, ScheduleFlush, Free
  <2>2. CASE TearDownLocked(u)
    BY <1>1, <2>1, <2>2 DEF TearDownLocked, Notified, PcType
  <2>3. CASE ~TearDownLocked(u)
    <3>1. (\E v : pc' = [pc EXCEPT ![u] = v]) \/ pc' = pc
      BY <1>2, <2>3 DEF Call, Continue, DispatchBegin, OnIdle, WaitBegin, WaitAgain, WaitTimeout, WaitTurn,
        TearDownBegin, DispatchLocked, Parked, Stamped, ScheduleFlush
    <3>2. job'[t] = job[t]
      BY <1>1, <1>2, <2>1, <2>3 DEF Call, Continue, DispatchBegin, OnIdle, WaitBegin, WaitAgain, WaitTimeout,
        WaitTurn, TearDownBegin, DispatchLocked, ScheduleFlush
    <3> QED
      BY <1>1, <2>1, <3>1, <3>2 DEF PcType
  <2> QED
    BY <2>2, <2>3
<1>3. ASSUME NEW s \in Seq(Frames), NEW p \in PcType, LeaveLoop(s, p), p[t] = "waitSync", pc'[t] # "waitSync",
             s # <<>> => SameAsked(stack, s)
      PROVE  /\ pc'[t] = "idle" /\ stack' = <<>> /\ Len(s) = 1 /\ s[1] = stack[1]
             /\ 1 \in DOMAIN stack /\ stack[1].by = t
  <2>1. /\ s # <<>> /\ s[Len(s)].op \in Loops /\ pc' = Released(p, s[Len(s)].by)
        /\ s[Len(s)].op # "end" => stack' = Pop(s)
    BY <1>3 DEF LeaveLoop
  <2>2. s[Len(s)].by = t /\ pc'[t] = "idle"
    BY <1>1, <1>3, <2>1 DEF Released, PcType
  <2>3. Len(s) \in DOMAIN s /\ Len(s) \in DOMAIN stack /\ s[Len(s)] = stack[Len(s)]
    BY <1>1, <1>3, <2>1, <2>2, Popped DEF SameAsked
  <2>4. Len(s) = 1 /\ stack[1].op = "flush"
    BY <1>1, <2>2, <2>3 DEF Asked
  <2>5. stack' = Pop(s)
    BY <2>1, <2>3, <2>4
  <2>6. stack' = <<>>
    BY <2>4, <2>5 DEF Pop
  <2> QED
    BY <2>2, <2>3, <2>4, <2>6
<1>4. ASSUME 1 \in DOMAIN stack, stack[1].by = t
      PROVE  stack[1].arg = job[t].flushId /\ \A j \in DOMAIN mainQueue : mainQueue[j].by # t
  BY <1>1, <1>4 DEF Asked
<1>5. CASE UNCHANGED threadVars
  BY <1>5
<1>6. CASE BodyEnd
  BY <1>1, <1>6 DEF BodyEnd
<1>7. CASE FlushDone
  <2>1. LeaveLoop(stack, pc) /\ job' = job /\ mainQueue' = mainQueue
    BY <1>7 DEF FlushDone
  <2>2. SameAsked(stack, stack)
    BY DEF SameAsked
  <2> QED
    BY <1>1, <1>3, <1>4, <1>7, <2>1, <2>2
<1>8. CASE BodySkipped
  <2>1. stack # <<>> /\ tornDown /\ LeaveLoop(Pop(stack), DiscountedPc) /\ job' = job /\ mainQueue' = mainQueue
    BY <1>8 DEF BodySkipped, OnTop
  <2>2. Pop(stack) \in Seq(Frames) /\ SameAsked(stack, Pop(stack))
    BY <1>1, <2>1, Popped, QuietPop
  <2> QED
    BY <1>1, <1>3, <1>4, <2>1, <2>2
<1>9. CASE CloseBatch
  BY <1>1, <1>9 DEF CloseBatch
<1>10. CASE CallOnMain \/ UNCHANGED vars
  BY <1>5, <1>10 DEF CallOnMain, BeginBatch, FlushUpToNow, RunNextTask, PopTask, vars
<1>11. CASE PostedFlush \/ FlushNext \/ BodyBegin \/ EndInnerBatch \/ EndLastBatch \/ IdleNotYet
           \/ RunIdleCallback \/ CallbackEnd
  BY <1>5, <1>11 DEF PostedFlush, FlushNext, BodyBegin, EndInnerBatch, EndLastBatch, IdleNotYet,
    RunIdleCallback, CallbackEnd, PostedIdle, PopTask
<1> QED
  BY <1>2, <1>6, <1>7, <1>8, <1>9, <1>10, <1>11 DEF Next, ContinueOnMain, Everyone

LEMMA AskedStep ==
  ASSUME TypeOK, TypeOK', Asked, [Next]_vars
  PROVE  Asked'
<1>0. /\ stack \in Seq(Frames) /\ DOMAIN stack = 1 .. Len(stack) /\ Len(stack) \in Nat
      /\ \A i \in DOMAIN stack : stack[i] \in Frames
      /\ mainQueue \in Seq(Posts) /\ DOMAIN mainQueue = 1 .. Len(mainQueue) /\ Len(mainQueue) \in Nat
      /\ \A i \in DOMAIN mainQueue : mainQueue[i] \in Posts
      /\ pc \in PcType /\ job \in [Everyone -> [task : Nat, flushId : Nat, sync : BOOLEAN]]
  BY StackTypes
<1>1. /\ \A f \in Frames : f.by # Nobody => f.by \in Threads
      /\ \A f \in Posts : f.by # Nobody => f.by \in Threads
      /\ \A t \in Threads : t \in Everyone /\ t # Nobody
  BY MainThreadAssumption DEF Frames, Posts, Everyone, Nobody
(* A thread whose flush is posted or running goes on waiting. *)
<1>2. ASSUME NEW t \in Threads, pc[t] = "waitSync",
             stack' # <<>> \/ \E j \in DOMAIN mainQueue : mainQueue[j].by = t
      PROVE  pc'[t] = "waitSync" /\ job'[t] = job[t]
  BY <1>2, WaiterKept
<1>3. ASSUME AskedPosts, NEW i \in DOMAIN mainQueue', mainQueue'[i].by # Nobody
      PROVE  /\ mainQueue'[i].op = "flush"
             /\ pc'[mainQueue'[i].by] = "waitSync" /\ mainQueue'[i].arg = job'[mainQueue'[i].by].flushId
             /\ \A j \in DOMAIN mainQueue' : mainQueue'[j].by = mainQueue'[i].by => j = i
             /\ \E j \in DOMAIN mainQueue : mainQueue[j] = mainQueue'[i]
  <2>0. mainQueue' \in Seq(Posts) /\ DOMAIN mainQueue' \subseteq Nat
    <3>1. mainQueue' \in Seq(Posts)
      BY TypeParts DEF OtherTypes
    <3> QED
      BY <3>1, LenProperties
  <2>1. PICK d \in {0, 1} : \A k \in DOMAIN mainQueue' : mainQueue'[k].by # Nobody =>
          k + d \in DOMAIN mainQueue /\ mainQueue'[k] = mainQueue[k + d]
    BY <1>3 DEF AskedPosts
  <2> DEFINE t == mainQueue'[i].by
  <2>2. i + d \in DOMAIN mainQueue /\ mainQueue'[i] = mainQueue[i + d]
    BY <1>3, <2>1
  <2>3. /\ mainQueue[i + d].op = "flush" /\ pc[t] = "waitSync" /\ mainQueue[i + d].arg = job[t].flushId
        /\ \A j \in DOMAIN mainQueue : mainQueue[j].by = t => j = i + d
        /\ t \in Threads
    BY <1>0, <1>1, <1>3, <2>2 DEF Asked
  <2>4. pc'[t] = "waitSync" /\ job'[t] = job[t]
    BY <1>2, <2>2, <2>3
  <2>5. ASSUME NEW j \in DOMAIN mainQueue', mainQueue'[j].by = t PROVE j = i
    <3>1. j + d \in DOMAIN mainQueue /\ mainQueue[j + d].by = t
      BY <1>3, <2>1, <2>5
    <3>2. j + d = i + d
      BY <2>3, <3>1
    <3> QED
      BY <2>0, <3>2
  <2> QED
    BY <2>2, <2>3, <2>4, <2>5
<1>4. ASSUME SameAsked(stack, stack'), NEW i \in DOMAIN stack', stack'[i].by # Nobody
      PROVE  /\ i = 1 /\ stack'[i].op = "flush"
             /\ pc'[stack'[i].by] = "waitSync" /\ stack'[i].arg = job'[stack'[i].by].flushId
             /\ \A j \in DOMAIN mainQueue : mainQueue[j].by # stack'[i].by
             /\ pc[stack'[i].by] = "waitSync"
  <2> DEFINE t == stack'[i].by
  <2>1. i \in DOMAIN stack /\ stack'[i] = stack[i]
    BY <1>4 DEF SameAsked
  <2>2. /\ i = 1 /\ stack[i].op = "flush" /\ pc[t] = "waitSync" /\ stack[i].arg = job[t].flushId
        /\ \A j \in DOMAIN mainQueue : mainQueue[j].by # t
        /\ t \in Threads
    BY <1>0, <1>1, <1>4, <2>1 DEF Asked
  <2>3. stack' # <<>>
    BY <1>4
  <2>4. pc'[t] = "waitSync" /\ job'[t] = job[t]
    BY <1>2, <2>2, <2>3
  <2> QED
    BY <2>1, <2>2, <2>4
<1>5. CASE AskedPosts /\ ~PostedFlush
  <2>1. SameAsked(stack, stack')
    BY <1>5, AskedFrames
  <2>2. ASSUME NEW i \in DOMAIN stack', stack'[i].by # Nobody, NEW j \in DOMAIN mainQueue'
        PROVE  mainQueue'[j].by # stack'[i].by
    <3>1. mainQueue'[j].by # Nobody => \E k \in DOMAIN mainQueue : mainQueue[k] = mainQueue'[j]
      BY <1>3, <1>5
    <3> QED
      BY <1>4, <2>1, <2>2, <3>1
  <2> QED
    BY <1>3, <1>4, <1>5, <2>1, <2>2 DEF Asked
<1>6. CASE PostedFlush
  <2> DEFINE f == [Frame("flush", Head(mainQueue).arg) EXCEPT !.by = Head(mainQueue).by]
  <2>1. /\ stack = <<>> /\ mainQueue # <<>> /\ stack' = <<f>> /\ mainQueue' = Tail(mainQueue)
        /\ pc' = pc /\ job' = job /\ Head(mainQueue) = mainQueue[1] /\ 1 \in DOMAIN mainQueue
    BY <1>0, <1>6 DEF PostedFlush, threadVars
  <2>2. f.op = "flush" /\ f.arg = mainQueue[1].arg /\ f.by = mainQueue[1].by
    BY <2>1 DEF Frame
  <2> HIDE DEF f
  <2>3. /\ DOMAIN mainQueue' = 1 .. Len(mainQueue) - 1
        /\ \A i \in 1 .. Len(mainQueue) - 1 : mainQueue'[i] = mainQueue[i + 1]
    BY <1>0, <2>1
  <2>4. DOMAIN stack' = {1} /\ stack'[1] = f
    BY <2>1
  <2>5. \A i \in DOMAIN mainQueue' : i + 1 \in DOMAIN mainQueue /\ mainQueue'[i] = mainQueue[i + 1] /\ i + 1 # 1
    BY <1>0, <2>3
  <2>6. ASSUME f.by # Nobody
        PROVE  /\ pc'[f.by] = "waitSync" /\ f.arg = job'[f.by].flushId
               /\ \A j \in DOMAIN mainQueue' : mainQueue'[j].by # f.by
    BY <2>1, <2>2, <2>5, <2>6 DEF Asked
  <2>7. AskedPosts
    BY <2>5 DEF AskedPosts
  <2> QED
    BY <1>3, <2>2, <2>4, <2>6, <2>7 DEF Asked
<1>7. ASSUME NEW u \in Everyone, ScheduleFlush(u) PROVE Asked'
  <2> DEFINE x == [op |-> "flush", arg |-> job[u].flushId, by |-> IF job[u].sync THEN u ELSE Nobody]
  <2>1. /\ mainQueue' = Append(mainQueue, x) /\ stack' = stack /\ job' = job /\ pc[u] = "post"
        /\ pc' = [pc EXCEPT ![u] = IF job[u].sync THEN "waitSync" ELSE "idle"]
    BY <1>7 DEF ScheduleFlush
  <2>2. /\ x \in Posts /\ x.op = "flush" /\ x.arg = job[u].flushId /\ x.by \in {u, Nobody}
        /\ x.by = u /\ u # Nobody => pc'[u] = "waitSync"
    BY <1>0, <2>1 DEF Posts, Everyone, Nobody, PcType
  <2> HIDE DEF x
  <2>3. /\ DOMAIN mainQueue' = 1 .. Len(mainQueue) + 1
        /\ \A i \in 1 .. Len(mainQueue) : mainQueue'[i] = mainQueue[i]
        /\ mainQueue'[Len(mainQueue) + 1] = x
    BY <1>0, <2>1, <2>2, Pushed
  <2>4. \A t \in Threads : pc[t] = "waitSync" => t # u /\ pc'[t] = "waitSync" /\ job'[t] = job[t]
    BY <1>0, <1>1, <2>1 DEF PcType
  <2>5. /\ \A i \in DOMAIN stack : stack[i].by # Nobody => stack[i].by # u
        /\ \A i \in DOMAIN mainQueue : mainQueue[i].by # Nobody => mainQueue[i].by # u
    BY <1>0, <1>1, <2>4 DEF Asked
  <2>6. ASSUME NEW i \in DOMAIN stack', stack'[i].by # Nobody
        PROVE  /\ i = 1 /\ stack'[i].op = "flush"
               /\ pc'[stack'[i].by] = "waitSync" /\ stack'[i].arg = job'[stack'[i].by].flushId
               /\ \A j \in DOMAIN mainQueue' : mainQueue'[j].by # stack'[i].by
    <3>1. /\ stack'[i] = stack[i] /\ i \in DOMAIN stack /\ stack[i].by \in Threads /\ stack[i].by # u
      BY <1>0, <1>1, <2>1, <2>5, <2>6
    <3>2. \A j \in DOMAIN mainQueue' : mainQueue'[j].by # stack[i].by
      <4> SUFFICES ASSUME NEW j \in DOMAIN mainQueue' PROVE mainQueue'[j].by # stack[i].by
        OBVIOUS
      <4>1. CASE j \in DOMAIN mainQueue
        BY <1>0, <2>3, <2>6, <3>1, <4>1 DEF Asked
      <4>2. CASE j = Len(mainQueue) + 1
        BY <2>2, <2>3, <2>6, <3>1, <4>2
      <4> QED
        BY <1>0, <2>3, <4>1, <4>2
    <3> QED
      BY <2>4, <2>6, <3>1, <3>2 DEF Asked
  <2>7. ASSUME NEW i \in DOMAIN mainQueue', mainQueue'[i].by # Nobody
        PROVE  /\ mainQueue'[i].op = "flush"
               /\ pc'[mainQueue'[i].by] = "waitSync" /\ mainQueue'[i].arg = job'[mainQueue'[i].by].flushId
               /\ \A j \in DOMAIN mainQueue' : mainQueue'[j].by = mainQueue'[i].by => j = i
    <3>1. CASE i = Len(mainQueue) + 1
      <4>1. mainQueue'[i] = x /\ x.by = u
        BY <2>2, <2>3, <2>7, <3>1
      <4>2. \A j \in DOMAIN mainQueue' : j # i => j \in DOMAIN mainQueue /\ mainQueue'[j] = mainQueue[j]
        BY <1>0, <2>3, <3>1
      <4> QED
        BY <2>1, <2>2, <2>5, <2>7, <4>1, <4>2
    <3>2. CASE i # Len(mainQueue) + 1
      <4>1. i \in DOMAIN mainQueue /\ mainQueue'[i] = mainQueue[i]
        BY <1>0, <2>3, <3>2
      <4>2. mainQueue[i].by \in Threads /\ mainQueue[i].by # u
        BY <1>0, <1>1, <2>5, <2>7, <4>1
      <4>3. ASSUME NEW j \in DOMAIN mainQueue', mainQueue'[j].by = mainQueue[i].by PROVE j = i
        <5>1. j # Len(mainQueue) + 1
          BY <2>2, <2>3, <2>7, <4>1, <4>2, <4>3
        <5>2. j \in DOMAIN mainQueue /\ mainQueue'[j] = mainQueue[j]
          BY <1>0, <2>3, <5>1
        <5> QED
          BY <2>7, <4>1, <4>3, <5>2 DEF Asked
      <4> QED
        BY <2>4, <2>7, <4>1, <4>2, <4>3 DEF Asked
    <3> QED
      BY <3>1, <3>2
  <2> QED
    BY <2>6, <2>7 DEF Asked
<1> QED
  BY <1>5, <1>6, <1>7, PostsMove

(* A popped task stays on the call stack until it is finished or given up. *)
BodyIn(s, k) == \E i \in DOMAIN s : s[i].op \in Bodies /\ s[i].arg = k

LEMMA BodyKept ==
  ASSUME TypeOK, [Next]_vars, ~tornDown, NEW k, BodyIn(stack, k)
  PROVE  k \in finished' \/ BodyIn(stack', k)
<1>1. PICK i \in DOMAIN stack : stack[i].op \in Bodies /\ stack[i].arg = k
  BY DEF BodyIn
<1>2. stack \in Seq(Frames) /\ DOMAIN stack = 1 .. Len(stack) /\ Len(stack) \in Nat /\ pc \in PcType
      /\ stack[i] \in Frames /\ stack # <<>>
  BY <1>1, StackTypes
<1>3. ASSUME i \in DOMAIN stack', stack'[i] = stack[i] PROVE BodyIn(stack', k)
  BY <1>1, <1>3 DEF BodyIn
<1>4. ASSUME i # Len(stack)
      PROVE  i \in DOMAIN Pop(stack) /\ Pop(stack)[i] = stack[i]
  <2>1. i \in 1 .. Len(stack) - 1
    BY <1>2, <1>4
  <2> QED
    BY <1>2, <2>1, Popped
<1>5. ASSUME NEW f \in Frames, stack' = Append(stack, f) PROVE BodyIn(stack', k)
  BY <1>2, <1>3, <1>5, Pushed
<1>6. ASSUME stack' = Pop(stack), i # Len(stack) PROVE BodyIn(stack', k)
  BY <1>3, <1>4, <1>6
<1>7. ASSUME NEW f \in Frames, stack' = Append(Pop(stack), f), i # Len(stack) PROVE BodyIn(stack', k)
  <2>1. Pop(stack) \in Seq(Frames)
    BY <1>2, Popped
  <2>2. i \in DOMAIN stack' /\ stack'[i] = Pop(stack)[i]
    BY <1>4, <1>7, <2>1, Pushed
  <2> QED
    BY <1>3, <1>4, <1>7, <2>2
<1>8. i = Len(stack) => Top.op \in Bodies /\ Top.arg = k
  BY <1>1 DEF Top
<1>9. ASSUME NEW t \in Everyone, Call(t) \/ Continue(t) \/ (t \in Threads /\ WaitTimeout(t))
      PROVE  BodyIn(stack', k)
  <2>1. stack' = stack
    BY <1>9, TypeParts, TypeStepThreads
  <2> QED
    BY <1>3, <2>1
<1>10. ASSUME PopTask, pendingTasks # <<>> PROVE BodyIn(stack', k)
  <2> DEFINE f == Frame("popped", Head(pendingTasks).task)
  <2>1. f \in Frames /\ stack' = Append(stack, f)
    BY <1>10, PopTaskShape DEF Push
  <2> QED
    BY <1>5, <2>1
<1>11. CASE BeginBatch
  <2>1. Frame("batch", 0) \in Frames
    BY DEF Frame, Frames, Op, Everyone, Nobody
  <2> QED
    BY <1>5, <1>11, <2>1 DEF BeginBatch
<1>12. CASE FlushUpToNow
  <2>1. Pump("pump", flushIdSequence) \in Frames
    BY DEF Pump, Frame, Frames, Op, Everyone, Nobody, TypeOK
  <2> QED
    BY <1>5, <1>12, <2>1 DEF FlushUpToNow
<1>13. CASE FlushNext \/ RunNextTask
  BY <1>10, <1>13 DEF FlushNext, RunNextTask, Runnable
<1>14. CASE EndLastBatch
  <2>1. Pump("end", batchFlushId) \in Frames
    BY DEF Pump, Frame, Frames, Op, Everyone, Nobody, TypeOK
  <2>2. i # Len(stack)
    BY <1>8, <1>14 DEF EndLastBatch, OnTop, Bodies
  <2> QED
    BY <1>7, <1>14, <2>1, <2>2 DEF EndLastBatch
<1>15. CASE EndInnerBatch \/ CloseBatch \/ CallbackEnd
  <2>1. stack' = Pop(stack) /\ Top.op \notin Bodies
    BY <1>15 DEF EndInnerBatch, CloseBatch, CallbackEnd, OnTop, Bodies
  <2> QED
    BY <1>6, <1>8, <2>1
<1>16. CASE BodyBegin
  <2> DEFINE f == [Top EXCEPT !.op = "run"]
  <2>1. stack' = Append(Pop(stack), f) /\ Top \in Frames
    BY <1>2, <1>16, Popped DEF BodyBegin, Top
  <2>2. f \in Frames /\ f.op \in Bodies /\ f.arg = Top.arg
    BY <2>1 DEF Frames, Op, Bodies
  <2>3. CASE i # Len(stack)
    BY <1>7, <2>1, <2>2, <2>3
  <2>4. CASE i = Len(stack)
    <3>1. Pop(stack) \in Seq(Frames)
      BY <1>2, Popped
    <3>2. Len(Pop(stack)) + 1 \in DOMAIN stack' /\ stack'[Len(Pop(stack)) + 1] = f
      <4> HIDE DEF f
      <4> QED
        BY <2>1, <2>2, <3>1, Pushed
    <3> QED
      BY <1>8, <2>2, <2>4, <3>2 DEF BodyIn
  <2> QED
    BY <2>3, <2>4
<1>17. CASE BodyEnd
  <2>1. stack' = Pop(stack) /\ Top.arg \in finished'
    BY <1>17 DEF BodyEnd
  <2> QED
    BY <1>6, <1>8, <2>1
<1>18. CASE FlushDone
  <2>1. LeaveLoop(stack, pc) /\ Top.op \in Loops
    BY <1>18 DEF FlushDone, TopIn
  <2>2. i # Len(stack)
    BY <1>8, <2>1 DEF Loops, Bodies
  <2>3. /\ stack' \in Seq(Frames) /\ Len(stack') \in Nat
        /\ Len(stack') # Len(stack) => Len(stack') = Len(stack) - 1
    BY <1>2, <2>1, Left
  <2>4. \A j \in 1 .. Len(stack') : stack'[j] = stack[j] \/ j = Len(stack)
    BY <1>2, <2>1, Left
  <2>5. DOMAIN stack' = 1 .. Len(stack')
    <3>1. stack' \in Seq(Frames)
      BY <2>3
    <3> QED
      BY <3>1, LenProperties
  <2>6. i \in 1 .. Len(stack')
    <3>1. Len(stack') \in Nat /\ (Len(stack') # Len(stack) => Len(stack') = Len(stack) - 1)
      BY <2>3
    <3>2. i \in 1 .. Len(stack) /\ Len(stack) \in Nat
      BY <1>1, <1>2
    <3> QED
      BY <2>2, <3>1, <3>2
  <2>7. i \in DOMAIN stack' /\ stack'[i] = stack[i]
    BY <2>2, <2>4, <2>5, <2>6
  <2> QED
    BY <1>3, <2>7
<1>19. CASE IdleNotYet \/ UNCHANGED vars
  BY <1>3, <1>19 DEF IdleNotYet, vars
<1>20. ~PostedFlush /\ ~RunIdleCallback /\ ~BodySkipped
  BY <1>2 DEF PostedFlush, RunIdleCallback, PostedIdle, BodySkipped
<1> QED
  BY <1>9, <1>11, <1>12, <1>13, <1>14, <1>15, <1>16, <1>17, <1>18, <1>19, <1>20
     DEF Next, CallOnMain, ContinueOnMain, Everyone

LEMMA TearsOnceStep ==
  ASSUME TypeOK, TearingOnce, [Next]_vars
  PROVE  TearingOnce'
<1> SUFFICES ASSUME NEW u \in Everyone, pc'[u] = "tearing" PROVE tornDown'
  BY DEF TearingOnce
<1>1. CASE pc[u] = "tearing"
  BY <1>1, StaysTornDown DEF TearingOnce
<1>2. CASE pc[u] # "tearing"
  <2>1. pc \in PcType
    BY StackTypes
  <2>2. Call(u) \/ Continue(u) \/ WaitTimeout(u)
    BY <1>2, PcSteps
  <2> QED
    BY <1>2, <2>1, <2>2 DEF Call, Continue, DispatchBegin, OnIdle, WaitBegin, WaitAgain, WaitTimeout, WaitTurn,
      TearDownBegin, TearDownLocked, DispatchLocked, Parked, Stamped, ScheduleFlush, PcType, Notified, threadVars
<1> QED
  BY <1>1, <1>2

(* Whoever posts a flush, or waits for one, has just dispatched or did before. *)
LEMMA Dispatcher ==
  ASSUME TypeOK, Asked, [Next]_vars, NEW t \in Threads, pc'[t] \in {"post", "waitSync"}
  PROVE  (pc[t] \in {"post", "waitSync"} /\ job'[t] = job[t]) \/ DispatchLocked(t)
<1>1. t \in Everyone /\ pc \in PcType
  BY StackTypes DEF Everyone
<1>2. CASE pc[t] = "post"
  <2>1. ScheduleFlush(t) => job'[t] = job[t]
    BY DEF ScheduleFlush
  <2> QED
    BY <1>1, <1>2, <2>1, PosterKept
<1>3. CASE pc[t] = "waitSync"
  BY <1>3, WaiterKept
<1>4. CASE pc[t] \notin {"post", "waitSync"}
  <2>1. Call(t) \/ Continue(t) \/ WaitTimeout(t)
    BY <1>1, <1>4, PcSteps
  <2> QED
    BY <1>1, <1>4, <2>1 DEF Call, Continue, DispatchBegin, OnIdle, WaitBegin, WaitAgain, WaitTimeout, WaitTurn,
      TearDownBegin, TearDownLocked, ScheduleFlush, PcType, Notified, threadVars
<1> QED
  BY <1>2, <1>3, <1>4

LEMMA StaysFinished == ASSUME [Next]_vars PROVE finished \subseteq finished'
<1>1. CASE UNCHANGED vars
  BY <1>1 DEF vars
<1>2. ASSUME NEW t \in Everyone, Call(t) \/ Continue(t) \/ WaitTimeout(t) PROVE finished' = finished
  BY <1>2 DEF Call, Continue, DispatchBegin, OnIdle, WaitBegin, WaitAgain, WaitTimeout, WaitTurn,
    TearDownBegin, TearDownLocked, DispatchLocked, ScheduleFlush
<1>3. CASE CallOnMain
  BY <1>3 DEF CallOnMain, BeginBatch, FlushUpToNow, RunNextTask, PopTask
<1>4. CASE ContinueOnMain
  BY <1>4 DEF ContinueOnMain, PostedFlush, FlushNext, FlushDone, BodyBegin, BodyEnd, BodySkipped,
    EndInnerBatch, EndLastBatch, CloseBatch, IdleNotYet, RunIdleCallback, CallbackEnd, PostedIdle,
    PopTask
<1> QED
  BY <1>1, <1>2, <1>3, <1>4 DEF Next, Everyone

(* A pending task is popped by a flush, or dropped by the teardown. *)
LEMMA PendingKept ==
  ASSUME TypeOK, TearingOnce, [Next]_vars, NEW i \in DOMAIN pendingTasks
  PROVE  \/ tornDown
         \/ \E j \in DOMAIN pendingTasks' : pendingTasks'[j] = pendingTasks[i]
         \/ BodyIn(stack', pendingTasks[i].task)
<1>1. pendingTasks \in Seq(Pending) /\ DOMAIN pendingTasks = 1 .. Len(pendingTasks)
      /\ Len(pendingTasks) \in Nat /\ dispatched \in Nat /\ flushIdSequence \in Nat
  <2>1. pendingTasks \in Seq(Pending) /\ dispatched \in Nat /\ flushIdSequence \in Nat
    BY TypeParts DEF OtherTypes
  <2> QED
    BY <2>1, LenProperties
<1>2. CASE pendingTasks' = pendingTasks
  BY <1>2
<1>3. CASE Dispatching
  <2> DEFINE e == [flushId |-> flushIdSequence', task |-> dispatched']
  <2>1. pendingTasks' = Append(pendingTasks, e) /\ e \in Pending
    BY <1>1, <1>3 DEF Dispatching, Pending
  <2> HIDE DEF e
  <2> QED
    BY <1>1, <2>1, Pushed
<1>4. ASSUME PopTask, pendingTasks # <<>>
      PROVE  \/ \E j \in DOMAIN pendingTasks' : pendingTasks'[j] = pendingTasks[i]
             \/ BodyIn(stack', pendingTasks[i].task)
  <2>1. pendingTasks' = Tail(pendingTasks) /\ Head(pendingTasks) = pendingTasks[1]
    BY <1>1, <1>4 DEF PopTask
  <2>2. CASE i = 1
    <3> DEFINE f == Frame("popped", Head(pendingTasks).task)
    <3>1. f \in Frames /\ stack' = Append(stack, f) /\ stack \in Seq(Frames)
      BY <1>4, PopTaskShape, StackTypes DEF Push
    <3>2. f.op \in Bodies /\ f.arg = pendingTasks[i].task
      BY <2>1, <2>2 DEF Frame, Bodies
    <3> HIDE DEF f
    <3>3. Len(stack) + 1 \in DOMAIN stack' /\ stack'[Len(stack) + 1] = f
      BY <3>1, Pushed
    <3> QED
      BY <3>2, <3>3 DEF BodyIn
  <2>3. CASE i # 1
    <3>1. /\ DOMAIN Tail(pendingTasks) = 1 .. Len(pendingTasks) - 1
          /\ \A j \in 1 .. Len(pendingTasks) - 1 : Tail(pendingTasks)[j] = pendingTasks[j + 1]
      BY <1>1, <1>4
    <3>2. i - 1 \in 1 .. Len(pendingTasks) - 1 /\ (i - 1) + 1 = i
      BY <1>1, <2>3
    <3> QED
      BY <2>1, <3>1, <3>2
  <2> QED
    BY <2>2, <2>3
<1>5. ASSUME NEW t \in Everyone, Call(t) \/ Continue(t) \/ WaitTimeout(t)
      PROVE  tornDown \/ pendingTasks' = pendingTasks \/ Dispatching
  <2>1. CASE DispatchLocked(t)
    BY <2>1 DEF DispatchLocked, Parked, Stamped, Dispatching
  <2>2. CASE TearDownLocked(t)
    BY <2>2 DEF TearDownLocked, TearingOnce
  <2>3. CASE ~DispatchLocked(t) /\ ~TearDownLocked(t)
    BY <1>5, <2>3 DEF Call, Continue, DispatchBegin, OnIdle, WaitBegin, WaitAgain, WaitTimeout, WaitTurn,
      TearDownBegin, ScheduleFlush, taskVars
  <2> QED
    BY <2>1, <2>2, <2>3
<1>6. CASE FlushNext \/ RunNextTask
  BY <1>4, <1>6 DEF FlushNext, RunNextTask, Runnable
<1>7. CASE CallOnMain /\ ~RunNextTask
  BY <1>2, <1>7 DEF CallOnMain, BeginBatch, FlushUpToNow, taskVars
<1>8. CASE ContinueOnMain /\ ~FlushNext
  BY <1>2, <1>8 DEF ContinueOnMain, PostedFlush, FlushDone, BodyBegin, BodyEnd, BodySkipped,
    EndInnerBatch, EndLastBatch, CloseBatch, IdleNotYet, RunIdleCallback, CallbackEnd, PostedIdle, taskVars
<1>9. CASE UNCHANGED vars
  BY <1>2, <1>9 DEF vars, taskVars
<1> QED
  BY <1>2, <1>3, <1>5, <1>6, <1>7, <1>8, <1>9 DEF Next, Everyone

LEMMA FollowedStep ==
  ASSUME TypeOK, Asked, Followed, TearingOnce, [Next]_vars
  PROVE  Followed'
<1> SUFFICES ASSUME NEW t \in Threads, pc'[t] \in {"post", "waitSync"}, ~tornDown'
             PROVE  \/ job'[t].task \in finished'
                    \/ \E i \in DOMAIN pendingTasks' :
                         pendingTasks'[i].task = job'[t].task /\ pendingTasks'[i].flushId <= job'[t].flushId
                    \/ BodyIn(stack', job'[t].task)
  BY DEF Followed, BodyIn
<1>1. ~tornDown
  BY StaysTornDown
<1>2. t \in Everyone /\ job \in [Everyone -> [task : Nat, flushId : Nat, sync : BOOLEAN]]
      /\ pendingTasks \in Seq(Pending) /\ dispatched \in Nat /\ flushIdSequence \in Nat
  BY TypeParts DEF OtherTypes, Everyone
<1>3. CASE DispatchLocked(t)
  <2> DEFINE e == [flushId |-> flushIdSequence', task |-> dispatched']
  <2>1. /\ pendingTasks' = Append(pendingTasks, e)
        /\ job'[t].flushId = e.flushId /\ job'[t].task = e.task
    BY <1>2, <1>3 DEF DispatchLocked
  <2>2. e \in Pending /\ e.flushId \in Nat
    BY <1>2, <1>3 DEF DispatchLocked, Parked, Stamped, Pending
  <2> HIDE DEF e
  <2>3. Len(pendingTasks) + 1 \in DOMAIN pendingTasks' /\ pendingTasks'[Len(pendingTasks) + 1] = e
    BY <1>2, <2>1, <2>2, Pushed
  <2>4. e.flushId <= e.flushId
    BY <2>2
  <2> QED
    BY <2>1, <2>3, <2>4
<1>4. CASE pc[t] \in {"post", "waitSync"} /\ job'[t] = job[t]
  <2>1. \/ job[t].task \in finished
        \/ \E i \in DOMAIN pendingTasks :
             pendingTasks[i].task = job[t].task /\ pendingTasks[i].flushId <= job[t].flushId
        \/ BodyIn(stack, job[t].task)
    BY <1>1, <1>4 DEF Followed, BodyIn
  <2>2. CASE job[t].task \in finished
    BY <1>4, <2>2, StaysFinished
  <2>3. CASE \E i \in DOMAIN pendingTasks :
               pendingTasks[i].task = job[t].task /\ pendingTasks[i].flushId <= job[t].flushId
    <3>1. PICK i \in DOMAIN pendingTasks :
            pendingTasks[i].task = job[t].task /\ pendingTasks[i].flushId <= job[t].flushId
      BY <2>3
    <3> QED
      BY <1>1, <1>4, <3>1, PendingKept
  <2>4. CASE BodyIn(stack, job[t].task)
    BY <1>1, <1>4, <2>4, BodyKept
  <2> QED
    BY <2>1, <2>2, <2>3, <2>4
<1> QED
  BY <1>3, <1>4, Dispatcher

(* dispatchSync() returns after its task did: whatever was posted, parked,     *)
(* pumped or nested before it, the flush it waits for finds the task gone only *)
(* when it was run, by it or by another.                                       *)
THEOREM SyncTaskRanCorrect == Spec => SyncTaskRan
<1> DEFINE Step == \A t \in Threads : pc[t] = "waitSync" /\ pc'[t] = "idle" =>
                     tornDown \/ job[t].task \in finished
<1>1. Init => Awaited
  <2> SUFFICES ASSUME Init PROVE Awaited
    OBVIOUS
  <2>1. stack = <<>> /\ mainQueue = <<>> /\ \A t \in Everyone : pc[t] = "idle"
    BY DEF Init
  <2>2. Threads \subseteq Everyone
    BY DEF Everyone
  <2> QED
    BY <2>1, <2>2 DEF Awaited, Asked, Followed, TearingOnce
<1>2. TypeOK /\ TypeOK' /\ Awaited /\ [Next]_vars => Awaited'
  BY AskedStep, FollowedStep, TearsOnceStep DEF Awaited
<1>3. IInv => TypeOK /\ PendingSorted
  BY DEF IInv
<1>4. TypeOK /\ PendingSorted /\ Awaited /\ [Next]_vars => [Step]_vars
  <2> SUFFICES ASSUME TypeOK, PendingSorted, Awaited, [Next]_vars,
                      NEW t \in Threads, pc[t] = "waitSync", pc'[t] = "idle", ~tornDown
               PROVE  job[t].task \in finished
    OBVIOUS
  <2>1. FlushDone /\ Len(stack) = 1 /\ stack[1].arg = job[t].flushId
    BY WaiterKept DEF Awaited
  <2>2. stack[1].op \in Loops /\ ~Runnable(job[t].flushId)
    BY <2>1 DEF FlushDone, TopIn, Top
  <2>3. stack \in Seq(Frames) /\ t \in Everyone /\ job[t].flushId \in Nat
    BY StackTypes DEF Everyone
  <2>4. ~BodyIn(stack, job[t].task)
    BY <2>1, <2>2, <2>3 DEF BodyIn, Bodies, Loops
  <2>5. \A i \in DOMAIN pendingTasks :
          pendingTasks[i].flushId \in Nat /\ job[t].flushId < pendingTasks[i].flushId
    BY <2>2, <2>3, NotRunnable, PendingType
  <2>6. ~ \E i \in DOMAIN pendingTasks :
            pendingTasks[i].task = job[t].task /\ pendingTasks[i].flushId <= job[t].flushId
    BY <2>3, <2>5
  <2> QED
    BY <2>4, <2>6 DEF Awaited, Followed, BodyIn
<1> HIDE DEF Step
<1>5. [][Step]_vars => SyncTaskRan
  BY PTL DEF Step, SyncTaskRan
<1> QED
  BY <1>1, <1>2, <1>3, <1>4, <1>5, Invariance, PTL DEF Spec
=============================================================================
