------------------------ MODULE StandaloneExit_proofs ------------------------
(***************************************************************************)
(* The coordinator ends the program only when it is over, and never loses  *)
(* track of a queue, for any number of tasks.                              *)
(***************************************************************************)
EXTENDS StandaloneExit, SequenceTheorems, TLAPS

Late == {"loop", "flushing", "tearingDown", "ended"}

Awakes(n, q) == n.about = q /\ ~n.value

(* The first k notes of s, after what was seen before them, leave q known to *)
(* be non-empty, or not heard of.                                            *)
Busy(s, sn, q, k) ==
  /\ sn[q] => \E j \in 1 .. k : Awakes(s[j], q)
  /\ \A j \in 1 .. k : s[j].about = q /\ s[j].value => \E l \in j + 1 .. k : Awakes(s[l], q)

(* What the coordinator will believe of a queue once it handled the notes.   *)
Views ==
  \A q \in Queues :
    /\ ~empty[q] \/ q \notin listening => Busy(notes, seen, q, Len(notes))
    /\ \A j \in 1 .. Len(notes) : notes[j].about = q =>
         /\ q \in listening
         /\ empty[q] /\ ~notes[j].value => \E l \in j + 1 .. Len(notes) : notes[l].about = q

(* Nobody speaks of a queue until the last one who did has posted his note. *)
InTurn ==
  \A i, j \in 1 .. Len(notes) :
    i < j /\ notes[i].about \in Queues /\ ~notes[i].posted => notes[j].about # notes[i].about

(* What the queues execute, and when. *)
Working ==
  /\ \A q \in Queues : empty[q] => queued[q] = 0 /\ running[q] # "task"
  /\ running.js = "barrier" <=> at = "script"
  /\ running.main # "barrier"
  /\ running.main = "task" => at = "loop"

(* The main queue is not known to be empty before its thread loops on it. *)
Unheard ==
  at \notin Late =>
    /\ ~seen.main
    /\ \A j \in 1 .. Len(notes) : ~(notes[j].about = "main" /\ notes[j].value)

Awakening(n) == n.about \in Queues /\ ~n.value

(* Who wakes a queue up works for the other one, and can neither end nor be  *)
(* taken for idle before his note is posted; unless he is another thread.    *)
Woken(n) ==
  \/ n.by = "js" /\ n.about = "main" /\ running.js = "task"
  \/ n.by = "main" /\ n.about = "js" /\ running.main = "task"
  \/ n.by = "main" /\ at = "script"

Causes ==
  ~interrupted =>
    \A i \in 1 .. Len(notes) : Awakening(notes[i]) =>
      /\ \A k \in 0 .. i - 1 : \E q \in Queues : Busy(notes, seen, q, k)
      /\ ~notes[i].posted => Woken(notes[i])
      /\ ~notes[i].posted => \A j \in i + 1 .. Len(notes) : notes[j].about \notin Queues

(* An exit that the coordinator decided finds both queues told empty. *)
Over == idleExit /\ ~interrupted => at \in Late /\ \A q \in Queues : empty[q]

IInv == TypeOK /\ Views /\ InTurn /\ Working /\ Unheard /\ Causes /\ Over

-----------------------------------------------------------------------------
(* A deque with one entry removed, and one with a note posted. *)
LEMMA Removed ==
  ASSUME NEW S, NEW s \in Seq(S), NEW k \in 1 .. Len(s)
  PROVE  /\ RemoveAt(s, k) \in Seq(S)
         /\ Len(RemoveAt(s, k)) = Len(s) - 1
         /\ \A i \in 1 .. Len(s) - 1 : RemoveAt(s, k)[i] = IF i < k THEN s[i] ELSE s[i + 1]
<1> DEFINE a == SubSeq(s, 1, k - 1)
           b == SubSeq(s, k + 1, Len(s))
<1>0. (\A i \in 1 .. Len(s) : s[i] \in S) /\ Len(s) \in Nat
  BY ElementOfSeq, LenProperties
<1>1. a \in Seq(S) /\ Len(a) = k - 1 /\ \A i \in 1 .. k - 1 : a[i] = s[i]
  BY <1>0, SubSeqProperties
<1>2. b \in Seq(S) /\ Len(b) = Len(s) - k /\ \A i \in 1 .. Len(s) - k : b[i] = s[k + i]
  BY <1>0, SubSeqProperties
<1> HIDE DEF a, b
<1>3. /\ a \o b \in Seq(S)
      /\ Len(a \o b) = Len(a) + Len(b)
      /\ \A i \in 1 .. Len(a) + Len(b) : (a \o b)[i] = IF i <= Len(a) THEN a[i] ELSE b[i - Len(a)]
  BY <1>1, <1>2, ConcatProperties
<1>4. RemoveAt(s, k) = a \o b
  BY DEF RemoveAt, a, b
<1>5. ASSUME NEW i \in 1 .. Len(s) - 1
      PROVE  (a \o b)[i] = IF i < k THEN s[i] ELSE s[i + 1]
  <2>1. CASE i < k
    BY <1>0, <1>1, <1>2, <1>3, <2>1
  <2>2. CASE ~(i < k)
    <3>1. (a \o b)[i] = b[i - (k - 1)]
      BY <1>0, <1>1, <1>2, <1>3, <2>2
    <3>2. i - (k - 1) \in 1 .. Len(s) - k /\ k + (i - (k - 1)) = i + 1
      BY <1>0, <2>2
    <3>3. b[i - (k - 1)] = s[k + (i - (k - 1))]
      BY <1>2, <3>2
    <3> QED
      BY <2>2, <3>1, <3>2, <3>3
  <2> QED
    BY <2>1, <2>2
<1>6. Len(a) + Len(b) = Len(s) - 1
  BY <1>0, <1>1, <1>2
<1> QED
  BY <1>3, <1>4, <1>5, <1>6

LEMMA Posted ==
  ASSUME NEW s \in Seq(Note), NEW k \in 1 .. Len(s)
  PROVE  LET p == [s EXCEPT ![k].posted = TRUE]
         IN  /\ p \in Seq(Note) /\ Len(p) = Len(s)
             /\ \A i \in 1 .. Len(s) :
                  /\ p[i].about = s[i].about /\ p[i].value = s[i].value /\ p[i].by = s[i].by
                  /\ p[i].posted = (s[i].posted \/ i = k)
<1> DEFINE e == [s[k] EXCEPT !.posted = TRUE]
<1>1. s[k] \in Note
  BY ElementOfSeq
<1>2. e \in Note /\ e.about = s[k].about /\ e.value = s[k].value /\ e.by = s[k].by /\ e.posted
  BY <1>1 DEF Note
<1>3. [s EXCEPT ![k].posted = TRUE] = [s EXCEPT ![k] = e]
  OBVIOUS
<1> HIDE DEF e
<1>4. /\ [s EXCEPT ![k] = e] \in Seq(Note) /\ Len([s EXCEPT ![k] = e]) = Len(s)
      /\ \A j \in 1 .. Len(s) : [s EXCEPT ![k] = e][j] = IF j = k THEN e ELSE s[j]
  BY <1>2, ExceptSeq
<1>5. \A j \in 1 .. Len(s) : s[j] \in Note
  BY ElementOfSeq
<1> DEFINE p == [s EXCEPT ![k].posted = TRUE]
<1>6. p \in Seq(Note) /\ Len(p) = Len(s)
  BY <1>3, <1>4
<1>7. \A j \in 1 .. Len(s) : p[j] = IF j = k THEN e ELSE s[j]
  BY <1>3, <1>4
<1> HIDE DEF p
<1>8. ASSUME NEW i \in 1 .. Len(s)
      PROVE  /\ p[i].about = s[i].about /\ p[i].value = s[i].value /\ p[i].by = s[i].by
             /\ p[i].posted = (s[i].posted \/ i = k)
  <2>1. CASE i = k
    <3>1. p[i] = e /\ s[i] = s[k]
      BY <1>7, <2>1
    <3> QED
      BY <1>2, <2>1, <3>1
  <2>2. CASE i # k
    <3>1. p[i] = s[i] /\ s[i].posted \in BOOLEAN
      BY <1>5, <1>7, <2>2 DEF Note
    <3> QED
      BY <2>2, <3>1
  <2> QED
    BY <2>1, <2>2
<1> QED
  BY <1>6, <1>8 DEF p

LEMMA Appended ==
  ASSUME NEW s \in Seq(Note), NEW n \in Note
  PROVE  /\ Append(s, n) \in Seq(Note) /\ Len(Append(s, n)) = Len(s) + 1 /\ Len(s) \in Nat
         /\ \A i \in 1 .. Len(s) : Append(s, n)[i] = s[i]
         /\ Append(s, n)[Len(s) + 1] = n
  OBVIOUS

LEMMA NotesDomain == TypeOK => Len(notes) \in Nat /\ DOMAIN notes = 1 .. Len(notes)
  BY LenProperties DEF TypeOK

-----------------------------------------------------------------------------
(* What a step does to the notes, and with them to what is known of the queues. *)

Silent ==
  /\ notes' = notes /\ seen' = seen /\ listening \subseteq listening'
  /\ \A q \in Queues : empty'[q] = empty[q] \/ q \notin listening'

Posts(i) ==
  /\ i \in 1 .. Len(notes) /\ ~notes[i].posted
  /\ notes' = [notes EXCEPT ![i].posted = TRUE]
  /\ UNCHANGED <<seen, empty, listening, running, at, interrupted>>

Handled(i) ==
  /\ i \in 1 .. Len(notes) /\ First(i)
  /\ notes' = RemoveAt(notes, i) /\ seen' = Seen(notes[i])
  /\ UNCHANGED <<empty, listening, running, interrupted>>
  /\ at' # at => at \in Late /\ at' \in Late

Announces(n) ==
  /\ n \in Note /\ n.about \notin Queues
  /\ notes' = Append(notes, n)
  /\ UNCHANGED <<seen, empty, listening>>

Wakes(q, t) ==
  /\ empty[q] /\ q \in listening /\ Unlocked(q)
  /\ InCode(t)
  /\ notes' = Append(notes, [about |-> q, value |-> FALSE, by |-> t, posted |-> FALSE])
  /\ empty' = [empty EXCEPT ![q] = FALSE]
  /\ t = "outside" => interrupted'
  /\ UNCHANGED <<seen, listening, running, at>>

Empties(q) ==
  /\ Handles(q) /\ q \in listening
  /\ notes' = Append(notes, [about |-> q, value |-> TRUE, by |-> q, posted |-> FALSE])
  /\ empty' = [empty EXCEPT ![q] = TRUE]
  /\ UNCHANGED <<seen, listening, running, at>>

LEMMA EnqueueEffect ==
  ASSUME TypeOK, NEW q \in Queues, NEW t \in Threads, InCode(t), Enqueue(q, t),
         t = "outside" /\ empty[q] => interrupted', UNCHANGED <<seen, running, at>>
  PROVE  Silent \/ Wakes(q, t)
<1>1. CASE empty[q] /\ q \in listening
  <2>1. Wakes(q, t)
    BY <1>1 DEF Enqueue, Wakes, Tell
  <2> QED
    BY <2>1
<1>2. CASE ~(empty[q] /\ q \in listening)
  <2>1. Silent
    BY <1>2 DEF Enqueue, Silent, TypeOK
  <2> QED
    BY <2>1
<1> QED
  BY <1>1, <1>2

LEMMA Effects ==
  ASSUME TypeOK, [Next]_vars
  PROVE  \/ Silent
         \/ \E i \in 1 .. Len(notes) : Posts(i) \/ Handled(i)
         \/ \E n \in Note : Announces(n)
         \/ \E q \in Queues, t \in Threads : Wakes(q, t)
         \/ \E q \in Queues : Empties(q)
<1> USE DEF queueVars, history
<1>0. UNCHANGED vars => Silent
  BY DEF vars, Silent
<1>1. ASSUME NEW t \in Threads, PostNote(t)
      PROVE  \E i \in 1 .. Len(notes) : Posts(i)
  BY <1>1, NotesDomain DEF PostNote, Posts
<1>2. ASSUME NEW t \in Threads, NEW q \in Queues, Submit(t, q)
      PROVE  Silent \/ Wakes(q, t)
  <2>1. t = "outside" /\ empty[q] => interrupted'
    BY <1>2 DEF Submit
  <2> QED
    BY <1>2, <2>1, EnqueueEffect DEF Submit
<1>3. ASSUME NEW t \in Threads, CancelTimer(t) PROVE Silent
  BY <1>3 DEF CancelTimer, Silent
<1>4. ASSUME NEW t \in Threads, ProcessExit(t) PROVE \E n \in Note : Announces(n)
  <2>1. [about |-> "enabled", value |-> FALSE, by |-> t, posted |-> FALSE] \in Note
    BY DEF Note
  <2> QED
    BY <1>4, <2>1 DEF ProcessExit, Tell, Announces, Queues
<1>5. ASSUME NEW t \in Threads, ExitMainQueue(t) PROVE Silent
  BY <1>5 DEF ExitMainQueue, Dispose, Silent
<1>6. ASSUME NEW q \in Queues, RunNextTask(q) \/ TaskDone(q) PROVE Silent
  BY <1>6 DEF RunNextTask, TaskDone, Silent
<1>7. ASSUME NEW q \in Queues, QueueEmpty(q) PROVE Silent \/ Empties(q)
  <2>1. CASE q \in listening
    <3>1. Empties(q)
      BY <1>7, <2>1 DEF QueueEmpty, Empties, Tell
    <3> QED
      BY <3>1
  <2>2. CASE q \notin listening
    <3>1. Silent
      BY <1>7, <2>2 DEF QueueEmpty, Silent, TypeOK
    <3> QED
      BY <3>1
  <2> QED
    BY <2>1, <2>2
<1>8. DispatchSync => Silent \/ Wakes("main", "js")
  <2> SUFFICES ASSUME DispatchSync PROVE Silent \/ Wakes("main", "js")
    OBVIOUS
  <2>1. CASE disposed
    BY <2>1 DEF DispatchSync, Silent
  <2>2. CASE ~disposed
    <3>1. /\ InCode("js") /\ Enqueue("main", "js") /\ UNCHANGED <<seen, running, at>>
          /\ "js" \in Threads /\ "main" \in Queues
      BY <2>2 DEF DispatchSync, Threads, Queues
    <3> QED
      BY <3>1, EnqueueEffect
  <2> QED
    BY <2>1, <2>2
<1>9. PostInit \/ RunScript \/ ScriptEvaluated \/ ScriptFailed \/ FullTeardown => Silent
  BY DEF PostInit, RunScript, ScriptEvaluated, ScriptFailed, FullTeardown, Dispose, Silent
<1>10. EvalScript \/ FlushUpdatesSync => \E n \in Note : Announces(n)
  <2>1. [about |-> "enabled", value |-> TRUE, by |-> "main", posted |-> FALSE] \in Note
    BY DEF Note, Threads
  <2>2. [about |-> "flush", value |-> TRUE, by |-> "main", posted |-> TRUE] \in Note
    BY DEF Note, Threads
  <2> QED
    BY <2>1, <2>2 DEF EvalScript, FlushUpdatesSync, Tell, Announces, Queues
<1>11. HandleNote => \E i \in 1 .. Len(notes) : Handled(i)
  <2> SUFFICES ASSUME NEW i \in DOMAIN notes,
                      First(i), notes' = RemoveAt(notes, i), seen' = Seen(notes[i]),
                      UNCHANGED <<running, at, exiting, interrupted>>,
                      UNCHANGED <<empty, listening>>
               PROVE  \E j \in 1 .. Len(notes) : Handled(j)
    BY DEF HandleNote, Dispose
  <2> QED
    BY NotesDomain DEF Handled
<1>12. UpdatesFlushed => \E i \in 1 .. Len(notes) : Handled(i)
  <2> SUFFICES ASSUME UpdatesFlushed,
                      NEW i \in DOMAIN notes, First(i), notes[i].about = "flush", notes' = RemoveAt(notes, i)
               PROVE  \E j \in 1 .. Len(notes) : Handled(j)
    BY DEF UpdatesFlushed
  <2>1. seen' = Seen(notes[i])
    BY DEF UpdatesFlushed, Seen, Queues
  <2> QED
    BY <2>1, NotesDomain DEF UpdatesFlushed, MainGoes, Late, Handled
<1> QED
  BY <1>0, <1>1, <1>2, <1>3, <1>4, <1>5, <1>6, <1>7, <1>8, <1>9, <1>10, <1>11, <1>12
     DEF Next, JsThread, MainThread, OtherThreads, Code, Threads, Queues

-----------------------------------------------------------------------------
(* All but the notes and what is seen: the flags of their own, one by one. *)
Data ==
  /\ queued \in [Queues -> Nat]
  /\ running \in [Queues -> {"none", "task", "barrier"}]
  /\ listening \subseteq Queues
  /\ submitted \in 0 .. MaxTasks
  /\ at \in Places
  /\ awaits \in {"none", "queued", "running", "dropped"}

Flags ==
  /\ empty \in [Queues -> BOOLEAN]
  /\ enabled \in BOOLEAN /\ disposed \in BOOLEAN /\ exiting \in BOOLEAN
  /\ idleExit \in BOOLEAN /\ interrupted \in BOOLEAN

LEMMA TypeParts ==
  /\ TypeOK <=> Data /\ Flags /\ notes \in Seq(Note) /\ seen \in [Queues -> BOOLEAN]
  /\ TypeOK' <=> Data' /\ Flags' /\ notes' \in Seq(Note) /\ seen' \in [Queues -> BOOLEAN]
  BY DEF TypeOK, Data, Flags

LEMMA NotesStep ==
  ASSUME TypeOK, [Next]_vars
  PROVE  notes' \in Seq(Note) /\ seen' \in [Queues -> BOOLEAN]
<1> USE DEF TypeOK
<1>1. ASSUME NEW i \in 1 .. Len(notes), Handled(i)
      PROVE  notes' \in Seq(Note) /\ seen' \in [Queues -> BOOLEAN]
  <2>1. notes[i] \in Note
    BY ElementOfSeq
  <2> QED
    BY <1>1, <2>1, Removed DEF Handled, Seen, Note
<1>2. ASSUME NEW i \in 1 .. Len(notes), Posts(i)
      PROVE  notes' \in Seq(Note) /\ seen' \in [Queues -> BOOLEAN]
  BY <1>2, Posted DEF Posts
<1>3. ASSUME NEW n \in Note, Announces(n)
      PROVE  notes' \in Seq(Note) /\ seen' \in [Queues -> BOOLEAN]
  BY <1>3, Appended DEF Announces
<1>4. ASSUME NEW q \in Queues, NEW t \in Threads, Wakes(q, t)
      PROVE  notes' \in Seq(Note) /\ seen' \in [Queues -> BOOLEAN]
  <2>1. [about |-> q, value |-> FALSE, by |-> t, posted |-> FALSE] \in Note
    BY DEF Note
  <2> QED
    BY <1>4, <2>1, Appended DEF Wakes
<1>5. ASSUME NEW q \in Queues, Empties(q)
      PROVE  notes' \in Seq(Note) /\ seen' \in [Queues -> BOOLEAN]
  <2>1. [about |-> q, value |-> TRUE, by |-> q, posted |-> FALSE] \in Note
    BY DEF Note, Queues, Threads
  <2> QED
    BY <1>5, <2>1, Appended DEF Empties
<1> QED
  BY <1>1, <1>2, <1>3, <1>4, <1>5, Effects DEF Silent

LEMMA DataStep ==
  ASSUME TypeOK, [Next]_vars
  PROVE  Data'
<1> USE DEF queueVars, history
<1>1. Data
  BY TypeParts
<1> USE <1>1 DEF Data
<1>2. ASSUME UNCHANGED vars PROVE Data'
  BY <1>2 DEF vars
<1>3. ASSUME NEW t \in Threads, PostNote(t) PROVE Data'
  BY <1>3 DEF PostNote
<1>4. ASSUME NEW q \in Queues, submitted < MaxTasks, submitted' = submitted + 1,
             queued' = [queued EXCEPT ![q] = @ + 1]
      PROVE  queued' \in [Queues -> Nat] /\ submitted' \in 0 .. MaxTasks
  BY <1>4, ExitAssumption
<1>5. ASSUME NEW t \in Threads, NEW q \in Queues, Submit(t, q) PROVE Data'
  BY <1>4, <1>5 DEF Submit, Enqueue
<1>6. ASSUME NEW t \in Threads, CancelTimer(t) PROVE Data'
  BY <1>6 DEF CancelTimer, Queues
<1>0. ASSUME Dispose
      PROVE  /\ queued' \in [Queues -> Nat] /\ awaits' \in {"none", "queued", "running", "dropped"}
             /\ UNCHANGED <<listening, submitted>>
  BY <1>0 DEF Dispose
<1>7. ASSUME NEW t \in Threads, ProcessExit(t) \/ ExitMainQueue(t) PROVE Data'
  BY <1>0, <1>7 DEF ProcessExit, ExitMainQueue
<1>8. ASSUME NEW q \in Queues, RunNextTask(q) PROVE Data'
  BY <1>8 DEF RunNextTask
<1>9. ASSUME NEW q \in Queues, QueueEmpty(q) \/ TaskDone(q) PROVE Data'
  BY <1>9 DEF QueueEmpty, TaskDone
<1>10. ASSUME DispatchSync PROVE Data'
  <2>1. "main" \in Queues
    BY DEF Queues
  <2> QED
    BY <1>4, <1>10, <2>1 DEF DispatchSync, Enqueue
<1>11. ASSUME PostInit \/ EvalScript \/ FlushUpdatesSync \/ UpdatesFlushed PROVE Data'
  BY <1>11 DEF PostInit, EvalScript, FlushUpdatesSync, UpdatesFlushed, MainGoes, Places, Queues
<1>12. ASSUME RunScript \/ ScriptEvaluated \/ ScriptFailed \/ FullTeardown PROVE Data'
  BY <1>0, <1>12 DEF RunScript, ScriptEvaluated, ScriptFailed, FullTeardown, MainGoes, Places, Queues
<1>13. ASSUME HandleNote PROVE Data'
  <2>1. UNCHANGED <<running, at, listening, submitted>> /\ (Dispose \/ UNCHANGED <<queued, awaits>>)
    BY <1>13 DEF HandleNote, Dispose
  <2> QED
    BY <1>0, <2>1
<1> HIDE DEF Data
<1> QED
  BY <1>2, <1>3, <1>5, <1>6, <1>7, <1>8, <1>9, <1>10, <1>11, <1>12, <1>13
     DEF Next, JsThread, MainThread, OtherThreads, Code, Threads, Queues

LEMMA FlagsStep ==
  ASSUME TypeOK, [Next]_vars
  PROVE  Flags'
<1> USE DEF queueVars, history
<1>1. Flags
  BY TypeParts
<1> USE <1>1 DEF Flags
<1>2. ASSUME UNCHANGED vars PROVE Flags'
  BY <1>2 DEF vars
<1>3. ASSUME NEW t \in Threads, PostNote(t) \/ CancelTimer(t) PROVE Flags'
  BY <1>3 DEF PostNote, CancelTimer
<1>4. ASSUME NEW t \in Threads, NEW q \in Queues, Submit(t, q) PROVE Flags'
  <2>1. /\ empty' = [empty EXCEPT ![q] = FALSE]
        /\ interrupted' = (interrupted \/ (t = "outside" /\ empty[q]))
        /\ UNCHANGED <<enabled, disposed, exiting, idleExit>>
    BY <1>4 DEF Submit, Enqueue
  <2>2. interrupted' \in BOOLEAN
    BY <2>1, Zenon
  <2> QED
    BY <2>1, <2>2
<1>5. ASSUME NEW t \in Threads, ProcessExit(t) \/ ExitMainQueue(t) PROVE Flags'
  BY <1>5 DEF ProcessExit, ExitMainQueue, Dispose
<1>6. ASSUME NEW q \in Queues, RunNextTask(q) \/ QueueEmpty(q) \/ TaskDone(q) PROVE Flags'
  <2>1. /\ empty' = empty \/ empty' = [empty EXCEPT ![q] = TRUE]
        /\ UNCHANGED <<enabled, disposed, exiting, idleExit, interrupted>>
    BY <1>6 DEF RunNextTask, QueueEmpty, TaskDone
  <2> QED
    BY <2>1
<1>7. ASSUME DispatchSync PROVE Flags'
  <2>1. /\ empty' = empty \/ empty' = [empty EXCEPT !["main"] = FALSE]
        /\ UNCHANGED <<enabled, disposed, exiting, idleExit, interrupted>>
    BY <1>7 DEF DispatchSync, Enqueue
  <2> QED
    BY <2>1
<1>8. ASSUME PostInit \/ EvalScript \/ FlushUpdatesSync \/ UpdatesFlushed PROVE Flags'
  BY <1>8 DEF PostInit, EvalScript, FlushUpdatesSync, UpdatesFlushed
<1>9. ASSUME RunScript \/ ScriptEvaluated \/ ScriptFailed \/ FullTeardown PROVE Flags'
  BY <1>9 DEF RunScript, ScriptEvaluated, ScriptFailed, FullTeardown, Dispose
<1>10. ASSUME HandleNote PROVE Flags'
  <2>1. PICK i \in DOMAIN notes :
          /\ UNCHANGED <<exiting, interrupted>>
          /\ IF Exits(notes[i])
             THEN enabled' = FALSE /\ idleExit' = (idleExit \/ ~disposed) /\ Dispose
             ELSE /\ enabled' = IF notes[i].about = "enabled" THEN notes[i].value ELSE enabled
                  /\ UNCHANGED <<queueVars, disposed, awaits, idleExit>>
    BY <1>10 DEF HandleNote
  <2>2. notes[i] \in Note
    BY NotesDomain, ElementOfSeq DEF TypeOK
  <2>3. notes[i].value \in BOOLEAN
    BY <2>2 DEF Note
  <2>4. enabled' \in BOOLEAN
    BY <2>1, <2>3, Zenon
  <2>5. idleExit' \in BOOLEAN
    BY <2>1, Zenon
  <2>6. empty' = empty /\ disposed' \in BOOLEAN /\ exiting' = exiting /\ interrupted' = interrupted
    BY <2>1 DEF Dispose
  <2> QED
    BY <2>4, <2>5, <2>6
<1> HIDE DEF Flags
<1> QED
  BY <1>2, <1>3, <1>4, <1>5, <1>6, <1>7, <1>8, <1>9, <1>10
     DEF Next, JsThread, MainThread, OtherThreads, Code, Threads, Queues

LEMMA TypeStep ==
  ASSUME TypeOK, [Next]_vars
  PROVE  TypeOK'
  BY DataStep, FlagsStep, NotesStep, TypeParts

LEMMA WorkingStep ==
  ASSUME TypeOK, Working, [Next]_vars
  PROVE  Working'
<1> USE DEF Working, TypeOK, Queues, queueVars, history
<1>1. ASSUME UNCHANGED vars PROVE Working'
  BY <1>1 DEF vars
<1>2. ASSUME NEW t \in Threads, PostNote(t) PROVE Working'
  BY <1>2 DEF PostNote
<1>3. ASSUME NEW t \in Threads, NEW q \in Queues, Submit(t, q) PROVE Working'
  BY <1>3 DEF Submit, Enqueue
<1>4. ASSUME NEW t \in Threads, CancelTimer(t) PROVE Working'
  BY <1>4 DEF CancelTimer
<1>5. ASSUME NEW t \in Threads, ProcessExit(t) \/ ExitMainQueue(t) PROVE Working'
  BY <1>5 DEF ProcessExit, ExitMainQueue, Dispose
<1>6. ASSUME NEW q \in Queues, RunNextTask(q) PROVE Working'
  BY <1>6 DEF RunNextTask, Handles
<1>7. ASSUME NEW q \in Queues, QueueEmpty(q) PROVE Working'
  BY <1>7 DEF QueueEmpty, Handles
<1>8. ASSUME NEW q \in Queues, TaskDone(q) PROVE Working'
  BY <1>8 DEF TaskDone
<1>9. ASSUME DispatchSync PROVE Working'
  BY <1>9 DEF DispatchSync, Enqueue
<1>10. ASSUME PostInit \/ EvalScript \/ FlushUpdatesSync \/ UpdatesFlushed PROVE Working'
  BY <1>10 DEF PostInit, EvalScript, FlushUpdatesSync, UpdatesFlushed, MainGoes
<1>11. ASSUME RunScript PROVE Working'
  BY <1>11 DEF RunScript, MainGoes
<1>12. ASSUME ScriptEvaluated \/ ScriptFailed PROVE Working'
  BY <1>12 DEF ScriptEvaluated, ScriptFailed, MainGoes, Dispose
<1>13. ASSUME FullTeardown PROVE Working'
  BY <1>13 DEF FullTeardown, MainGoes
<1>14. ASSUME HandleNote PROVE Working'
  <2>1. /\ UNCHANGED <<running, at, empty>>
        /\ \A q \in Queues : queued'[q] = queued[q] \/ queued'[q] = 0
    BY <1>14 DEF HandleNote, Dispose
  <2> QED
    BY <2>1
<1> QED
  BY <1>1, <1>2, <1>3, <1>4, <1>5, <1>6, <1>7, <1>8, <1>9, <1>10, <1>11, <1>12, <1>13, <1>14
     DEF Next, JsThread, MainThread, OtherThreads, Code, Threads

-----------------------------------------------------------------------------
(* How the notes tell of a queue when one is added, posted or handled. *)

LEMMA BusyAppended ==
  ASSUME NEW s \in Seq(Note), NEW n \in Note, NEW sn, NEW q, NEW k \in 0 .. Len(s)
  PROVE  Busy(Append(s, n), sn, q, k) <=> Busy(s, sn, q, k)
<1>1. \A i \in 1 .. k : Append(s, n)[i] = s[i]
  BY Appended
<1> QED
  BY <1>1 DEF Busy, Awakes

LEMMA BusyWoken ==
  ASSUME NEW s \in Seq(Note), NEW n \in Note, NEW sn, NEW q, Awakes(n, q)
  PROVE  Busy(Append(s, n), sn, q, Len(s) + 1)
  BY Appended DEF Busy, Awakes

LEMMA BusyOther ==
  ASSUME NEW s \in Seq(Note), NEW n \in Note, NEW sn, NEW q, n.about # q, Busy(s, sn, q, Len(s))
  PROVE  Busy(Append(s, n), sn, q, Len(s) + 1)
<1>1. /\ Len(s) \in Nat /\ Append(s, n)[Len(s) + 1].about # q
      /\ \A i \in 1 .. Len(s) : Append(s, n)[i] = s[i]
  BY Appended
<1> QED
  BY <1>1 DEF Busy, Awakes

LEMMA BusyPosted ==
  ASSUME NEW s \in Seq(Note), NEW i \in 1 .. Len(s), NEW sn, NEW q, NEW k \in 0 .. Len(s)
  PROVE  Busy([s EXCEPT ![i].posted = TRUE], sn, q, k) <=> Busy(s, sn, q, k)
<1> DEFINE p == [s EXCEPT ![i].posted = TRUE]
<1>1. \A j \in 1 .. k : p[j].about = s[j].about /\ p[j].value = s[j].value
  BY Posted
<1> HIDE DEF p
<1>3. \A j \in 1 .. k : Awakes(p[j], q) <=> Awakes(s[j], q)
  BY <1>1 DEF Awakes
<1>4. \A j \in 1 .. k : j + 1 .. k \subseteq 1 .. k
  OBVIOUS
<1>5. Busy(p, sn, q, k) => Busy(s, sn, q, k)
  BY <1>1, <1>3, <1>4 DEF Busy
<1>6. Busy(s, sn, q, k) => Busy(p, sn, q, k)
  BY <1>1, <1>3, <1>4 DEF Busy
<1>2. Busy(p, sn, q, k) <=> Busy(s, sn, q, k)
  BY <1>5, <1>6
<1> QED
  BY <1>2 DEF p

(* When the first note about its queue is handled. *)
(* Without the notes at the end that do not wake q up. *)
LEMMA BusyShorter ==
  ASSUME NEW s \in Seq(Note), NEW sn, NEW q, NEW k \in Nat, NEW h \in 0 .. k, Busy(s, sn, q, k),
         \A i \in h + 1 .. k : ~Awakes(s[i], q)
  PROVE  Busy(s, sn, q, h)
  BY DEF Busy

LEMMA BusyNone ==
  ASSUME NEW s, NEW sn, NEW q, Busy(s, sn, q, 0)
  PROVE  ~sn[q]
  BY DEF Busy

LEMMA BusyHandled ==
  ASSUME NEW s \in Seq(Note), NEW m \in 1 .. Len(s), NEW sn \in [Queues -> BOOLEAN],
         NEW new \in [Queues -> BOOLEAN], NEW q \in Queues, NEW k \in 0 .. Len(s),
         Busy(s, sn, q, k),
         s[m].about = q => m <= k /\ new[q] = s[m].value /\ \A j \in 1 .. m - 1 : s[j].about # q,
         s[m].about # q => new[q] = sn[q]
  PROVE  Busy(RemoveAt(s, m), new, q, IF m <= k THEN k - 1 ELSE k)
<1> DEFINE r == RemoveAt(s, m)
           h == IF m <= k THEN k - 1 ELSE k
           f == [i \in 1 .. Len(s) |-> IF i < m THEN i ELSE i - 1]
<1>0. Len(s) \in Nat
  BY LenProperties
<1>1. /\ r \in Seq(Note) /\ Len(r) = Len(s) - 1 /\ Len(s) \in Nat
      /\ \A i \in 1 .. Len(s) - 1 : r[i] = IF i < m THEN s[i] ELSE s[i + 1]
  BY <1>0, Removed
<1>2. \A i \in 1 .. h : i \in 1 .. Len(s) - 1
  BY <1>0
<1>3. ASSUME NEW i \in 1 .. k, i # m PROVE f[i] \in 1 .. h /\ r[f[i]] = s[i]
  <2>0. i \in 1 .. Len(s)
    BY <1>0
  <2>1. CASE i < m
    <3>1. f[i] = i /\ i \in 1 .. h /\ i \in 1 .. Len(s) - 1
      BY <1>0, <2>0, <2>1
    <3> QED
      BY <1>1, <2>1, <3>1
  <2>2. CASE ~(i < m)
    <3>1. f[i] = i - 1
      BY <2>0, <2>2
    <3>2. i - 1 \in 1 .. h /\ i - 1 \in 1 .. Len(s) - 1 /\ ~(i - 1 < m) /\ (i - 1) + 1 = i
      BY <1>0, <1>3, <2>2
    <3> QED
      BY <1>1, <3>1, <3>2
  <2> QED
    BY <2>1, <2>2
<1>4. \A i \in 1 .. h : \E j \in 1 .. k : j # m /\ i = f[j] /\ r[i] = s[j]
  <2> TAKE i \in 1 .. h
  <2>1. CASE i < m
    <3>1. i \in 1 .. k /\ i # m /\ i \in 1 .. Len(s)
      BY <1>0, <2>1
    <3>2. f[i] = i
      BY <2>1, <3>1
    <3>3. r[i] = s[i]
      BY <1>1, <1>2, <2>1
    <3> QED
      BY <3>1, <3>2, <3>3
  <2>2. CASE ~(i < m)
    <3>1. i + 1 \in 1 .. k /\ i + 1 # m /\ i + 1 \in 1 .. Len(s)
      BY <1>0, <2>2
    <3>2. f[i + 1] = i
      BY <2>2, <3>1
    <3>3. r[i] = s[i + 1]
      BY <1>1, <1>2, <2>2
    <3> QED
      BY <3>1, <3>2, <3>3
  <2> QED
    BY <2>1, <2>2
<1>5. \A i, j \in 1 .. k : i # m /\ j # m => (i < j <=> f[i] < f[j])
  BY <1>1
<1>6. h \in Nat /\ \A i \in 1 .. k : i # m => f[i] \in Nat
  BY <1>1, <1>3
<1> HIDE DEF r, h, f
<1>7. ASSUME new[q] PROVE \E j \in 1 .. h : Awakes(r[j], q)
  <2>1. CASE s[m].about # q
    <3>1. PICK j \in 1 .. k : Awakes(s[j], q)
      BY <1>7, <2>1 DEF Busy
    <3>2. j # m
      BY <2>1, <3>1 DEF Awakes
    <3> QED
      BY <1>3, <3>1, <3>2
  <2>2. CASE s[m].about = q
    <3>1. new[q] = s[m].value /\ m <= k
      BY <2>2
    <3>2. m \in 1 .. k
      BY <3>1
    <3>3. s[m].value
      BY <1>7, <3>1, Zenon
    <3>4. PICK l \in m + 1 .. k : Awakes(s[l], q)
      BY <2>2, <3>2, <3>3 DEF Busy
    <3>5. l \in 1 .. k /\ l # m
      BY <3>4
    <3> QED
      BY <1>3, <3>4, <3>5
  <2> QED
    BY <2>1, <2>2
<1>8. ASSUME NEW i \in 1 .. h, r[i].about = q, r[i].value
      PROVE  \E l \in i + 1 .. h : Awakes(r[l], q)
  <2>1. PICK j \in 1 .. k : j # m /\ i = f[j] /\ r[i] = s[j]
    BY <1>4
  <2>2. PICK l \in j + 1 .. k : Awakes(s[l], q)
    BY <1>8, <2>1 DEF Busy
  <2>3. l \in 1 .. k /\ j < l
    BY <2>2
  <2>4. l # m
    <3> SUFFICES ASSUME l = m PROVE FALSE
      OBVIOUS
    <3>1. s[m].about = q /\ j \in 1 .. m - 1
      BY <2>2, <2>3 DEF Awakes
    <3> QED
      BY <1>8, <2>1, <3>1
  <2>5. f[l] \in 1 .. h /\ r[f[l]] = s[l] /\ i < f[l]
    BY <1>3, <1>5, <2>1, <2>3, <2>4
  <2>6. f[l] \in i + 1 .. h
    BY <1>6, <2>5
  <2> QED
    BY <2>2, <2>5, <2>6
<1> QED
  BY <1>7, <1>8 DEF Busy, r, h

-----------------------------------------------------------------------------
(* What a step may not do while its thread posts a note, or is not there yet. *)
LEMMA Stuck ==
  ASSUME TypeOK, Working, [Next]_vars
  PROVE  /\ ~Able("js") /\ running.js = "task" => running'.js = "task"
         /\ ~Able("main") /\ running.main = "task" => running'.main = "task"
         /\ ~Able("main") => at' = at
         /\ at \in Late => at' \in Late
         /\ interrupted => interrupted'
<1> DEFINE Goal == /\ ~Able("js") /\ running.js = "task" => running'.js = "task"
                   /\ ~Able("main") /\ running.main = "task" => running'.main = "task"
                   /\ ~Able("main") => at' = at
                   /\ at \in Late => at' \in Late
                   /\ interrupted => interrupted'
<1> USE DEF TypeOK, queueVars, history
<1>1. UNCHANGED <<running, at, interrupted>> => Goal
  OBVIOUS
<1>2. ASSUME UNCHANGED vars \/ HandleNote PROVE Goal
  BY <1>1, <1>2 DEF vars, HandleNote
<1>3. ASSUME NEW t \in Threads, PostNote(t) \/ CancelTimer(t) \/ ProcessExit(t) \/ ExitMainQueue(t)
      PROVE  Goal
  BY <1>1, <1>3 DEF PostNote, CancelTimer, ProcessExit, ExitMainQueue
<1>4. ASSUME NEW t \in Threads, NEW q \in Queues, Submit(t, q) PROVE Goal
  BY <1>4 DEF Submit
<1>5. ASSUME NEW q \in Queues, RunNextTask(q) \/ TaskDone(q) PROVE Goal
  BY <1>5 DEF RunNextTask, TaskDone, Handles, Queues
<1>6. ASSUME NEW q \in Queues, QueueEmpty(q) PROVE Goal
  BY <1>1, <1>6 DEF QueueEmpty
<1>7. ASSUME DispatchSync PROVE Goal
  BY <1>1, <1>7 DEF DispatchSync
<1>8. ASSUME PostInit \/ EvalScript \/ FlushUpdatesSync \/ UpdatesFlushed \/ FullTeardown PROVE Goal
  <2>1. /\ UNCHANGED <<running, interrupted>>
        /\ \E from, to \in Places : MainGoes(from, to) /\ (from \in Late => to \in Late)
    BY <1>8 DEF PostInit, EvalScript, FlushUpdatesSync, UpdatesFlushed, FullTeardown, Places, Late
  <2>2. Able("main") /\ (at \in Late => at' \in Late)
    BY <2>1 DEF MainGoes
  <2> QED
    BY <2>1, <2>2
<1>9. ASSUME RunScript PROVE Goal
  BY <1>9 DEF RunScript, MainGoes, Late, Queues
<1>10. ASSUME ScriptEvaluated \/ ScriptFailed PROVE Goal
  BY <1>10 DEF ScriptEvaluated, ScriptFailed, MainGoes, Late, Queues, Working
<1> HIDE DEF Goal
<1>11. Goal
  BY <1>2, <1>3, <1>4, <1>5, <1>6, <1>7, <1>8, <1>9, <1>10
     DEF Next, JsThread, MainThread, OtherThreads, Code, Threads, Queues
<1> QED
  BY <1>11 DEF Goal

(* The note that is handled is the first one about its queue. *)
LEMMA FirstInTurn ==
  ASSUME TypeOK, InTurn, NEW i \in 1 .. Len(notes), First(i), notes[i].about \in Queues,
         NEW j \in 1 .. i - 1
  PROVE  notes[j].about # notes[i].about
<1>1. j \in 1 .. Len(notes) /\ ~notes[j].posted /\ j < i
  BY NotesDomain DEF First
<1> QED
  BY <1>1 DEF InTurn

(* Where the notes are that are left when one is removed. *)
LEMMA LeftLen ==
  ASSUME NEW s \in Seq(Note), NEW m \in 1 .. Len(s)
  PROVE  Len(RemoveAt(s, m)) = Len(s) - 1 /\ Len(s) \in Nat
  BY Removed, LenProperties

LEMMA LeftFrom ==
  ASSUME NEW s \in Seq(Note), NEW m \in 1 .. Len(s), NEW i \in 1 .. Len(RemoveAt(s, m))
  PROVE  \E l \in 1 .. Len(s) :
           l # m /\ RemoveAt(s, m)[i] = s[l] /\ l = IF i < m THEN i ELSE i + 1
<1>1. Len(s) \in Nat /\ i \in 1 .. Len(s) - 1
  BY LeftLen
<1>2. RemoveAt(s, m)[i] = IF i < m THEN s[i] ELSE s[i + 1]
  BY <1>1, Removed
<1>3. CASE i < m
  <2>1. i \in 1 .. Len(s) /\ i # m
    BY <1>1, <1>3
  <2> QED
    BY <1>2, <1>3, <2>1
<1>4. CASE ~(i < m)
  <2>1. i + 1 \in 1 .. Len(s) /\ i + 1 # m
    BY <1>1, <1>4
  <2> QED
    BY <1>2, <1>4, <2>1
<1> QED
  BY <1>3, <1>4

LEMMA LeftTo ==
  ASSUME NEW s \in Seq(Note), NEW m \in 1 .. Len(s), NEW l \in 1 .. Len(s), l # m
  PROVE  \E i \in 1 .. Len(RemoveAt(s, m)) :
           RemoveAt(s, m)[i] = s[l] /\ i = IF l < m THEN l ELSE l - 1
<1>1. Len(s) \in Nat /\ Len(RemoveAt(s, m)) = Len(s) - 1
  BY LeftLen
<1>2. CASE l < m
  <2>1. l \in 1 .. Len(s) - 1
    BY <1>1, <1>2
  <2>2. RemoveAt(s, m)[l] = s[l]
    BY <1>2, <2>1, Removed
  <2> QED
    BY <1>1, <1>2, <2>1, <2>2
<1>3. CASE ~(l < m)
  <2>1. l - 1 \in 1 .. Len(s) - 1 /\ ~(l - 1 < m) /\ (l - 1) + 1 = l
    BY <1>1, <1>3
  <2>2. RemoveAt(s, m)[l - 1] = s[l]
    BY <2>1, Removed
  <2> QED
    BY <1>1, <1>3, <2>1, <2>2
<1> QED
  BY <1>2, <1>3

-----------------------------------------------------------------------------
(* What the notes say of a queue stays right, one effect at a time. *)
LEMMA ViewsPosts ==
  ASSUME TypeOK, Views, NEW i \in 1 .. Len(notes), Posts(i)
  PROVE  Views'
<1> DEFINE p == [notes EXCEPT ![i].posted = TRUE]
<1>1. /\ notes' = p /\ Len(p) = Len(notes) /\ Len(notes) \in Nat
      /\ \A j \in 1 .. Len(notes) : p[j].about = notes[j].about /\ p[j].value = notes[j].value
  BY Posted, NotesDomain DEF Posts, TypeOK
<1>2. \A q \in Queues : Busy(p, seen, q, Len(notes)) <=> Busy(notes, seen, q, Len(notes))
  <2> TAKE q \in Queues
  <2>1. Len(notes) \in 0 .. Len(notes) /\ notes \in Seq(Note)
    BY <1>1 DEF TypeOK
  <2> QED
    BY <2>1, BusyPosted
<1> HIDE DEF p
<1>3. ASSUME NEW q \in Queues
      PROVE  /\ ~empty'[q] \/ q \notin listening' => Busy(notes', seen', q, Len(notes'))
             /\ \A j \in 1 .. Len(notes') : notes'[j].about = q =>
                  /\ q \in listening'
                  /\ empty'[q] /\ ~notes'[j].value => \E l \in j + 1 .. Len(notes') : notes'[l].about = q
  <2>1. UNCHANGED <<seen, empty, listening>>
    BY DEF Posts
  <2>2. ~empty'[q] \/ q \notin listening' => Busy(notes', seen', q, Len(notes'))
    BY <1>1, <1>2, <2>1 DEF Views
  <2>3. ASSUME NEW j \in 1 .. Len(notes'), notes'[j].about = q
        PROVE  /\ q \in listening'
               /\ empty'[q] /\ ~notes'[j].value => \E l \in j + 1 .. Len(notes') : notes'[l].about = q
    <3>1. j \in 1 .. Len(notes) /\ notes[j].about = q /\ notes'[j].value = notes[j].value
      BY <1>1, <2>3
    <3>2. q \in listening
      BY <3>1 DEF Views
    <3>3. ASSUME empty[q], ~notes[j].value
          PROVE  \E l \in j + 1 .. Len(notes') : notes'[l].about = q
      <4>1. PICK l \in j + 1 .. Len(notes) : notes[l].about = q
        BY <3>1, <3>3 DEF Views
      <4>2. l \in 1 .. Len(notes)
        BY <1>1, <4>1
      <4> QED
        BY <1>1, <4>1, <4>2
    <3> QED
      BY <2>1, <3>1, <3>2, <3>3
  <2> QED
    BY <2>2, <2>3
<1> QED
  BY <1>3 DEF Views

LEMMA ViewsHandled ==
  ASSUME TypeOK, Views, InTurn, NEW m \in 1 .. Len(notes), Handled(m), seen' \in [Queues -> BOOLEAN]
  PROVE  Views'
<1> DEFINE r == RemoveAt(notes, m)
<1>1. notes \in Seq(Note) /\ seen \in [Queues -> BOOLEAN] /\ notes[m] \in Note
  BY ElementOfSeq DEF TypeOK
<1>2. notes' = r /\ Len(r) = Len(notes) - 1 /\ Len(notes) \in Nat
  BY <1>1, LeftLen DEF Handled
<1>3. \A q \in Queues : notes[m].about = q => \A j \in 1 .. m - 1 : notes[j].about # q
  BY FirstInTurn DEF Handled
<1>4. ASSUME NEW q \in Queues
      PROVE  IF notes[m].about = q THEN seen'[q] = notes[m].value ELSE seen'[q] = seen[q]
  BY <1>1, <1>4 DEF Handled, Seen
<1>5. ASSUME NEW q \in Queues
      PROVE  /\ ~empty'[q] \/ q \notin listening' => Busy(notes', seen', q, Len(notes'))
             /\ \A j \in 1 .. Len(notes') : notes'[j].about = q =>
                  /\ q \in listening'
                  /\ empty'[q] /\ ~notes'[j].value => \E l \in j + 1 .. Len(notes') : notes'[l].about = q
  <2>1. UNCHANGED <<empty, listening>>
    BY DEF Handled
  <2>2. ASSUME ~empty[q] \/ q \notin listening
        PROVE  Busy(r, seen', q, Len(r))
    <3>1. Busy(notes, seen, q, Len(notes))
      BY <2>2 DEF Views
    <3>2. Len(notes) \in 0 .. Len(notes) /\ m <= Len(notes)
      BY <1>2
    <3>3. Busy(r, seen', q, IF m <= Len(notes) THEN Len(notes) - 1 ELSE Len(notes))
      BY <1>1, <1>3, <1>4, <3>1, <3>2, BusyHandled
    <3> QED
      BY <1>2, <3>2, <3>3
  <2>3. ASSUME NEW j \in 1 .. Len(r), r[j].about = q
        PROVE  /\ q \in listening
               /\ empty[q] /\ ~r[j].value => \E l \in j + 1 .. Len(r) : r[l].about = q
    <3>1. PICK i \in 1 .. Len(notes) : i # m /\ r[j] = notes[i] /\ i = IF j < m THEN j ELSE j + 1
      BY <1>1, LeftFrom
    <3>2. q \in listening
      BY <2>3, <3>1 DEF Views
    <3>3. ASSUME empty[q], ~r[j].value
          PROVE  \E l \in j + 1 .. Len(r) : r[l].about = q
      <4>1. PICK l \in i + 1 .. Len(notes) : notes[l].about = q
        BY <2>3, <3>1, <3>3 DEF Views
      <4>2. l \in 1 .. Len(notes) /\ i < l
        BY <1>2, <4>1
      <4>3. l # m
        <5> SUFFICES ASSUME l = m PROVE FALSE
          OBVIOUS
        <5>1. notes[m].about = q /\ i \in 1 .. m - 1
          BY <4>1, <4>2
        <5> QED
          BY <1>3, <2>3, <3>1, <5>1
      <4>4. PICK h \in 1 .. Len(r) : r[h] = notes[l] /\ h = IF l < m THEN l ELSE l - 1
        BY <1>1, <4>2, <4>3, LeftTo
      <4>5. h \in j + 1 .. Len(r)
        BY <1>2, <3>1, <4>2, <4>3, <4>4
      <4> QED
        BY <4>1, <4>4, <4>5
    <3> QED
      BY <3>2, <3>3
  <2> HIDE DEF r
  <2> QED
    BY <1>2, <2>1, <2>2, <2>3
<1> QED
  BY <1>5 DEF Views

(* A note about q that was appended, q being told empty or not by it. *)
LEMMA ViewsAppended ==
  ASSUME TypeOK, Views, NEW n \in Note, notes' = Append(notes, n), UNCHANGED <<seen, listening>>,
         \A q \in Queues : n.about = q => q \in listening /\ empty'[q] = n.value,
         \A q \in Queues : n.about # q => empty'[q] = empty[q]
  PROVE  Views'
<1> DEFINE a == Append(notes, n)
<1>1. notes \in Seq(Note) /\ Len(notes) \in Nat
  BY NotesDomain DEF TypeOK
<1>2. /\ notes' = a /\ Len(a) = Len(notes) + 1 /\ a[Len(notes) + 1] = n
      /\ \A j \in 1 .. Len(notes) : a[j] = notes[j]
  BY <1>1, Appended
<1>3. ASSUME NEW q \in Queues
      PROVE  /\ ~empty'[q] \/ q \notin listening' => Busy(notes', seen', q, Len(notes'))
             /\ \A j \in 1 .. Len(notes') : notes'[j].about = q =>
                  /\ q \in listening'
                  /\ empty'[q] /\ ~notes'[j].value => \E l \in j + 1 .. Len(notes') : notes'[l].about = q
  <2>1. ASSUME ~empty'[q] \/ q \notin listening
        PROVE  Busy(a, seen, q, Len(notes) + 1)
    <3>1. CASE n.about = q
      <4>1. Awakes(n, q)
        BY <2>1, <3>1, Zenon DEF Awakes
      <4> QED
        BY <1>1, <4>1, BusyWoken
    <3>2. CASE n.about # q
      <4>1. Busy(notes, seen, q, Len(notes))
        BY <2>1, <3>2 DEF Views
      <4> QED
        BY <1>1, <3>2, <4>1, BusyOther
    <3> QED
      BY <3>1, <3>2
  <2> HIDE DEF a
  <2>2. ASSUME NEW j \in 1 .. Len(a), a[j].about = q
        PROVE  /\ q \in listening
               /\ empty'[q] /\ ~a[j].value => \E l \in j + 1 .. Len(a) : a[l].about = q
    <3>1. CASE j = Len(notes) + 1
      <4>1. n.about = q /\ a[j] = n
        BY <1>2, <2>2, <3>1
      <4>2. q \in listening /\ empty'[q] = n.value
        BY <4>1
      <4>3. ~(empty'[q] /\ ~a[j].value)
        BY <4>1, <4>2, Zenon
      <4> QED
        BY <4>2, <4>3
    <3>2. CASE j # Len(notes) + 1
      <4>1. j \in 1 .. Len(notes) /\ a[j] = notes[j] /\ notes[j].about = q
        BY <1>1, <1>2, <2>2, <3>2
      <4>2. q \in listening
        BY <4>1 DEF Views
      <4>3. ASSUME empty'[q], ~a[j].value
            PROVE  \E l \in j + 1 .. Len(a) : a[l].about = q
        <5>1. CASE n.about = q
          BY <1>1, <1>2, <4>1, <5>1
        <5>2. CASE n.about # q
          <6>1. PICK l \in j + 1 .. Len(notes) : notes[l].about = q
            BY <4>1, <4>3, <5>2 DEF Views
          <6>2. l \in 1 .. Len(notes)
            BY <1>1, <4>1, <6>1
          <6> QED
            BY <1>1, <1>2, <6>1, <6>2
        <5> QED
          BY <5>1, <5>2
      <4> QED
        BY <4>2, <4>3
    <3> QED
      BY <3>1, <3>2
  <2> QED
    BY <1>2, <2>1, <2>2
<1> QED
  BY <1>3 DEF Views

LEMMA ViewsStep ==
  ASSUME TypeOK, Views, InTurn, [Next]_vars
  PROVE  Views'
<1>1. CASE Silent
  BY <1>1 DEF Silent, Views
<1>2. ASSUME NEW i \in 1 .. Len(notes), Posts(i) PROVE Views'
  BY <1>2, ViewsPosts
<1>3. ASSUME NEW i \in 1 .. Len(notes), Handled(i) PROVE Views'
  BY <1>3, NotesStep, ViewsHandled
<1>4. ASSUME NEW n \in Note, Announces(n) PROVE Views'
  BY <1>4, ViewsAppended DEF Announces
<1>5. ASSUME NEW q \in Queues, NEW t \in Threads, Wakes(q, t) PROVE Views'
  <2> DEFINE n == [about |-> q, value |-> FALSE, by |-> t, posted |-> FALSE]
  <2>1. n \in Note /\ n.about = q /\ n.value = FALSE
    BY DEF Note
  <2>2. empty \in [Queues -> BOOLEAN]
    BY DEF TypeOK
  <2>3. \A p \in Queues : empty'[p] = IF p = q THEN FALSE ELSE empty[p]
    BY <1>5, <2>2 DEF Wakes
  <2>4. q \in listening /\ notes' = Append(notes, n) /\ UNCHANGED <<seen, listening>>
    BY <1>5 DEF Wakes
  <2> HIDE DEF n
  <2> QED
    BY <2>1, <2>3, <2>4, ViewsAppended
<1>6. ASSUME NEW q \in Queues, Empties(q) PROVE Views'
  <2> DEFINE n == [about |-> q, value |-> TRUE, by |-> q, posted |-> FALSE]
  <2>1. n \in Note /\ n.about = q /\ n.value = TRUE
    BY DEF Note, Queues, Threads
  <2>2. empty \in [Queues -> BOOLEAN]
    BY DEF TypeOK
  <2>3. \A p \in Queues : empty'[p] = IF p = q THEN TRUE ELSE empty[p]
    BY <1>6, <2>2 DEF Empties
  <2>4. q \in listening /\ notes' = Append(notes, n) /\ UNCHANGED <<seen, listening>>
    BY <1>6 DEF Empties
  <2> HIDE DEF n
  <2> QED
    BY <2>1, <2>3, <2>4, ViewsAppended
<1> QED
  BY <1>1, <1>2, <1>3, <1>4, <1>5, <1>6, Effects

(* The effects that append a note: of a queue that nobody speaks of then, and *)
(* that the main queue is empty only while its thread loops on it.            *)
Appends(n) ==
  /\ n \in Note /\ notes' = Append(notes, n) /\ seen' = seen
  /\ \A q \in Queues : n.about = q => Unlocked(q)
  /\ n.about = "main" /\ n.value => at = "loop"

LEMMA AppendEffects ==
  ASSUME TypeOK, [Next]_vars
  PROVE  \/ notes' = notes /\ seen' = seen
         \/ \E i \in 1 .. Len(notes) : Posts(i) \/ Handled(i)
         \/ \E n \in Note : Appends(n)
<1>1. ASSUME NEW n \in Note, Announces(n) PROVE Appends(n)
  BY <1>1 DEF Announces, Appends, Queues
<1>2. ASSUME NEW q \in Queues, NEW t \in Threads, Wakes(q, t) PROVE \E n \in Note : Appends(n)
  <2> DEFINE n == [about |-> q, value |-> FALSE, by |-> t, posted |-> FALSE]
  <2>1. n \in Note /\ n.about = q /\ ~n.value
    BY DEF Note
  <2>2. notes' = Append(notes, n) /\ seen' = seen /\ Unlocked(q)
    BY <1>2 DEF Wakes
  <2> HIDE DEF n
  <2>3. Appends(n)
    BY <2>1, <2>2 DEF Appends
  <2> QED
    BY <2>1, <2>3
<1>3. ASSUME NEW q \in Queues, Empties(q) PROVE \E n \in Note : Appends(n)
  <2> DEFINE n == [about |-> q, value |-> TRUE, by |-> q, posted |-> FALSE]
  <2>1. n \in Note /\ n.about = q
    BY DEF Note, Queues, Threads
  <2>2. notes' = Append(notes, n) /\ seen' = seen /\ Unlocked(q) /\ (q = "main" => at = "loop")
    BY <1>3 DEF Empties, Handles
  <2> HIDE DEF n
  <2>3. Appends(n)
    BY <2>1, <2>2 DEF Appends
  <2> QED
    BY <2>1, <2>3
<1> QED
  BY <1>1, <1>2, <1>3, Effects DEF Silent

LEMMA InTurnStep ==
  ASSUME TypeOK, InTurn, [Next]_vars
  PROVE  InTurn'
<1>1. notes \in Seq(Note) /\ Len(notes) \in Nat
  BY NotesDomain DEF TypeOK
<1>2. CASE notes' = notes
  BY <1>2 DEF InTurn
<1>3. ASSUME NEW m \in 1 .. Len(notes), Posts(m) PROVE InTurn'
  <2> DEFINE p == [notes EXCEPT ![m].posted = TRUE]
  <2>1. /\ notes' = p /\ Len(p) = Len(notes)
        /\ \A j \in 1 .. Len(notes) : p[j].about = notes[j].about /\ (notes[j].posted => p[j].posted)
    BY <1>1, <1>3, Posted DEF Posts
  <2> HIDE DEF p
  <2>2. \A i, j \in 1 .. Len(p) :
          i < j /\ p[i].about \in Queues /\ ~p[i].posted => p[j].about # p[i].about
    BY <2>1 DEF InTurn
  <2> QED
    BY <2>1, <2>2 DEF InTurn
<1>4. ASSUME NEW m \in 1 .. Len(notes), Handled(m) PROVE InTurn'
  <2> DEFINE r == RemoveAt(notes, m)
  <2>1. notes' = r /\ Len(r) \in Nat
    BY <1>1, <1>4, LeftLen DEF Handled
  <2>2. ASSUME NEW i \in 1 .. Len(r), NEW j \in 1 .. Len(r), i < j, r[i].about \in Queues, ~r[i].posted
        PROVE  r[j].about # r[i].about
    <3>1. PICK k \in 1 .. Len(notes) : k # m /\ r[i] = notes[k] /\ k = IF i < m THEN i ELSE i + 1
      BY <1>1, LeftFrom
    <3>2. PICK l \in 1 .. Len(notes) : l # m /\ r[j] = notes[l] /\ l = IF j < m THEN j ELSE j + 1
      BY <1>1, LeftFrom
    <3>3. k < l
      BY <1>1, <2>2, <3>1, <3>2
    <3> QED
      BY <2>2, <3>1, <3>2, <3>3 DEF InTurn
  <2> HIDE DEF r
  <2> QED
    BY <2>1, <2>2 DEF InTurn
<1>5. ASSUME NEW n \in Note, Appends(n) PROVE InTurn'
  <2> DEFINE a == Append(notes, n)
  <2>1. /\ notes' = a /\ Len(a) = Len(notes) + 1 /\ a[Len(notes) + 1] = n
        /\ \A j \in 1 .. Len(notes) : a[j] = notes[j]
    BY <1>1, <1>5, Appended DEF Appends
  <2> HIDE DEF a
  <2>2. ASSUME NEW i \in 1 .. Len(a), NEW j \in 1 .. Len(a), i < j, a[i].about \in Queues, ~a[i].posted
        PROVE  a[j].about # a[i].about
    <3>1. i \in 1 .. Len(notes) /\ a[i] = notes[i]
      BY <1>1, <2>1, <2>2
    <3>2. CASE j \in 1 .. Len(notes)
      BY <2>1, <2>2, <3>1, <3>2 DEF InTurn
    <3>3. CASE j \notin 1 .. Len(notes)
      <4>1. a[j] = n
        BY <1>1, <2>1, <3>3
      <4>2. n.about = notes[i].about => Unlocked(notes[i].about)
        BY <1>5, <2>2, <3>1 DEF Appends
      <4> QED
        BY <2>2, <3>1, <4>1, <4>2, NotesDomain DEF Unlocked
    <3> QED
      BY <3>2, <3>3
  <2> QED
    BY <2>1, <2>2 DEF InTurn
<1> QED
  BY <1>2, <1>3, <1>4, <1>5, AppendEffects

LEMMA UnheardStep ==
  ASSUME TypeOK, Working, Unheard, [Next]_vars
  PROVE  Unheard'
<1> SUFFICES ASSUME at' \notin Late
             PROVE  /\ ~seen'.main
                    /\ \A j \in 1 .. Len(notes') : ~(notes'[j].about = "main" /\ notes'[j].value)
  BY DEF Unheard
<1>1. notes \in Seq(Note) /\ Len(notes) \in Nat /\ seen \in [Queues -> BOOLEAN]
  BY NotesDomain DEF TypeOK
<1>2. at \notin Late
  BY Stuck
<1>3. ~seen.main /\ \A j \in 1 .. Len(notes) : ~(notes[j].about = "main" /\ notes[j].value)
  BY <1>2 DEF Unheard
<1> DEFINE Goal == /\ ~seen'.main
                   /\ \A j \in 1 .. Len(notes') : ~(notes'[j].about = "main" /\ notes'[j].value)
<1>4. CASE notes' = notes /\ seen' = seen
  BY <1>3, <1>4
<1>5. ASSUME NEW m \in 1 .. Len(notes), Posts(m) PROVE Goal
  <2>1. /\ seen' = seen /\ Len(notes') = Len(notes)
        /\ \A j \in 1 .. Len(notes) : notes'[j].about = notes[j].about /\ notes'[j].value = notes[j].value
    BY <1>1, <1>5, Posted DEF Posts
  <2> QED
    BY <1>3, <2>1
<1>6. ASSUME NEW m \in 1 .. Len(notes), Handled(m) PROVE Goal
  <2>1. notes' = RemoveAt(notes, m) /\ seen' = Seen(notes[m])
    BY <1>6 DEF Handled
  <2>2. ASSUME NEW j \in 1 .. Len(RemoveAt(notes, m))
        PROVE  \E l \in 1 .. Len(notes) : RemoveAt(notes, m)[j] = notes[l]
    BY <1>1, LeftFrom
  <2>3. ~seen'.main
    <3>1. CASE notes[m].about = "main"
      <4>1. seen' = [seen EXCEPT !["main"] = notes[m].value] /\ ~notes[m].value
        BY <1>3, <2>1, <3>1 DEF Seen, Queues
      <4>2. seen'.main = notes[m].value
        BY <1>1, <4>1 DEF Queues
      <4> QED
        BY <4>1, <4>2, Zenon
    <3>2. CASE notes[m].about # "main"
      <4>1. seen'.main = seen.main
        BY <1>1, <2>1, <3>2 DEF Seen, Queues
      <4> QED
        BY <1>3, <4>1, Zenon
    <3> QED
      BY <3>1, <3>2
  <2>4. ASSUME NEW j \in 1 .. Len(notes') PROVE ~(notes'[j].about = "main" /\ notes'[j].value)
    <3>1. PICK l \in 1 .. Len(notes) : notes'[j] = notes[l]
      BY <2>1, <2>2
    <3> QED
      BY <1>3, <3>1
  <2> QED
    BY <2>3, <2>4
<1>7. ASSUME NEW n \in Note, Appends(n) PROVE Goal
  <2>1. /\ seen' = seen /\ Len(notes') = Len(notes) + 1 /\ notes'[Len(notes) + 1] = n
        /\ \A j \in 1 .. Len(notes) : notes'[j] = notes[j]
    BY <1>1, <1>7, Appended DEF Appends
  <2>2. ~(n.about = "main" /\ n.value)
    BY <1>2, <1>7 DEF Appends, Late
  <2>3. ASSUME NEW j \in 1 .. Len(notes') PROVE ~(notes'[j].about = "main" /\ notes'[j].value)
    <3>1. CASE j = Len(notes) + 1
      BY <2>1, <2>2, <3>1
    <3>2. CASE j # Len(notes) + 1
      <4>1. j \in 1 .. Len(notes)
        BY <1>1, <2>1, <3>2
      <4> QED
        BY <1>3, <2>1, <4>1
    <3> QED
      BY <3>1, <3>2
  <2> QED
    BY <1>3, <2>1, <2>3
<1> QED
  BY <1>4, <1>5, <1>6, <1>7, AppendEffects

-----------------------------------------------------------------------------
(* Whoever wakes a queue up is busy, and its own queue is known to be.       *)
WokenThen(n) ==
  \/ n.by = "js" /\ n.about = "main" /\ running'.js = "task"
  \/ n.by = "main" /\ n.about = "js" /\ running'.main = "task"
  \/ n.by = "main" /\ at' = "script"

LEMMA WokenStep ==
  ASSUME TypeOK, Working, [Next]_vars, NEW i \in 1 .. Len(notes), ~notes[i].posted, Woken(notes[i])
  PROVE  WokenThen(notes[i])
<1>1. ~Able(notes[i].by)
  BY NotesDomain DEF Able
<1> QED
  BY <1>1, Stuck DEF Woken, WokenThen

(* A thread of the program that submits to a queue told empty. *)
LEMMA Cause ==
  ASSUME TypeOK, Views, Working, Unheard, NEW q \in Queues, NEW t \in Threads, Wakes(q, t), t # "outside"
  PROVE  /\ \/ t = "js" /\ q = "main" /\ running.js = "task"
            \/ t = "main" /\ q = "js" /\ running.main = "task"
            \/ t = "main" /\ at = "script"
         /\ \E p \in Queues : Busy(notes, seen, p, Len(notes))
<1>1. /\ \A p \in Queues : empty[p] => running[p] # "task"
      /\ empty[q]
  BY DEF Wakes, Working
<1>2. \A p \in Queues : ~empty[p] => Busy(notes, seen, p, Len(notes))
  BY DEF Views
<1>3. CASE t = "js"
  <2>1. running.js = "task"
    BY <1>3 DEF Wakes, InCode, InScript
  <2> QED
    BY <1>1, <1>2, <1>3, <2>1 DEF Queues
<1>4. CASE t = "main" /\ at = "script"
  <2>1. ~seen.main /\ \A j \in 1 .. Len(notes) : ~(notes[j].about = "main" /\ notes[j].value)
    BY <1>4 DEF Unheard, Late
  <2>2. Busy(notes, seen, "main", Len(notes))
    BY <2>1 DEF Busy
  <2> QED
    BY <1>4, <2>2 DEF Queues
<1>5. CASE t = "main" /\ at # "script"
  <2>1. running.main = "task"
    BY <1>5 DEF Wakes, InCode, InScript
  <2> QED
    BY <1>1, <1>2, <1>5, <2>1 DEF Queues
<1> QED
  BY <1>3, <1>4, <1>5 DEF Threads

(* Nobody speaks of a queue while one has yet to post that a queue woke up. *)
LEMMA Quiet ==
  ASSUME TypeOK, Views, Working, Unheard, Causes, ~interrupted, NEW q \in Queues,
         Empties(q) \/ \E t \in Threads : Wakes(q, t) /\ t # "outside",
         NEW i \in 1 .. Len(notes), Awakening(notes[i])
  PROVE  notes[i].posted
<1> SUFFICES ASSUME ~notes[i].posted PROVE FALSE
  OBVIOUS
<1>1. Woken(notes[i]) /\ ~Able(notes[i].by)
  BY NotesDomain DEF Causes, Able
<1>2. ~Unlocked(notes[i].about) /\ notes[i].about \in Queues
  BY NotesDomain DEF Unlocked, Awakening
<1>3. ASSUME NEW t \in Threads, Wakes(q, t), t # "outside" PROVE FALSE
  <2>1. \/ t = "js" /\ q = "main" /\ running.js = "task"
        \/ t = "main" /\ q = "js" /\ running.main = "task"
        \/ t = "main" /\ at = "script"
    BY <1>3, Cause
  <2>2. Able(t) /\ running[q] # "task"
    BY <1>3 DEF Wakes, InCode, Working
  <2>3. notes[i].by # t
    BY <1>1, <2>2
  <2> QED
    BY <1>1, <2>1, <2>2, <2>3 DEF Woken, Working
<1>4. ASSUME Empties(q) PROVE FALSE
  <2>1. Able(q) /\ Unlocked(q) /\ running[q] = "none" /\ (q = "main" => at = "loop")
    BY <1>4 DEF Empties, Handles
  <2>2. notes[i].by # q /\ notes[i].about # q
    BY <1>1, <1>2, <2>1
  <2> QED
    BY <1>1, <1>2, <2>1, <2>2 DEF Woken, Working, Queues
<1> QED
  BY <1>3, <1>4

LEMMA CausesAppended ==
  ASSUME TypeOK, Working, Causes, [Next]_vars, ~interrupted, ~interrupted',
         NEW n \in Note, notes' = Append(notes, n), seen' = seen,
         n.about \in Queues => \A i \in 1 .. Len(notes) : Awakening(notes[i]) => notes[i].posted,
         Awakening(n) => WokenThen(n) /\ \E p \in Queues : Busy(notes, seen, p, Len(notes))
  PROVE  Causes'
<1> DEFINE a == Append(notes, n)
<1>1. notes \in Seq(Note) /\ Len(notes) \in Nat
  BY NotesDomain DEF TypeOK
<1>2. /\ notes' = a /\ Len(a) = Len(notes) + 1 /\ a[Len(notes) + 1] = n
      /\ \A j \in 1 .. Len(notes) : a[j] = notes[j]
  BY <1>1, Appended
<1>3. \A k \in 0 .. Len(notes) : \A q \in Queues : Busy(a, seen, q, k) <=> Busy(notes, seen, q, k)
  BY <1>1, BusyAppended
<1> HIDE DEF a
<1>4. ASSUME NEW i \in 1 .. Len(notes), Awakening(notes[i])
      PROVE  /\ \A k \in 0 .. i - 1 : \E q \in Queues : Busy(a, seen, q, k)
             /\ ~notes[i].posted => WokenThen(notes[i])
             /\ ~notes[i].posted => \A j \in i + 1 .. Len(a) : a[j].about \notin Queues
  <2>1. ASSUME NEW k \in 0 .. i - 1 PROVE \E q \in Queues : Busy(a, seen, q, k)
    <3>1. k \in 0 .. Len(notes)
      BY <1>1
    <3>2. PICK q \in Queues : Busy(notes, seen, q, k)
      BY <1>4 DEF Causes
    <3> QED
      BY <1>3, <3>1, <3>2
  <2>2. ASSUME ~notes[i].posted PROVE WokenThen(notes[i])
    <3>1. Woken(notes[i])
      BY <1>4, <2>2 DEF Causes
    <3> QED
      BY <2>2, <3>1, WokenStep
  <2>3. ASSUME ~notes[i].posted, NEW j \in i + 1 .. Len(a) PROVE a[j].about \notin Queues
    <3>1. CASE j = Len(notes) + 1
      BY <1>2, <1>4, <2>3, <3>1
    <3>2. CASE j # Len(notes) + 1
      <4>1. j \in i + 1 .. Len(notes) /\ j \in 1 .. Len(notes)
        BY <1>1, <1>2, <3>2
      <4> QED
        BY <1>2, <1>4, <2>3, <4>1 DEF Causes
    <3> QED
      BY <3>1, <3>2
  <2> QED
    BY <2>1, <2>2, <2>3
<1>5. ASSUME Awakening(n), NEW k \in 0 .. Len(notes) PROVE \E q \in Queues : Busy(a, seen, q, k)
  <2>1. CASE \E i \in k + 1 .. Len(notes) : Awakening(notes[i])
    <3>1. PICK i \in k + 1 .. Len(notes) : Awakening(notes[i])
      BY <2>1
    <3>2. i \in 1 .. Len(notes) /\ k \in 0 .. i - 1
      BY <1>1, <3>1
    <3> QED
      BY <1>4, <3>1, <3>2
  <2>2. CASE \A i \in k + 1 .. Len(notes) : ~Awakening(notes[i])
    <3>1. PICK p \in Queues : Busy(notes, seen, p, Len(notes))
      BY <1>5
    <3>2. \A i \in k + 1 .. Len(notes) : ~Awakes(notes[i], p)
      BY <2>2 DEF Awakening, Awakes
    <3>3. Busy(notes, seen, p, k)
      BY <1>1, <3>1, <3>2, BusyShorter
    <3> QED
      BY <1>3, <3>3
  <2> QED
    BY <2>1, <2>2
<1>6. ASSUME NEW i \in 1 .. Len(a), Awakening(a[i])
      PROVE  /\ \A k \in 0 .. i - 1 : \E q \in Queues : Busy(a, seen, q, k)
             /\ ~a[i].posted => WokenThen(a[i])
             /\ ~a[i].posted => \A j \in i + 1 .. Len(a) : a[j].about \notin Queues
  <2>1. CASE i = Len(notes) + 1
    <3>1. a[i] = n /\ i - 1 = Len(notes) /\ \A j \in i + 1 .. Len(a) : FALSE
      BY <1>1, <1>2, <2>1
    <3> QED
      BY <1>5, <1>6, <3>1
  <2>2. CASE i # Len(notes) + 1
    <3>1. i \in 1 .. Len(notes) /\ a[i] = notes[i]
      BY <1>1, <1>2, <2>2
    <3> QED
      BY <1>4, <1>6, <3>1
  <2> QED
    BY <2>1, <2>2
<1> QED
  BY <1>2, <1>6 DEF Causes, Woken, WokenThen

LEMMA CausesPosts ==
  ASSUME TypeOK, Working, Causes, [Next]_vars, ~interrupted, NEW m \in 1 .. Len(notes), Posts(m)
  PROVE  Causes'
<1> DEFINE p == [notes EXCEPT ![m].posted = TRUE]
<1>1. notes \in Seq(Note) /\ Len(notes) \in Nat
  BY NotesDomain DEF TypeOK
<1>2. /\ notes' = p /\ Len(p) = Len(notes) /\ seen' = seen
      /\ \A j \in 1 .. Len(notes) :
           /\ p[j].about = notes[j].about /\ p[j].value = notes[j].value /\ p[j].by = notes[j].by
           /\ notes[j].posted => p[j].posted
  BY <1>1, Posted DEF Posts
<1>3. \A k \in 0 .. Len(notes) : \A q \in Queues : Busy(p, seen, q, k) <=> Busy(notes, seen, q, k)
  BY <1>1, BusyPosted
<1> HIDE DEF p
<1>4. ASSUME NEW i \in 1 .. Len(p), Awakening(p[i])
      PROVE  /\ \A k \in 0 .. i - 1 : \E q \in Queues : Busy(p, seen, q, k)
             /\ ~p[i].posted => WokenThen(p[i])
             /\ ~p[i].posted => \A j \in i + 1 .. Len(p) : p[j].about \notin Queues
  <2>1. i \in 1 .. Len(notes) /\ Awakening(notes[i])
    BY <1>2, <1>4 DEF Awakening
  <2>2. ASSUME NEW k \in 0 .. i - 1 PROVE \E q \in Queues : Busy(p, seen, q, k)
    <3>1. k \in 0 .. Len(notes)
      BY <1>1, <2>1
    <3>2. PICK q \in Queues : Busy(notes, seen, q, k)
      BY <2>1 DEF Causes
    <3> QED
      BY <1>3, <3>1, <3>2
  <2>3. ASSUME ~p[i].posted PROVE WokenThen(p[i])
    <3>1. ~notes[i].posted
      BY <1>2, <2>1, <2>3
    <3>2. WokenThen(notes[i])
      BY <2>1, <3>1, WokenStep DEF Causes
    <3> QED
      BY <1>2, <2>1, <3>2 DEF WokenThen
  <2>4. ASSUME ~p[i].posted, NEW j \in i + 1 .. Len(p) PROVE p[j].about \notin Queues
    <3>1. ~notes[i].posted
      BY <1>2, <2>1, <2>4
    <3>2. j \in i + 1 .. Len(notes) /\ j \in 1 .. Len(notes)
      BY <1>1, <1>2, <2>1
    <3> QED
      BY <1>2, <2>1, <3>1, <3>2 DEF Causes
  <2> QED
    BY <2>2, <2>3, <2>4
<1> QED
  BY <1>2, <1>4 DEF Causes, Woken, WokenThen

LEMMA CausesHandled ==
  ASSUME TypeOK, InTurn, Working, Causes, [Next]_vars, ~interrupted, NEW m \in 1 .. Len(notes), Handled(m)
  PROVE  Causes'
<1> DEFINE r == RemoveAt(notes, m)
<1>1. /\ notes \in Seq(Note) /\ Len(notes) \in Nat /\ seen \in [Queues -> BOOLEAN]
      /\ seen' \in [Queues -> BOOLEAN]
  BY NotesDomain, NotesStep DEF TypeOK
<1>2. notes' = r /\ Len(r) = Len(notes) - 1
  BY <1>1, LeftLen DEF Handled
<1>3. \A q \in Queues : notes[m].about = q => \A j \in 1 .. m - 1 : notes[j].about # q
  BY FirstInTurn DEF Handled
<1>4. ASSUME NEW q \in Queues
      PROVE  IF notes[m].about = q THEN seen'[q] = notes[m].value ELSE seen'[q] = seen[q]
  BY <1>1, <1>4 DEF Handled, Seen
<1>5. ASSUME NEW q \in Queues, NEW k \in m .. Len(notes), Busy(notes, seen, q, k)
      PROVE  Busy(r, seen', q, k - 1)
  <2>1. k \in 0 .. Len(notes) /\ m <= k
    BY <1>1
  <2>2. Busy(r, seen', q, IF m <= k THEN k - 1 ELSE k)
    BY <1>1, <1>3, <1>4, <1>5, <2>1, BusyHandled
  <2> QED
    BY <2>1, <2>2
<1>6. ASSUME NEW q \in Queues, NEW k \in 0 .. m - 1, Busy(notes, seen, q, k), notes[m].about # q
      PROVE  Busy(r, seen', q, k)
  <2>1. k \in 0 .. Len(notes) /\ ~(m <= k)
    BY <1>1
  <2>2. Busy(r, seen', q, IF m <= k THEN k - 1 ELSE k)
    BY <1>1, <1>4, <1>6, <2>1, BusyHandled
  <2> QED
    BY <2>1, <2>2
<1>7. ASSUME NEW j \in 1 .. Len(r), Awakening(r[j])
      PROVE  /\ \A k \in 0 .. j - 1 : \E q \in Queues : Busy(r, seen', q, k)
             /\ ~r[j].posted => WokenThen(r[j])
             /\ ~r[j].posted => \A l \in j + 1 .. Len(r) : r[l].about \notin Queues
  <2>1. PICK i \in 1 .. Len(notes) : i # m /\ r[j] = notes[i] /\ i = IF j < m THEN j ELSE j + 1
    BY <1>1, LeftFrom
  <2>2. /\ \A k \in 0 .. i - 1 : \E q \in Queues : Busy(notes, seen, q, k)
        /\ ~notes[i].posted => Woken(notes[i])
        /\ ~notes[i].posted => \A l \in i + 1 .. Len(notes) : notes[l].about \notin Queues
    BY <1>7, <2>1 DEF Causes
  <2>3. ASSUME NEW k \in 0 .. j - 1 PROVE \E q \in Queues : Busy(r, seen', q, k)
    <3>1. CASE k >= m - 1
      <4>1. k + 1 \in 0 .. i - 1 /\ k + 1 \in m .. Len(notes)
        BY <1>1, <2>1, <3>1
      <4>2. PICK q \in Queues : Busy(notes, seen, q, k + 1)
        BY <2>2, <4>1
      <4>3. Busy(r, seen', q, (k + 1) - 1)
        BY <1>5, <4>1, <4>2
      <4> QED
        BY <4>3
    <3>2. CASE k < m - 1 /\ notes[m].about \notin Queues
      <4>1. k \in 0 .. i - 1 /\ k \in 0 .. m - 1
        BY <1>1, <2>1, <3>2
      <4>2. PICK q \in Queues : Busy(notes, seen, q, k)
        BY <2>2, <4>1
      <4> QED
        BY <1>6, <3>2, <4>1, <4>2
    <3>3. CASE k < m - 1 /\ notes[m].about \in Queues
      <4>1. \A l \in 1 .. m - 1 : ~Awakening(notes[l])
        <5> SUFFICES ASSUME NEW l \in 1 .. m - 1, Awakening(notes[l]) PROVE FALSE
          OBVIOUS
        <5>1. l \in 1 .. Len(notes) /\ m \in l + 1 .. Len(notes) /\ ~notes[l].posted
          BY <1>1 DEF Handled, First
        <5> QED
          BY <3>3, <5>1 DEF Causes
      <4>2. i > m
        <5>1. ~(j < m)
          BY <1>1, <1>7, <2>1, <4>1
        <5> QED
          BY <1>1, <2>1, <5>1
      <4>3. m \in 0 .. i - 1 /\ m \in m .. Len(notes)
        BY <1>1, <4>2
      <4>4. PICK q \in Queues : Busy(notes, seen, q, m)
        BY <2>2, <4>3
      <4>5. Busy(r, seen', q, m - 1)
        BY <1>5, <4>3, <4>4
      <4>6. ASSUME NEW l \in k + 1 .. m - 1 PROVE ~Awakes(r[l], q)
        <5>1. l \in 1 .. Len(r) /\ l \in 1 .. m - 1 /\ l < m
          BY <1>1, <1>2
        <5>2. r[l] = notes[l]
          BY <1>1, <5>1, Removed
        <5> QED
          BY <4>1, <5>1, <5>2 DEF Awakening, Awakes
      <4>7. r \in Seq(Note) /\ m - 1 \in Nat /\ k \in 0 .. m - 1
        BY <1>1, <3>3, Removed
      <4> QED
        BY <4>5, <4>6, <4>7, BusyShorter
    <3>4. k \in Int /\ m \in Int
      BY <1>1
    <3> QED
      BY <3>1, <3>2, <3>3, <3>4
  <2>4. ASSUME ~r[j].posted PROVE WokenThen(r[j])
    BY <2>1, <2>2, <2>4, WokenStep
  <2>5. ASSUME ~r[j].posted, NEW l \in j + 1 .. Len(r) PROVE r[l].about \notin Queues
    <3>1. l \in 1 .. Len(r) /\ j < l
      BY <1>1, <1>2
    <3>0. notes \in Seq(Note) /\ l \in 1 .. Len(RemoveAt(notes, m))
      BY <1>1, <3>1
    <3>2. PICK h \in 1 .. Len(notes) : h # m /\ r[l] = notes[h] /\ h = IF l < m THEN l ELSE l + 1
      BY <3>0, LeftFrom
    <3>3. h \in i + 1 .. Len(notes)
      BY <1>1, <2>1, <3>1, <3>2
    <3> QED
      BY <2>1, <2>2, <2>5, <3>2, <3>3
  <2> HIDE DEF r
  <2> QED
    BY <2>3, <2>4, <2>5
<1> HIDE DEF r
<1> QED
  BY <1>2, <1>7 DEF Causes, Woken, WokenThen

LEMMA CausesStep ==
  ASSUME TypeOK, Views, InTurn, Working, Unheard, Causes, [Next]_vars
  PROVE  Causes'
<1> SUFFICES ASSUME ~interrupted' PROVE Causes'
  BY DEF Causes
<1>1. ~interrupted
  BY Stuck
<1>2. CASE Silent
  <2>1. \A i \in 1 .. Len(notes) : ~notes[i].posted /\ Woken(notes[i]) => WokenThen(notes[i])
    BY WokenStep
  <2>2. notes' = notes /\ seen' = seen
    BY <1>2 DEF Silent
  <2> QED
    BY <1>1, <2>1, <2>2 DEF Causes, Woken, WokenThen
<1>3. ASSUME NEW i \in 1 .. Len(notes), Posts(i) PROVE Causes'
  BY <1>1, <1>3, CausesPosts
<1>4. ASSUME NEW i \in 1 .. Len(notes), Handled(i) PROVE Causes'
  BY <1>1, <1>4, CausesHandled
<1>5. ASSUME NEW n \in Note, Announces(n) PROVE Causes'
  <2>1. n.about \notin Queues /\ ~Awakening(n) /\ notes' = Append(notes, n) /\ seen' = seen
    BY <1>5 DEF Announces, Awakening
  <2> QED
    BY <1>1, <2>1, CausesAppended
<1>6. ASSUME NEW q \in Queues, NEW t \in Threads, Wakes(q, t) PROVE Causes'
  <2> DEFINE n == [about |-> q, value |-> FALSE, by |-> t, posted |-> FALSE]
  <2>1. n \in Note /\ n.about = q /\ n.by = t
    BY DEF Note
  <2>2. notes' = Append(notes, n) /\ seen' = seen /\ UNCHANGED <<running, at>> /\ t # "outside"
    BY <1>6 DEF Wakes
  <2> HIDE DEF n
  <2>3. WokenThen(n) /\ \E p \in Queues : Busy(notes, seen, p, Len(notes))
    BY <1>6, <2>1, <2>2, Cause DEF WokenThen
  <2>4. \A i \in 1 .. Len(notes) : Awakening(notes[i]) => notes[i].posted
    BY <1>1, <1>6, <2>2, Quiet
  <2> QED
    BY <1>1, <2>1, <2>2, <2>3, <2>4, CausesAppended
<1>7. ASSUME NEW q \in Queues, Empties(q) PROVE Causes'
  <2> DEFINE n == [about |-> q, value |-> TRUE, by |-> q, posted |-> FALSE]
  <2>1. n \in Note /\ n.value
    BY DEF Note, Queues, Threads
  <2>2. notes' = Append(notes, n) /\ seen' = seen
    BY <1>7 DEF Empties
  <2> HIDE DEF n
  <2>3. ~Awakening(n)
    BY <2>1 DEF Awakening
  <2>4. \A i \in 1 .. Len(notes) : Awakening(notes[i]) => notes[i].posted
    BY <1>1, <1>7, Quiet
  <2> QED
    BY <1>1, <2>1, <2>2, <2>3, <2>4, CausesAppended
<1> QED
  BY <1>2, <1>3, <1>4, <1>5, <1>6, <1>7, Effects

-----------------------------------------------------------------------------
(* The exit itself: the coordinator believes both queues empty, so no note on *)
(* its way wakes one up, and none that is not empty is believed to be.        *)
LEMMA Decision ==
  ASSUME TypeOK', Views', Causes', Unheard', ~interrupted', \A q \in Queues : seen'[q]
  PROVE  at' \in Late /\ \A q \in Queues : empty'[q]
<1>1. Len(notes') \in Nat
  BY LenProperties DEF TypeOK
<1>2. \A i \in 1 .. Len(notes') : ~Awakening(notes'[i])
  <2> SUFFICES ASSUME NEW i \in 1 .. Len(notes'), Awakening(notes'[i]) PROVE FALSE
    OBVIOUS
  <2>1. 0 \in 0 .. i - 1
    BY <1>1
  <2>2. PICK q \in Queues : Busy(notes', seen', q, 0)
    BY <2>1 DEF Causes
  <2> QED
    BY <2>2 DEF Busy
<1>3. ASSUME NEW q \in Queues PROVE empty'[q]
  <2> SUFFICES ASSUME ~empty'[q] PROVE FALSE
    OBVIOUS
  <2>1. Busy(notes', seen', q, Len(notes'))
    BY DEF Views
  <2>2. PICK j \in 1 .. Len(notes') : Awakes(notes'[j], q)
    BY <2>1 DEF Busy
  <2> QED
    BY <1>2, <2>2 DEF Awakening, Awakes
<1>4. at' \in Late
  BY DEF Unheard, Queues
<1> QED
  BY <1>3, <1>4

(* After it nobody submits to a queue, unless another thread does. *)
LEMMA Stays ==
  ASSUME TypeOK, Working, [Next]_vars, ~interrupted', at \in Late, \A q \in Queues : empty[q]
  PROVE  \A q \in Queues : empty'[q]
<1> USE DEF TypeOK, queueVars, history
<1> DEFINE Goal == \A q \in Queues : empty'[q]
<1>1. UNCHANGED empty => Goal
  OBVIOUS
<1>2. ASSUME UNCHANGED vars \/ HandleNote PROVE Goal
  BY <1>1, <1>2 DEF vars, HandleNote, Dispose
<1>3. ASSUME NEW t \in Threads, PostNote(t) \/ CancelTimer(t) \/ ProcessExit(t) \/ ExitMainQueue(t)
      PROVE  Goal
  BY <1>1, <1>3 DEF PostNote, CancelTimer, ProcessExit, ExitMainQueue, Dispose
<1>4. \A t \in Threads : InCode(t) => t = "outside"
  <2>1. running.js # "task" /\ running.main # "task" /\ at # "script"
    BY DEF Working, Queues, Late
  <2> QED
    BY <2>1 DEF InCode, InScript, Threads
<1>5. ASSUME NEW t \in Threads, NEW q \in Queues, Submit(t, q) PROVE FALSE
  BY <1>4, <1>5 DEF Submit
<1>6. ASSUME NEW q \in Queues, RunNextTask(q) \/ TaskDone(q) PROVE Goal
  BY <1>1, <1>6 DEF RunNextTask, TaskDone
<1>7. ASSUME NEW q \in Queues, QueueEmpty(q) PROVE Goal
  BY <1>7 DEF QueueEmpty
<1>8. ~DispatchSync
  BY <1>4 DEF DispatchSync, Threads
<1>9. ASSUME PostInit \/ EvalScript \/ FlushUpdatesSync \/ UpdatesFlushed \/ FullTeardown PROVE Goal
  BY <1>1, <1>9 DEF PostInit, EvalScript, FlushUpdatesSync, UpdatesFlushed, FullTeardown
<1>10. ASSUME RunScript \/ ScriptEvaluated \/ ScriptFailed PROVE Goal
  BY <1>1, <1>10 DEF RunScript, ScriptEvaluated, ScriptFailed, Dispose
<1> HIDE DEF Goal
<1>11. Goal
  BY <1>2, <1>3, <1>5, <1>6, <1>7, <1>8, <1>9, <1>10
     DEF Next, JsThread, MainThread, OtherThreads, Code, Threads, Queues
<1> QED
  BY <1>11 DEF Goal

(* Only the coordinator exits on its own account. *)
LEMMA IdleExit ==
  ASSUME TypeOK, [Next]_vars, idleExit', ~idleExit
  PROVE  \A q \in Queues : seen'[q]
<1> USE DEF queueVars, history
<1>1. CASE HandleNote
  <2>1. PICK i \in DOMAIN notes : Exits(notes[i]) /\ seen' = Seen(notes[i])
    BY <1>1 DEF HandleNote
  <2> QED
    BY <2>1 DEF Exits
<1>2. CASE ~HandleNote
  <2>1. UNCHANGED idleExit
    BY <1>2 DEF vars, Next, JsThread, MainThread, OtherThreads, Code, PostNote, Submit, CancelTimer,
                ProcessExit, ExitMainQueue, DispatchSync, RunNextTask, QueueEmpty, TaskDone, PostInit,
                EvalScript, RunScript, ScriptEvaluated, ScriptFailed, FlushUpdatesSync, UpdatesFlushed,
                FullTeardown
  <2> QED
    BY <2>1
<1> QED
  BY <1>1, <1>2

LEMMA OverStep ==
  ASSUME TypeOK, Working, Over, [Next]_vars, TypeOK', Views', Causes', Unheard'
  PROVE  Over'
<1> SUFFICES ASSUME idleExit', ~interrupted'
             PROVE  at' \in Late /\ \A q \in Queues : empty'[q]
  BY DEF Over
<1>1. CASE idleExit
  <2>1. at \in Late /\ \A q \in Queues : empty[q]
    BY <1>1, Stuck DEF Over
  <2> QED
    BY <2>1, Stuck, Stays
<1>2. CASE ~idleExit
  BY <1>2, IdleExit, Decision
<1> QED
  BY <1>1, <1>2

-----------------------------------------------------------------------------
LEMMA Start == Init => IInv
<1> SUFFICES ASSUME Init PROVE IInv
  OBVIOUS
<1>1. queued \in [Queues -> 0 .. 1] /\ queued.js = 1 /\ queued.js + queued.main <= MaxTasks
  BY DEF Init
<1>2. queued.main \in 0 .. 1
  BY <1>1 DEF Queues
<1>3. TypeOK
  <2>1. queued \in [Queues -> Nat] /\ submitted \in 0 .. MaxTasks
    BY <1>1, <1>2, ExitAssumption DEF Init
  <2>2. empty \in [Queues -> BOOLEAN] /\ seen \in [Queues -> BOOLEAN]
    BY DEF Init
  <2>3. /\ running \in [Queues -> {"none", "task", "barrier"}] /\ listening \subseteq Queues
        /\ notes \in Seq(Note) /\ at \in Places /\ awaits \in {"none", "queued", "running", "dropped"}
    BY DEF Init, Places
  <2>4. enabled = FALSE /\ disposed = FALSE /\ exiting = FALSE /\ idleExit = FALSE /\ interrupted = FALSE
    BY DEF Init
  <2> QED
    BY <2>1, <2>2, <2>3, <2>4 DEF TypeOK
<1>4. Len(notes) = 0 /\ \A q \in Queues : ~seen[q]
  BY DEF Init
<1>5. Views /\ InTurn /\ Causes
  BY <1>4 DEF Views, InTurn, Causes, Busy
<1>6. Working
  <2>1. \A q \in Queues : running[q] = "none" /\ (empty[q] => queued[q] = 0)
    BY DEF Init
  <2> QED
    BY <2>1 DEF Init, Working, Queues
<1>7. Unheard
  BY <1>4 DEF Unheard, Queues
<1>8. Over
  BY DEF Over, Init
<1> QED
  BY <1>3, <1>5, <1>6, <1>7, <1>8 DEF IInv

LEMMA Inductive == IInv /\ [Next]_vars => IInv'
<1> SUFFICES ASSUME IInv, [Next]_vars PROVE IInv'
  OBVIOUS
<1> USE DEF IInv
<1>1. TypeOK' /\ Working'
  BY TypeStep, WorkingStep
<1>2. Views' /\ InTurn'
  BY ViewsStep, InTurnStep
<1>3. Unheard' /\ Causes'
  BY UnheardStep, CausesStep
<1>4. Over'
  BY <1>1, <1>2, <1>3, OverStep
<1> QED
  BY <1>1, <1>2, <1>3, <1>4

(* The queues, what they execute and the coordinator's notes have their types. *)
THEOREM TypeCorrect == Spec => []TypeOK
<1>1. IInv => TypeOK
  BY DEF IInv
<1> QED
  BY <1>1, Start, Inductive, PTL DEF Spec

(* For any number of tasks and however the threads that post race, an exit that *)
(* the coordinator decides finds nothing queued, nothing executed and the script *)
(* evaluated, unless a thread it does not listen to interfered.                *)
THEOREM ExitsWhenIdleCorrect == Spec => []ExitsWhenIdle
<1>1. IInv => ExitsWhenIdle
  <2> SUFFICES ASSUME IInv, idleExit, ~interrupted
               PROVE  /\ \A q \in Queues : queued[q] = 0 /\ running[q] = "none"
                      /\ at \in {"loop", "flushing", "tearingDown", "ended"}
    BY DEF ExitsWhenIdle
  <2>1. at \in Late /\ \A q \in Queues : empty[q]
    BY DEF IInv, Over
  <2>2. /\ \A q \in Queues : queued[q] = 0 /\ running[q] # "task"
        /\ running.js # "barrier" /\ running.main # "barrier"
    BY <2>1 DEF IInv, Working, Late
  <2>3. \A q \in Queues : running[q] \in {"none", "task", "barrier"}
    BY DEF IInv, TypeOK
  <2> QED
    BY <2>1, <2>2, <2>3 DEF Late, Queues
<1> QED
  BY <1>1, Start, Inductive, PTL DEF Spec

(* No step makes the coordinator lose track of a queue it has heard of.        *)
LEMMA Tracks ==
  ASSUME IInv, [Next]_vars, NEW q \in Queues, q \in listening, Misjudged(q)'
  PROVE  Misjudged(q)
<1>1. /\ TypeOK /\ Views /\ InTurn
      /\ notes \in Seq(Note) /\ Len(notes) \in Nat /\ DOMAIN notes = 1 .. Len(notes)
      /\ seen \in [Queues -> BOOLEAN] /\ empty \in [Queues -> BOOLEAN]
  BY NotesDomain DEF IInv, TypeOK
<1>2. /\ empty'[q] /\ ~seen'[q]
      /\ \A i \in 1 .. Len(notes') : notes'[i].about # q
  <2>1. DOMAIN notes' = 1 .. Len(notes')
    BY <1>1, NotesStep, LenProperties
  <2> QED
    BY <2>1 DEF Misjudged
<1>3. ASSUME empty[q], ~seen[q], \A i \in 1 .. Len(notes) : notes[i].about # q PROVE Misjudged(q)
  BY <1>1, <1>3 DEF Misjudged
<1>4. CASE Silent
  BY <1>2, <1>3, <1>4 DEF Silent
<1>5. ASSUME NEW m \in 1 .. Len(notes), Posts(m) PROVE Misjudged(q)
  <2>1. /\ UNCHANGED <<empty, seen>> /\ Len(notes') = Len(notes)
        /\ \A i \in 1 .. Len(notes) : notes'[i].about = notes[i].about
    BY <1>1, <1>5, Posted DEF Posts
  <2> QED
    BY <1>2, <1>3, <2>1
<1>6. ASSUME NEW m \in 1 .. Len(notes), Handled(m) PROVE Misjudged(q)
  <2> DEFINE r == RemoveAt(notes, m)
  <2>1. notes' = r /\ seen' = Seen(notes[m]) /\ empty[q]
    BY <1>2, <1>6 DEF Handled
  <2>2. ASSUME NEW l \in 1 .. Len(notes), l # m PROVE notes[l].about # q
    <3>1. PICK i \in 1 .. Len(r) : r[i] = notes[l]
      BY <1>1, <2>2, LeftTo
    <3> QED
      BY <1>2, <2>1, <3>1
  <2>3. notes[m].about # q
    <3> SUFFICES ASSUME notes[m].about = q PROVE FALSE
      OBVIOUS
    <3>1. seen'[q] = notes[m].value
      BY <1>1, <2>1 DEF Seen
    <3>2. ~notes[m].value
      BY <1>2, <3>1, Zenon
    <3>3. PICK l \in m + 1 .. Len(notes) : notes[l].about = q
      BY <1>1, <2>1, <3>2 DEF Views
    <3>4. l \in 1 .. Len(notes) /\ l # m
      BY <1>1, <3>3
    <3> QED
      BY <2>2, <3>3, <3>4
  <2>4. seen'[q] = seen[q]
    BY <1>1, <2>1, <2>3 DEF Seen
  <2>5. ~seen[q]
    BY <1>2, <2>4, Zenon
  <2> QED
    BY <1>3, <2>1, <2>2, <2>3, <2>5
<1>7. ASSUME NEW n \in Note, notes' = Append(notes, n), seen' = seen, empty[q] PROVE Misjudged(q)
  <2>1. Len(notes') = Len(notes) + 1 /\ \A i \in 1 .. Len(notes) : notes'[i] = notes[i]
    BY <1>1, <1>7, Appended
  <2>2. \A i \in 1 .. Len(notes) : i \in 1 .. Len(notes')
    BY <1>1, <2>1
  <2> QED
    BY <1>2, <1>3, <1>7, <2>1, <2>2
<1>8. ASSUME NEW n \in Note, Announces(n) PROVE Misjudged(q)
  BY <1>2, <1>7, <1>8 DEF Announces
<1>9. ASSUME NEW p \in Queues, NEW t \in Threads, Wakes(p, t) PROVE Misjudged(q)
  <2>1. empty'[q] = (IF p = q THEN FALSE ELSE empty[q])
    BY <1>1, <1>9 DEF Wakes
  <2>2. empty[q]
    BY <1>2, <2>1, Zenon
  <2>3. [about |-> p, value |-> FALSE, by |-> t, posted |-> FALSE] \in Note
    BY DEF Note
  <2> QED
    BY <1>7, <1>9, <2>2, <2>3 DEF Wakes
<1>10. ASSUME NEW p \in Queues, Empties(p) PROVE Misjudged(q)
  <2> DEFINE n == [about |-> p, value |-> TRUE, by |-> p, posted |-> FALSE]
  <2>1. n \in Note /\ n.about = p
    BY DEF Note, Queues, Threads
  <2>2. notes' = Append(notes, n) /\ seen' = seen
    BY <1>10 DEF Empties
  <2> HIDE DEF n
  <2>3. p # q
    <3>1. notes'[Len(notes) + 1] = n /\ Len(notes) + 1 \in 1 .. Len(notes')
      BY <1>1, <2>1, <2>2, Appended
    <3> QED
      BY <1>2, <2>1, <3>1
  <2>4. empty'[q] = empty[q]
    BY <1>1, <1>10, <2>3 DEF Empties
  <2>5. empty[q]
    BY <1>2, <2>4, Zenon
  <2> QED
    BY <1>7, <2>1, <2>2, <2>5
<1> QED
  BY <1>1, <1>4, <1>5, <1>6, <1>8, <1>9, <1>10, Effects

(* Whatever the order in which the notes are posted and handled, a queue that   *)
(* is empty is never believed non-empty without a note on its way.              *)
THEOREM KeepsTrackCorrect == Spec => KeepsTrack
<1>1. IInv /\ [Next]_vars
      => [\A q \in Queues : q \in listening /\ ~Misjudged(q) => ~Misjudged(q)']_vars
  BY Tracks
<1> QED
  BY <1>1, Start, Inductive, PTL DEF Spec, KeepsTrack
=============================================================================
