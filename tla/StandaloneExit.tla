---------------------------- MODULE StandaloneExit ----------------------------
(***************************************************************************)
(* standalone_runtime/: how a command line program that runs a script ends *)
(* by itself.  The JS queue and the main queue tell StandaloneExitCoordinator *)
(* when they become empty and non-empty, through a third queue of its own, *)
(* and it disposes the main queue when both are empty: that ends           *)
(* runIndefinitely(), and the destructor of ValdiStandaloneRuntime follows.  *)
(* So do process.exit() and a script that fails.  A queue is taken at the  *)
(* level of TaskQueue's critical sections; a note to the coordinator is    *)
(* posted inside them, in two steps: TaskQueue::enqueue() reads the clock, *)
(* which is the note's place, and then inserts it.                         *)
(***************************************************************************)
EXTENDS Naturals, SequencesExt

CONSTANT MaxTasks  (* bound: tasks ever submitted to the two queues *)

ASSUME ExitAssumption == MaxTasks \in Nat

VARIABLES
  queued,      (* how many _tasks each queue has                             *)
  empty,       (* _empty of each: what its listener was told last            *)
  running,     (* what each queue executes, in the order of _running tasks   *)
  listening,   (* the queues whose listener is set                           *)
  submitted,   (* how many tasks were submitted                              *)
  notes,       (* the coordinator's queue, in the order of the clock         *)
  enabled,     (* _enabled                                                   *)
  seen,        (* _jsQueueEmpty and _mainQueueEmpty                          *)
  disposed,    (* the main queue is disposed                                 *)
  at,          (* where the main thread is                                   *)
  exiting,     (* the script is inside process.exit()                        *)
  awaits,      (* where the task is that the JS thread waits for             *)
  idleExit,    (* history: the coordinator disposed the main queue           *)
  interrupted  (* history: another thread submitted to a queue told empty    *)

queueVars == <<queued, empty, listening, submitted>>
history   == <<idleExit, interrupted>>
vars == <<queueVars, running, notes, enabled, seen, disposed, at, exiting, awaits, history>>

Queues  == {"js", "main"}
Threads == {"js", "main", "outside"}
Places  == {"created", "heardJs", "heardMain", "evaluating", "script", "loop",
            "flushing", "tearingDown", "ended"}
Note    == [about : Queues \cup {"enabled", "flush"}, value : BOOLEAN, by : Threads, posted : BOOLEAN]

UnlockedToPost(q) == q \in Queues

(* The thread that posts a note of a queue has that queue's _mutex till it did. *)
Unlocked(q) == \A i \in DOMAIN notes : notes[i].about = q => notes[i].posted
Able(t)     == \A i \in DOMAIN notes : notes[i].by = t => notes[i].posted

(* Which threads execute code of the program, and which execute its script. *)
InScript(t) ==
  \/ t = "js" /\ running.js = "task" /\ awaits = "none"
  \/ t = "main" /\ at = "script"

InCode(t) ==
  /\ Able(t)
  /\ \/ InScript(t) /\ ~exiting
     \/ t = "main" /\ running.main = "task"
     \/ t = "outside"

Accepts(q) == IF q = "main" THEN ~disposed ELSE at # "ended"

-----------------------------------------------------------------------------
(* The runtime has been created: it submitted the JS runtime's initialisation, *)
(* and whatever else, before anyone listens.                                  *)
Init ==
  /\ queued \in {n \in [Queues -> 0 .. 1] : n.js = 1 /\ n.js + n.main <= MaxTasks}
  /\ submitted = queued.js + queued.main
  /\ empty = [q \in Queues |-> queued[q] = 0]
  /\ running = [q \in Queues |-> "none"]
  /\ listening = {}
  /\ notes = <<>>
  /\ enabled = FALSE
  /\ seen = [q \in Queues |-> FALSE]
  /\ disposed = FALSE
  /\ at = "created"
  /\ exiting = FALSE
  /\ awaits = "none"
  /\ idleExit = FALSE /\ interrupted = FALSE

(* onJsQueueEmpty(), onMainQueueEmpty(), setEnabled(): the place of a note. *)
Tell(about, value, t) ==
  notes' = Append(notes, [about |-> about, value |-> value, by |-> t, posted |-> FALSE])

(* ... and its insertion; what was unlocked meanwhile may be in front of it.  *)
PostNote(t) ==
  \E i \in DOMAIN notes :
    /\ notes[i].by = t /\ ~notes[i].posted
    /\ notes' = [notes EXCEPT ![i].posted = TRUE]
    /\ UNCHANGED <<queueVars, running, enabled, seen, disposed, at, exiting, awaits, history>>

-----------------------------------------------------------------------------
(* TaskQueue: enqueue(), cancel(), and nextTask() as the handlers call it. *)

EnqueueSilently(q, t) ==
  /\ Unlocked(q)
  /\ submitted < MaxTasks
  /\ submitted' = submitted + 1
  /\ queued' = [queued EXCEPT ![q] = @ + 1]
  /\ UNCHANGED <<empty, notes, listening>>

Enqueue(q, t) ==
  /\ Unlocked(q)
  /\ submitted < MaxTasks
  /\ submitted' = submitted + 1
  /\ queued' = [queued EXCEPT ![q] = @ + 1]
  /\ empty' = [empty EXCEPT ![q] = FALSE]
  /\ IF empty[q] /\ q \in listening THEN Tell(q, FALSE, t) ELSE UNCHANGED notes
  /\ UNCHANGED listening

(* A task of either queue, the script or any other thread submits a task. *)
Submit(t, q) ==
  /\ InCode(t) /\ Accepts(q)
  /\ Enqueue(q, t)
  /\ interrupted' = (interrupted \/ (t = "outside" /\ empty[q]))
  /\ UNCHANGED <<running, enabled, seen, disposed, at, exiting, awaits, idleExit>>

CancelAny(t) ==
  /\ InCode(t) /\ InScript(t)
  /\ Unlocked("js")
  /\ queued' = [queued EXCEPT !.js = @ - 1]
  /\ UNCHANGED <<empty, listening, submitted, running, notes, enabled, seen, disposed, at,
                 exiting, awaits, history>>

(* A timer of the script is cancelled: the queue is empty, and nobody told. *)
CancelTimer(t) ==
  /\ InCode(t) /\ InScript(t)
  /\ Unlocked("js") /\ queued.js > 0
  /\ queued' = [queued EXCEPT !.js = @ - 1]
  /\ UNCHANGED <<empty, listening, submitted, running, notes, enabled, seen, disposed, at,
                 exiting, awaits, history>>

(* The thread of q is between two tasks, with _mutex; the main thread is when *)
(* it loops on runNextTask(), and the JS thread until its queue is disposed.  *)
Handles(q) ==
  /\ Able(q) /\ Unlocked(q) /\ running[q] = "none" /\ Accepts(q)
  /\ q = "main" => at = "loop"

(* The next task may be the one that the JS thread waits for. *)
RunNextTask(q) ==
  /\ Handles(q)
  /\ queued[q] > 0
  /\ queued' = [queued EXCEPT ![q] = @ - 1]
  /\ running' = [running EXCEPT ![q] = "task"]
  /\ IF q = "main" /\ awaits = "queued"
     THEN \/ awaits' = "running"
          \/ queued.main > 1 /\ UNCHANGED awaits
     ELSE UNCHANGED awaits
  /\ UNCHANGED <<empty, listening, submitted, notes, enabled, seen, disposed, at, exiting, history>>

(* No task left, nor the barrier of evalModuleSync(). *)
QueueEmpty(q) ==
  /\ Handles(q)
  /\ queued[q] = 0 /\ ~empty[q]
  /\ q = "js" => at # "evaluating"
  /\ empty' = [empty EXCEPT ![q] = TRUE]
  /\ IF q \in listening THEN Tell(q, TRUE, q) ELSE UNCHANGED notes
  /\ UNCHANGED <<queued, listening, submitted, running, enabled, seen, disposed, at, exiting,
                 awaits, history>>

TaskDoneUnfulfilled(q) ==
  /\ Able(q) /\ running[q] = "task"
  /\ q = "js" => awaits = "none" /\ ~exiting
  /\ running' = [running EXCEPT ![q] = "none"]
  /\ UNCHANGED <<queueVars, notes, enabled, seen, disposed, at, exiting, awaits, history>>

TaskDone(q) ==
  /\ Able(q) /\ running[q] = "task"
  /\ q = "js" => awaits = "none" /\ ~exiting
  /\ running' = [running EXCEPT ![q] = "none"]
  /\ awaits' = IF q = "main" /\ awaits = "running" THEN "none" ELSE awaits
  /\ UNCHANGED <<queueVars, notes, enabled, seen, disposed, at, exiting, history>>

(* StandaloneMainThreadDispatcher::dispatch(sync) by a task of the JS queue. *)
DispatchSync ==
  /\ InCode("js")
  /\ IF disposed
     THEN awaits' = "dropped" /\ UNCHANGED <<queueVars, notes>>
     ELSE awaits' = "queued" /\ Enqueue("main", "js")
  /\ UNCHANGED <<running, enabled, seen, disposed, at, exiting, history>>

-----------------------------------------------------------------------------
(* dispose() of the main queue: what is queued is dropped, without a note.  *)
Dispose ==
  /\ Unlocked("main")
  /\ disposed' = TRUE
  /\ queued' = [queued EXCEPT !.main = 0]
  /\ awaits' = IF awaits = "queued" THEN "dropped" ELSE awaits
  /\ UNCHANGED <<empty, listening, submitted>>

(* process.exit(): setEnabled(false), then StandaloneMainQueue::exit().     *)
(* Bound: it is called as long as nothing disposed the main queue.          *)
ProcessExit(t) ==
  /\ InCode(t) /\ InScript(t)
  /\ ~disposed
  /\ exiting' = TRUE
  /\ Tell("enabled", FALSE, t)
  /\ UNCHANGED <<queueVars, running, enabled, seen, disposed, at, awaits, history>>

ExitMainQueue(t) ==
  /\ Able(t) /\ InScript(t) /\ exiting
  /\ exiting' = FALSE
  /\ Dispose
  /\ UNCHANGED <<running, notes, enabled, seen, at, history>>

-----------------------------------------------------------------------------
(* The main thread: the constructor, evalScript(), runIndefinitely() and the *)
(* destructor of the runtime.                                                *)

MainGoes(from, to) == Able("main") /\ at = from /\ at' = to

PostInit ==
  /\ \/ MainGoes("created", "heardJs") /\ listening' = listening \cup {"js"}
     \/ MainGoes("heardJs", "heardMain") /\ listening' = listening \cup {"main"}
  /\ UNCHANGED <<queued, empty, submitted, running, notes, enabled, seen, disposed, exiting,
                 awaits, history>>

EvalScript ==
  /\ MainGoes("heardMain", "evaluating")
  /\ Tell("enabled", TRUE, "main")
  /\ UNCHANGED <<queueVars, running, enabled, seen, disposed, exiting, awaits, history>>

(* evalModuleSync(): a barrier of the JS queue, run by the main thread; timers *)
(* may be behind it.                                                          *)
RunScript ==
  /\ MainGoes("evaluating", "script")
  /\ running.js = "none" /\ Unlocked("js")
  /\ running' = [running EXCEPT !.js = "barrier"]
  /\ UNCHANGED <<queueVars, notes, enabled, seen, disposed, exiting, awaits, history>>

ScriptEvaluated ==
  /\ MainGoes("script", "loop") /\ ~exiting
  /\ running' = [running EXCEPT !.js = "none"]
  /\ UNCHANGED <<queueVars, notes, enabled, seen, disposed, exiting, awaits, history>>

ScriptFailed ==
  /\ MainGoes("script", "loop") /\ ~exiting
  /\ running' = [running EXCEPT !.js = "none"]
  /\ Dispose
  /\ UNCHANGED <<notes, enabled, seen, exiting, history>>

FlushDropped ==
  /\ MainGoes("loop", "flushing")
  /\ running.main = "none" /\ disposed
  /\ UNCHANGED <<queueVars, running, notes, enabled, seen, disposed, exiting, awaits, history>>

(* The loop returns; the destructor begins with flushUpdatesSync(). *)
FlushUpdatesSync ==
  /\ MainGoes("loop", "flushing")
  /\ running.main = "none" /\ disposed
  /\ notes' = Append(notes, [about |-> "flush", value |-> TRUE, by |-> "main", posted |-> TRUE])
  /\ UNCHANGED <<queueVars, running, enabled, seen, disposed, exiting, awaits, history>>

(* RuntimeManager::fullTeardown(): a barrier of the JS queue disposes it. *)
FullTeardown ==
  /\ MainGoes("tearingDown", "ended")
  /\ running.js = "none" /\ Unlocked("js")
  /\ queued' = [queued EXCEPT !.js = 0]
  /\ UNCHANGED <<empty, listening, submitted, running, notes, enabled, seen, disposed, exiting,
                 awaits, history>>

-----------------------------------------------------------------------------
(* The coordinator's queue: it executes the first of the notes inserted. *)

First(i) == i \in DOMAIN notes /\ notes[i].posted /\ \A j \in 1 .. i - 1 : ~notes[j].posted

Seen(n) == IF n.about \in Queues THEN [seen EXCEPT ![n.about] = n.value] ELSE seen

(* exitIfNeeded(), with what the note says. *)
Exits(n) == (IF n.about = "enabled" THEN n.value ELSE enabled) /\ \A q \in Queues : Seen(n)[q]

HandleNote ==
  \E i \in DOMAIN notes :
    LET n == notes[i]
    IN  /\ First(i) /\ n.about # "flush"
        /\ notes' = RemoveAt(notes, i)
        /\ seen' = Seen(n)
        /\ IF Exits(n)
           THEN enabled' = FALSE /\ idleExit' = (idleExit \/ ~disposed) /\ Dispose
           ELSE /\ enabled' = IF n.about = "enabled" THEN n.value ELSE enabled
                /\ UNCHANGED <<queueVars, disposed, awaits, idleExit>>
        /\ UNCHANGED <<running, at, exiting, interrupted>>

(* ... and the barrier of flushUpdatesSync(), that of the main thread. *)
UpdatesFlushed ==
  /\ MainGoes("flushing", "tearingDown")
  /\ \E i \in DOMAIN notes :
       First(i) /\ notes[i].about = "flush" /\ notes' = RemoveAt(notes, i)
  /\ UNCHANGED <<queueVars, running, enabled, seen, disposed, exiting, awaits, history>>

-----------------------------------------------------------------------------
Code(t) == (\E q \in Queues : Submit(t, q)) \/ CancelTimer(t) \/ ProcessExit(t) \/ ExitMainQueue(t)

JsThread ==
  \/ PostNote("js") \/ Code("js") \/ DispatchSync
  \/ RunNextTask("js") \/ QueueEmpty("js") \/ TaskDone("js")

MainThread ==
  \/ PostNote("main") \/ Code("main")
  \/ RunNextTask("main") \/ QueueEmpty("main") \/ TaskDone("main")
  \/ PostInit \/ EvalScript \/ RunScript \/ ScriptEvaluated \/ ScriptFailed
  \/ FlushUpdatesSync \/ UpdatesFlushed \/ FullTeardown

OtherThreads == \E q \in Queues : Submit("outside", q)

Next == JsThread \/ MainThread \/ PostNote("outside") \/ OtherThreads \/ HandleNote

Spec == Init /\ [][Next]_vars

(* The threads are scheduled and tasks end; whether they submit anything, or  *)
(* anyone else does, is their choice.                                         *)
FairSpec ==
  Spec /\ WF_vars(JsThread) /\ WF_vars(MainThread) /\ WF_vars(PostNote("outside")) /\ WF_vars(HandleNote)

-----------------------------------------------------------------------------
TypeOK ==
  /\ queued \in [Queues -> Nat]
  /\ empty \in [Queues -> BOOLEAN]
  /\ running \in [Queues -> {"none", "task", "barrier"}]
  /\ listening \subseteq Queues
  /\ submitted \in 0 .. MaxTasks
  /\ notes \in Seq(Note)
  /\ seen \in [Queues -> BOOLEAN]
  /\ {enabled, disposed, exiting, idleExit, interrupted} \subseteq BOOLEAN
  /\ at \in Places
  /\ awaits \in {"none", "queued", "running", "dropped"}

(* The coordinator ends the program only when it is over: nothing is queued    *)
(* on either queue, nothing runs, and the script was evaluated, although what  *)
(* it knows of the two queues is of two different times and posted by threads  *)
(* that race.  A thread it does not listen to, as one that waits for an answer *)
(* of the network, may submit to an empty queue and come too late.             *)
ExitsWhenIdle ==
  idleExit /\ ~interrupted =>
    /\ \A q \in Queues : queued[q] = 0 /\ running[q] = "none"
    /\ at \in {"loop", "flushing", "tearingDown", "ended"}

(* The coordinator believes a queue non-empty that is empty, and no note on   *)
(* its way says otherwise.                                                    *)
Misjudged(q) ==
  /\ q \in listening /\ empty[q] /\ ~seen[q]
  /\ \A i \in DOMAIN notes : notes[i].about # q

(* Once the coordinator has heard of a queue it never loses track of it.      *)
KeepsTrack ==
  [][\A q \in Queues : q \in listening /\ ~Misjudged(q) => ~Misjudged(q)']_vars

(* The program does end once there is nothing to do, if the coordinator heard *)
(* of both queues: a queue that takes no task after postInit() keeps it alive. *)
EventuallyExits ==
  (at = "loop" /\ \A q \in Queues : ~Misjudged(q)) ~> disposed

(* And when the loop returned the destructor does, unless the JS thread waits for a task that the *)
(* main queue dropped.                                                        *)
TeardownEnds == (at = "flushing") ~> (at = "ended" \/ awaits = "dropped")
=============================================================================
