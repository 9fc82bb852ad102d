----------------------------- MODULE DeadlineCalls -----------------------------
(***************************************************************************)
(* runtime/JavaScript/ValueFunctionWithJSValue.cpp and                     *)
(* JavaScriptTaskScheduler.hpp: synchronous calls into JS that give up at  *)
(* a deadline, and the circuit breaker that makes later ones fail at once  *)
(* while one that gave up is still queued.  Caller and JS thread share no  *)
(* lock: an action is one atomic operation, one future operation or one    *)
(* queue operation.  The JS thread's dispatch queue is what OrderedExecutor *)
(* promises of it: one task at a time, first in first out.                 *)
(***************************************************************************)
EXTENDS Integers, Sequences, FiniteSets

CONSTANTS
  Calls,      (* the calls, each made once, by a thread of its own            *)
  Width,      (* 2^32, the values of the atomic counter                       *)
  CanDispose  (* whether the JS runtime may be torn down                      *)

ASSUME DeadlineAssumption ==
  /\ IsFiniteSet(Calls)
  /\ Width \in Nat /\ Cardinality(Calls) < Width
  /\ CanDispose \in BOOLEAN

VARIABLES
  overdue,    (* _overdueDeadlineCalls                                        *)
  state,      (* DeadlineCall::state                                          *)
  ready,      (* the calls whose promise has its value                        *)
  kind,       (* the SyncCallTimeoutPolicy, or the killswitch's control path  *)
  waiter,     (* where the calling thread is                                  *)
  jsQueue,    (* _dispatchQueue: records [call, plain]                        *)
  task,       (* the task the JS thread executes                              *)
  jsPc,       (* where the JS thread is in it                                 *)
  disposed,   (* the dispatch queue is disposed                               *)
  runs,       (* history: how often doJsCall() ran for a call                 *)
  reported    (* history: the timed out calls whose task said so              *)

callerVars == <<kind, waiter>>
jsVars     == <<jsQueue, task, jsPc, disposed>>
history    == <<runs, reported>>
vars       == <<overdue, state, ready, callerVars, jsVars, history>>

Kind == {"RunLate", "SkipIfTimedOut", "control"}
Task == [call : Calls, plain : BOOLEAN]

Done == {"failed", "timedOut", "returned"}
Goes(c, from, to) == waiter[c] = from /\ waiter' = [waiter EXCEPT ![c] = to]

Decremented == (overdue - 1) % Width

-----------------------------------------------------------------------------
Init ==
  /\ overdue = 0
  /\ state = [c \in Calls |-> "Pending"]
  /\ ready = {}
  /\ kind \in [Calls -> Kind]
  /\ waiter = [c \in Calls |-> "none"]
  /\ jsQueue = <<>>
  /\ task \in Task
  /\ jsPc = "idle"
  /\ disposed = FALSE
  /\ runs = [c \in Calls |-> 0]
  /\ reported = {}

(* async() on a queue that was disposed drops the task. *)
Dispatched(c, plain) ==
  jsQueue' = IF disposed THEN jsQueue ELSE Append(jsQueue, [call |-> c, plain |-> plain])

(* hasOverdueDeadlineCalls() decides; with the killswitch it is not asked. *)
Begin(c) ==
  /\ Goes(c, "none", IF overdue > 0 /\ kind[c] # "control" THEN "failing" ELSE "dispatching")
  /\ UNCHANGED <<overdue, state, ready, kind, jsVars, history>>

FailFastDropping(c) ==
  /\ Goes(c, "failing", "failed")
  /\ UNCHANGED <<overdue, state, ready, kind, jsVars, history>>

(* Nobody waits for it, but unless it may be skipped it still runs. *)
FailFast(c) ==
  /\ Goes(c, "failing", "failed")
  /\ IF kind[c] = "SkipIfTimedOut" THEN jsQueue' = jsQueue ELSE Dispatched(c, TRUE)
  /\ UNCHANGED <<overdue, state, ready, kind, task, jsPc, disposed, history>>

Dispatch(c) ==
  /\ Goes(c, "dispatching", "parked")
  /\ Dispatched(c, FALSE)
  /\ UNCHANGED <<overdue, state, ready, kind, task, jsPc, disposed, history>>

(* future.wait_until() is ready, or future.get() after a lost race. *)
GetResult(c) ==
  /\ c \in ready
  /\ Goes(c, "parked", "returned") \/ Goes(c, "taking", "returned")
  /\ UNCHANGED <<overdue, state, ready, kind, jsVars, history>>

(* The deadline passed; the promise may be set since. *)
GiveUp(c) ==
  /\ kind[c] = "control"
  /\ Goes(c, "parked", "timedOut")
  /\ UNCHANGED <<overdue, state, ready, kind, jsVars, history>>

CountTimeout(c) ==
  /\ kind[c] # "control"
  /\ Goes(c, "parked", "counted")
  /\ overdue' = (overdue + 1) % Width
  /\ UNCHANGED <<state, ready, kind, jsVars, history>>

ClaimCounting(c) ==
  /\ state[c] = "Pending"
  /\ Goes(c, "counted", "timedOut")
  /\ state' = [state EXCEPT ![c] = "TimedOut"]
  /\ overdue' = (overdue + 1) % Width
  /\ UNCHANGED <<ready, kind, jsVars, history>>

Claim(c) ==
  /\ state[c] = "Pending"
  /\ Goes(c, "counted", "timedOut")
  /\ state' = [state EXCEPT ![c] = "TimedOut"]
  /\ UNCHANGED <<overdue, ready, kind, jsVars, history>>

LostRaceForgotten(c) ==
  /\ state[c] = "Completed"
  /\ Goes(c, "counted", "taking")
  /\ UNCHANGED <<overdue, state, ready, kind, jsVars, history>>

(* The JS task completed first: the count is taken back. *)
LostRace(c) ==
  /\ state[c] = "Completed"
  /\ Goes(c, "counted", "taking")
  /\ overdue' = Decremented
  /\ UNCHANGED <<state, ready, kind, jsVars, history>>

-----------------------------------------------------------------------------
(* The JS thread. *)

JsGoes(from, to) == jsPc = from /\ jsPc' = to

JsTake ==
  /\ jsQueue # <<>>
  /\ JsGoes("idle", IF Head(jsQueue).plain \/ kind[Head(jsQueue).call] = "control" THEN "run" ELSE "load")
  /\ task' = Head(jsQueue)
  /\ jsQueue' = Tail(jsQueue)
  /\ UNCHANGED <<overdue, state, ready, callerVars, disposed, history>>

(* Nothing to do for a call its caller abandoned, when it may be skipped. *)
Skips == state[task.call] = "TimedOut" /\ kind[task.call] = "SkipIfTimedOut"

JsLoadDropping ==
  /\ JsGoes("load", IF Skips THEN "idle" ELSE "run")
  /\ UNCHANGED <<overdue, state, ready, callerVars, jsQueue, task, disposed, history>>

JsLoad ==
  /\ JsGoes("load", IF Skips THEN "finish" ELSE "run")
  /\ UNCHANGED <<overdue, state, ready, callerVars, jsQueue, task, disposed, history>>

(* doJsCall() *)
JsRun ==
  /\ JsGoes("run", IF task.plain THEN "idle" ELSE IF kind[task.call] = "control" THEN "set" ELSE "finish")
  /\ runs' = [runs EXCEPT ![task.call] = @ + 1]
  /\ UNCHANGED <<overdue, state, ready, callerVars, jsQueue, task, disposed, reported>>

JsWinSilently ==
  /\ state[task.call] = "Pending"
  /\ JsGoes("finish", "idle")
  /\ state' = [state EXCEPT ![task.call] = "Completed"]
  /\ UNCHANGED <<overdue, ready, callerVars, jsQueue, task, disposed, history>>

JsWin ==
  /\ state[task.call] = "Pending"
  /\ JsGoes("finish", "set")
  /\ state' = [state EXCEPT ![task.call] = "Completed"]
  /\ UNCHANGED <<overdue, ready, callerVars, jsQueue, task, disposed, history>>

JsSet ==
  /\ JsGoes("set", "idle")
  /\ ready' = ready \cup {task.call}
  /\ UNCHANGED <<overdue, state, callerVars, jsQueue, task, disposed, history>>

JsReportAndSet ==
  /\ state[task.call] = "TimedOut"
  /\ JsGoes("finish", "set")
  /\ overdue' = Decremented
  /\ reported' = reported \cup {task.call}
  /\ UNCHANGED <<state, ready, callerVars, jsQueue, task, disposed, runs>>

(* The waiter gave up: the JS thread is responsive again. *)
JsReport ==
  /\ state[task.call] = "TimedOut"
  /\ JsGoes("finish", "idle")
  /\ overdue' = Decremented
  /\ reported' = reported \cup {task.call}
  /\ UNCHANGED <<state, ready, callerVars, jsQueue, task, disposed, runs>>

(* teardownOnJsThread() disposes of the queue, dropping what it holds. *)
Dispose ==
  /\ CanDispose
  /\ jsPc = "idle" /\ ~disposed
  /\ disposed' = TRUE
  /\ jsQueue' = <<>>
  /\ UNCHANGED <<overdue, state, ready, callerVars, task, jsPc, history>>

-----------------------------------------------------------------------------
Proceed(c) ==
  \/ FailFast(c) \/ Dispatch(c) \/ GetResult(c) \/ GiveUp(c)
  \/ CountTimeout(c) \/ Claim(c) \/ LostRace(c)

(* Native code around the call; JsTake and JsRun depend on the JS code. *)
JsNative == JsLoad \/ JsWin \/ JsSet \/ JsReport

Next ==
  \/ \E c \in Calls : Begin(c) \/ Proceed(c)
  \/ JsTake \/ JsRun \/ JsNative
  \/ Dispose

Spec == Init /\ [][Next]_vars

(* Nothing is assumed of the JS code: it may never return. *)
Fairness == WF_vars(JsNative) /\ \A c \in Calls : WF_vars(Proceed(c))

FairSpec == Spec /\ Fairness

-----------------------------------------------------------------------------
(* What the counter counts: the calls between their count and their claim, and *)
(* those that timed out and that the JS thread has not caught up with.         *)
Owed == {c \in Calls : waiter[c] = "counted" \/ (state[c] = "TimedOut" /\ c \notin reported)}

(* The type invariant; the counter does not wrap. *)
TypeOK ==
  /\ overdue \in 0 .. Cardinality(Calls)
  /\ state \in [Calls -> {"Pending", "Completed", "TimedOut"}]
  /\ ready \subseteq Calls
  /\ kind \in [Calls -> Kind]
  /\ waiter \in [Calls -> {"none", "failing", "dispatching", "parked", "counted", "taking"} \cup Done]
  /\ jsQueue \in Seq(Task)
  /\ task \in Task
  /\ jsPc \in {"idle", "load", "run", "finish", "set"}
  /\ disposed \in BOOLEAN
  /\ runs \in [Calls -> Nat]
  /\ reported \subseteq Calls

(* The breaker is exact: whatever the order in which callers time out and JS   *)
(* tasks complete, onDeadlineCallTimedOut() and onOverdueDeadlineCallCompleted() *)
(* pair up, so that it neither stays open for ever nor underflows.             *)
OverdueCount == overdue = Cardinality(Owed)

(* Exactly one side wins: a call that returns a value had its function run,    *)
(* once, and its promise set; one that reports a timeout never has it set.     *)
OneWinner ==
  \A c \in Calls :
    /\ waiter[c] = "returned" => c \in ready /\ runs[c] = 1
    /\ waiter[c] = "timedOut" /\ kind[c] # "control" => state[c] = "TimedOut" /\ c \notin ready

(* A call returns in bounded time however long the JS thread is stuck, the     *)
(* unbounded future.get() after a lost race included.                          *)
CallsReturn == \A c \in Calls : waiter[c] = "dispatching" ~> waiter[c] \in Done

(* The JS thread keeps taking tasks, and JS code returns. *)
Responsive == WF_vars(JsTake) /\ WF_vars(JsRun)

(* A side effect is never dropped: when the JS thread is responsive, a call    *)
(* that may not be skipped runs, whether it timed out, failed fast or not.     *)
EveryCallRuns ==
  Responsive => \A c \in Calls :
    (waiter[c] # "none" /\ kind[c] # "SkipIfTimedOut") ~> (runs[c] = 1 \/ disposed)

(* When the JS thread is responsive the breaker closes again. *)
BreakerCloses == Responsive => []<>(overdue = 0 \/ disposed)
=============================================================================
