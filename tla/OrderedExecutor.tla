--------------------------- MODULE OrderedExecutor ---------------------------
(***************************************************************************)
(* What a serial Valdi dispatch queue promises to the code that submits    *)
(* work to it, without its mutex, its condition variable, its threads or   *)
(* its sorted deque: work runs one piece at a time, at most once, in the   *)
(* order of its execute time and then of its submission, never before it   *)
(* is due, and may be discarded only before it starts.                     *)
(***************************************************************************)
EXTENDS Naturals, FiniteSets

VARIABLES
  pending,   (* the entries [id, time, barrier] submitted and not started *)
  running,   (* the ids of the entries being executed                     *)
  spent,     (* the ids of the entries executed or discarded              *)
  clock      (* the present time                                          *)

exVars == <<pending, running, spent, clock>>

Entry == [id : Nat, time : Nat, barrier : BOOLEAN]

(* Entry a is to be started before entry b. *)
Precedes(a, b) == a.time < b.time \/ (a.time = b.time /\ a.id < b.id)

Init ==
  /\ pending = {}
  /\ running = {}
  /\ spent = {}
  /\ clock = 0

Submit(e) ==
  /\ \A p \in pending : p.id # e.id
  /\ e.id \notin running \cup spent
  /\ pending' = pending \cup {e}
  /\ UNCHANGED <<running, spent, clock>>

(* The first entry is started, alone. *)
Start(e) ==
  /\ running = {}
  /\ e.time <= clock
  /\ \A p \in pending \ {e} : Precedes(e, p)
  /\ pending' = pending \ {e}
  /\ running' = {e.id}
  /\ UNCHANGED <<spent, clock>>

(* A barrier finds the executor free: it is submitted and started at once. *)
SubmitAndStart(e) ==
  /\ e.barrier
  /\ \A p \in pending : p.id # e.id /\ Precedes(e, p)
  /\ e.id \notin spent
  /\ running = {}
  /\ e.time <= clock
  /\ running' = {e.id}
  /\ UNCHANGED <<pending, spent, clock>>

Finish(i) ==
  /\ running' = running \ {i}
  /\ spent' = spent \cup {i}
  /\ UNCHANGED <<pending, clock>>

(* A cancelled entry, or all of them when the executor is disposed. *)
Discard(es) ==
  /\ pending' = pending \ es
  /\ spent' = spent \cup {e.id : e \in es}
  /\ UNCHANGED <<running, clock>>

TimePasses ==
  /\ clock' > clock
  /\ UNCHANGED <<pending, running, spent>>

Next ==
  \/ \E e \in pending : Start(e)
  \/ \E i \in running : Finish(i)
  \/ pending # {} /\ \E es \in {pending} \cup {{e} : e \in pending} : Discard(es)
  \/ \E e \in pending' \ pending : Submit(e)
  \/ \E i \in running' \ running, t \in 0 .. clock :
       SubmitAndStart([id |-> i, time |-> t, barrier |-> TRUE])
  \/ TimePasses

Spec == Init /\ [][Next]_exVars
=============================================================================
