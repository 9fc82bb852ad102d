------------------------ MODULE AssetsManager_proofs ------------------------
(***************************************************************************)
(* The invariants of an asset, its requests and the updates that carry them, *)
(* for any number of consumers, resolutions, requests, calls and frames.   *)
(***************************************************************************)
EXTENDS AssetsManager, FunctionTheorems, FiniteSetTheorems, SequenceTheorems, WellFoundedInduction,
        TLAPS

AssetRec ==
  [alive : BOOLEAN, observable : BOOLEAN,
   state : {"initial", "resolving", "ready", "failedPermanently", "failedRetryable"},
   location : Locations \cup {NoLocation}, resolveId : Nat]

ConsumerRec ==
  [state : {"initial", "loading", "loaded", "failed", "removed"}, observed : BOOLEAN,
   notified : BOOLEAN, loaded : Locations \cup {NoLocation}, request : Requests \cup {None}]

RequestRec ==
  [count : Nat, load : BOOLEAN, cancel : BOOLEAN, loader : {"idle", "loading", "cancelled"},
   location : Locations \cup {NoLocation}, result : {"none", "asset", "error"}, answers : Nat]

(* The frames of endPauseUpdates() in s, each of which has a pause to end. *)
EndPauses(s) == {i \in DOMAIN s : s[i].at = "endPause"}

Paused == Cardinality(EndPauses(stack)) <= pauseCount

Elements(s) == {s[i] : i \in DOMAIN s}
Distinct(s) == \A i, j \in DOMAIN s : s[i] = s[j] => i = j

(* Resolve ids are given out once, and each answer is under way once. *)
Numbered ==
  /\ \A id \in resolving : id \in 1 .. resolveSeq
  /\ \A id \in Elements(worker) : id <= resolveSeq /\ id \notin resolving
  /\ Distinct(worker)

(* An asset knows of an id that was given out, and none before it is there. *)
Identified ==
  /\ asset.resolveId <= resolveSeq
  /\ ~asset.alive => asset.resolveId = 0

FlushQueued == flushScheduled <=> \E i \in DOMAIN worker : worker[i] = Flush

(* What a consumer has, and of which asset. *)
Holding ==
  \A c \in ConsumerIds :
    /\ consumer[c].request <= made
    /\ c \in present =>
         /\ consumer[c].request # None => asset.state = "ready"
         /\ consumer[c].state = "loaded" => asset.state = "ready"
         /\ consumer[c].state = "initial" => consumer[c].request = None
    /\ c > joined => consumer[c].state = "initial" /\ consumer[c].request = None

(* A request that was not made yet is nowhere. *)
Unmade ==
  /\ made \in 0 .. MaxRequests
  /\ \A r \in Requests : r > made =>
       request[r].count = 0 /\ ~request[r].cancel /\ ~request[r].load /\ request[r].loader = "idle"
  /\ \A r \in Elements(pending) : r <= made
  /\ inHand # <<>> => inHand[1] <= made

(* What a flush has taken, and what became of it while it holds no lock. *)
Taken ==
  /\ \A r \in Requests : request[r].loader = "cancelled" => request[r].cancel
  /\ inHand # <<>> =>
       LET r == inHand[1]
       IN  IF inHand[2] = "cancel" THEN request[r].cancel /\ request[r].result = "none"
           ELSE request[r].cancel => r \in Elements(pending)

(* A transaction is the innermost frame when there is one. *)
Current == inTransaction => stack # <<>> /\ Head(stack).at # "endPause"

-----------------------------------------------------------------------------
(* The constants, and the parts of the type invariant. *)
LEMMA Bounds ==
  /\ MaxConsumers \in Nat /\ MaxResolves \in Nat /\ MaxRequests \in Nat /\ MaxCalls \in Nat
  /\ MaxAnswers \in Nat /\ MaxDepth \in Nat
  /\ ConsumerIds \subseteq Nat /\ None \notin ConsumerIds /\ IsFiniteSet(ConsumerIds)
  /\ Requests \subseteq Nat /\ None \notin Requests /\ IsFiniteSet(Requests)
  /\ None \in Nat
<1>1. /\ MaxConsumers \in Nat /\ MaxResolves \in Nat /\ MaxRequests \in Nat /\ MaxCalls \in Nat
      /\ MaxAnswers \in Nat /\ MaxDepth \in Nat
  BY AssetsAssumption
<1>2. IsFiniteSet(1 .. MaxConsumers) /\ IsFiniteSet(1 .. MaxRequests)
  BY <1>1, FS_Interval
<1> QED
  BY <1>1, <1>2 DEF ConsumerIds, Requests, None

AssetTypes ==
  /\ kind \in {"url", "local", "remote"} /\ removeUnused \in BOOLEAN
  /\ asset \in AssetRec
  /\ present \subseteq 1 .. joined /\ joined \in 0 .. MaxConsumers
  /\ consumer \in [ConsumerIds -> ConsumerRec]

LoadTypes ==
  /\ request \in [Requests -> RequestRec]
  /\ made \in Nat
  /\ pending \in Seq(Requests)
  /\ flushScheduled \in BOOLEAN

WorkTypes ==
  /\ inHand \in {<<>>} \cup (Requests \X {"load", "cancel"})
  /\ worker \in Seq(Nat)
  /\ resolving \subseteq Nat
  /\ resolveSeq \in Nat

MainTypes ==
  /\ scheduled \in Nat /\ posted \in Nat /\ pauseCount \in Nat
  /\ stack \in Seq(Frame)
  /\ inTransaction \in BOOLEAN /\ crashed \in BOOLEAN

LEMMA TypeParts ==
  /\ TypeOK <=> AssetTypes /\ LoadTypes /\ WorkTypes /\ MainTypes
  /\ TypeOK' <=> AssetTypes' /\ LoadTypes' /\ WorkTypes' /\ MainTypes'
  BY DEF TypeOK, AssetTypes, LoadTypes, WorkTypes, MainTypes, AssetRec, ConsumerRec, RequestRec

-----------------------------------------------------------------------------
(* The call stack: a frame pushed, popped or changed. *)
LEMMA PausesFinite ==
  ASSUME NEW s \in Seq(Frame)
  PROVE  IsFiniteSet(EndPauses(s)) /\ Cardinality(EndPauses(s)) \in Nat
<1>1. DOMAIN s = 1 .. Len(s) /\ IsFiniteSet(1 .. Len(s))
  BY LenProperties, FS_Interval
<1>2. EndPauses(s) \in SUBSET (1 .. Len(s))
  BY <1>1 DEF EndPauses
<1> QED
  BY <1>1, <1>2, FS_Subset, FS_CardinalityType

LEMMA Pushed ==
  ASSUME NEW s \in Seq(Frame), NEW f \in Frame
  PROVE  /\ <<f>> \o s \in Seq(Frame) /\ <<f>> \o s # <<>>
         /\ Head(<<f>> \o s) = f
         /\ Cardinality(EndPauses(<<f>> \o s))
              = Cardinality(EndPauses(s)) + IF f.at = "endPause" THEN 1 ELSE 0
<1> DEFINE t == <<f>> \o s
<1>0. <<f>> \in Seq(Frame) /\ Len(<<f>>) = 1 /\ <<f>>[1] = f
  OBVIOUS
<1>1. /\ t \in Seq(Frame) /\ Len(t) = Len(s) + 1 /\ Len(s) \in Nat
      /\ t[1] = f /\ \A i \in 1 .. Len(s) : t[i + 1] = s[i]
  <2>1. /\ t \in Seq(Frame) /\ Len(t) = 1 + Len(s)
        /\ \A i \in 1 .. 1 + Len(s) : t[i] = IF i <= 1 THEN <<f>>[i] ELSE s[i - 1]
    BY <1>0, ConcatProperties
  <2>2. Len(s) \in Nat
    BY LenProperties
  <2>3. t[1] = f
    BY <1>0, <2>1, <2>2
  <2>4. ASSUME NEW i \in 1 .. Len(s) PROVE t[i + 1] = s[i]
    <3>1. i + 1 \in 1 .. 1 + Len(s) /\ ~(i + 1 <= 1) /\ (i + 1) - 1 = i
      BY <2>2
    <3> QED
      BY <2>1, <3>1
  <2> HIDE DEF t
  <2> QED
    BY <2>1, <2>2, <2>3, <2>4
<1> HIDE DEF t
<1>2. DOMAIN t = 1 .. Len(s) + 1 /\ DOMAIN s = 1 .. Len(s) /\ t # <<>> /\ Head(t) = f
  BY <1>1, LenProperties
<1> DEFINE Above == {i + 1 : i \in EndPauses(s)}
           g == [i \in EndPauses(s) |-> i + 1]
<1>3. EndPauses(s) \subseteq 1 .. Len(s)
  BY <1>2 DEF EndPauses
<1>4. g \in Bijection(EndPauses(s), Above)
  <2>1. g \in [EndPauses(s) -> Above]
    OBVIOUS
  <2>2. \A x, y \in EndPauses(s) : g[x] = g[y] => x = y
    BY <1>1, <1>3
  <2>3. \A y \in Above : \E x \in EndPauses(s) : g[x] = y
    OBVIOUS
  <2> HIDE DEF g, Above
  <2> QED
    BY <2>1, <2>2, <2>3, Fun_IsBij
<1>5. IsFiniteSet(Above) /\ Cardinality(Above) = Cardinality(EndPauses(s))
  BY <1>4, PausesFinite, FS_Bijection DEF ExistsBijection
<1>6. Cardinality(EndPauses(s)) \in Nat
  BY PausesFinite
<1>7. \A i \in 2 .. Len(s) + 1 : i \in EndPauses(t) <=> i \in Above
  <2> TAKE i \in 2 .. Len(s) + 1
  <2>1. i - 1 \in 1 .. Len(s) /\ (i - 1) + 1 = i
    BY <1>1
  <2>2. t[i] = s[i - 1]
    BY <1>1, <2>1
  <2>3. i \in Above <=> i - 1 \in EndPauses(s)
    BY <1>1, <1>3, <2>1
  <2> QED
    BY <1>2, <2>1, <2>2, <2>3 DEF EndPauses
<1>8. 1 \notin Above /\ Above \subseteq 2 .. Len(s) + 1
  BY <1>1, <1>3
<1>9. 1 \in EndPauses(t) <=> f.at = "endPause"
  BY <1>1, <1>2 DEF EndPauses
<1>10. EndPauses(t) \subseteq 1 .. Len(s) + 1
  BY <1>2 DEF EndPauses
<1>11. 1 .. Len(s) + 1 = {1} \cup 2 .. Len(s) + 1
  BY <1>1
<1> HIDE DEF Above
<1>12. Cardinality(EndPauses(t)) = Cardinality(EndPauses(s)) + IF f.at = "endPause" THEN 1 ELSE 0
  <2>1. CASE f.at = "endPause"
    <3>1. \A i : i \in EndPauses(t) <=> i \in Above \cup {1}
      BY <1>7, <1>8, <1>9, <1>10, <1>11, <2>1
    <3>2. EndPauses(t) = Above \cup {1}
      BY <3>1
    <3>3. Cardinality(Above \cup {1}) = Cardinality(Above) + 1
      BY <1>5, <1>8, FS_AddElement
    <3> QED
      BY <1>5, <2>1, <3>2, <3>3
  <2>2. CASE f.at # "endPause"
    <3>1. \A i : i \in EndPauses(t) <=> i \in Above
      BY <1>7, <1>8, <1>9, <1>10, <1>11, <2>2
    <3>2. EndPauses(t) = Above
      BY <3>1
    <3> QED
      BY <1>5, <1>6, <2>2, <3>2
  <2> QED
    BY <2>1, <2>2
<1> QED
  BY <1>1, <1>2, <1>12 DEF t

LEMMA Popped ==
  ASSUME NEW s \in Seq(Frame), s # <<>>
  PROVE  /\ Tail(s) \in Seq(Frame)
         /\ Cardinality(EndPauses(s))
              = Cardinality(EndPauses(Tail(s))) + IF Head(s).at = "endPause" THEN 1 ELSE 0
<1>1. Head(s) \in Frame /\ Tail(s) \in Seq(Frame)
  BY HeadTailProperties
<1>2. s = <<Head(s)>> \o Tail(s)
  OBVIOUS
<1> QED
  BY <1>1, <1>2, Pushed

LEMMA Changed ==
  ASSUME NEW s \in Seq(Frame), s # <<>>, NEW f \in Frame, f.at = "endPause" <=> Head(s).at = "endPause"
  PROVE  /\ [s EXCEPT ![1] = f] \in Seq(Frame) /\ [s EXCEPT ![1] = f] # <<>>
         /\ Head([s EXCEPT ![1] = f]) = f
         /\ EndPauses([s EXCEPT ![1] = f]) = EndPauses(s)
<1> DEFINE t == [s EXCEPT ![1] = f]
<1>1. Len(s) \in Nat /\ 1 \in 1 .. Len(s) /\ Head(s) = s[1] /\ DOMAIN s = 1 .. Len(s)
  BY LenProperties
<1>2. /\ t \in Seq(Frame) /\ Len(t) = Len(s)
      /\ \A j \in 1 .. Len(s) : t[j] = IF j = 1 THEN f ELSE s[j]
  BY <1>1, ExceptSeq
<1> HIDE DEF t
<1>3. t # <<>> /\ Head(t) = f /\ DOMAIN t = 1 .. Len(s)
  BY <1>1, <1>2
<1>4. \A j \in 1 .. Len(s) : t[j].at = "endPause" <=> s[j].at = "endPause"
  BY <1>1, <1>2
<1>5. EndPauses(t) = EndPauses(s)
  BY <1>1, <1>3, <1>4 DEF EndPauses
<1> QED
  BY <1>2, <1>3, <1>5 DEF t

LEMMA Innermost ==
  At # "idle" => stack # <<>> /\ At = Head(stack).at
  BY DEF At

-----------------------------------------------------------------------------
(* What is scheduled and who performs it. *)
UpdatesOK == MainTypes /\ Paused /\ Current /\ NoStrandedUpdate

LEMMA Performed ==
  ASSUME MainTypes', NEW below \in Seq(Frame), NEW n \in Nat, PerformUpdates(below, n),
         Cardinality(EndPauses(below)) <= pauseCount'
  PROVE  Paused' /\ Current' /\ NoStrandedUpdate'
<1> DEFINE f == [at |-> "locked", updates |-> n, consumer |-> None, told |-> NoLocation]
<1>1. f \in Frame /\ f.at = "locked"
  BY Bounds DEF Frame
<1>2. stack' = <<f>> \o below /\ scheduled' = 0 /\ inTransaction'
  BY DEF PerformUpdates
<1> HIDE DEF f
<1>3. /\ stack' # <<>> /\ Head(stack') = f
      /\ Cardinality(EndPauses(stack')) = Cardinality(EndPauses(below))
  <2>1. Cardinality(EndPauses(below)) \in Nat
    BY PausesFinite
  <2> QED
    BY <1>1, <1>2, <2>1, Pushed
<1> QED
  BY <1>1, <1>2, <1>3 DEF Paused, Current, NoStrandedUpdate

LEMMA PerformedTypes ==
  ASSUME NEW below \in Seq(Frame), NEW n \in Nat, PerformUpdates(below, n)
  PROVE  scheduled' \in Nat /\ stack' \in Seq(Frame) /\ inTransaction' \in BOOLEAN
<1> DEFINE f == [at |-> "locked", updates |-> n, consumer |-> None, told |-> NoLocation]
<1>1. f \in Frame
  BY Bounds DEF Frame
<1>2. stack' = <<f>> \o below /\ scheduled' = 0 /\ inTransaction' = TRUE
  BY DEF PerformUpdates
<1> QED
  BY <1>1, <1>2, Pushed

(* The innermost frame changed in place, and no pause of endPauseUpdates(). *)
LEMMA FrameChanged ==
  ASSUME UpdatesOK, stack # <<>>, Head(stack).at # "endPause",
         NEW f \in Frame, f.at # "endPause", stack' = [stack EXCEPT ![1] = f],
         UNCHANGED <<scheduled, posted, pauseCount, inTransaction>>, crashed' \in BOOLEAN
  PROVE  UpdatesOK'
<1>1. /\ stack' \in Seq(Frame) /\ stack' # <<>> /\ Head(stack') = f
      /\ EndPauses(stack') = EndPauses(stack)
  BY Changed DEF UpdatesOK, MainTypes
<1> QED
  BY <1>1 DEF UpdatesOK, MainTypes, Paused, Current, NoStrandedUpdate

LEMMA UpdateDone ==
  ASSUME UpdatesOK, At \in {"locked", "released"}, Head(stack).updates > 0,
         NEW n \in Nat, NEW at \in {"locked", "released", "calling"},
         NEW c \in ConsumerIds \cup {None}, NEW told \in Locations \cup {NoLocation},
         After(n, at, c, told), UNCHANGED <<pauseCount, crashed>>
  PROVE  UpdatesOK'
<1> DEFINE f == [at |-> at, updates |-> (Head(stack).updates - 1) + n, consumer |-> c, told |-> told]
<1>1. stack # <<>> /\ Head(stack).at # "endPause" /\ stack \in Seq(Frame)
  BY Innermost DEF UpdatesOK, MainTypes
<1>2. Head(stack) \in Frame /\ Head(stack) = stack[1] /\ 1 \in DOMAIN stack
  BY <1>1
<1>3. f \in Frame /\ f.at # "endPause"
  BY <1>2 DEF Frame
<1>4. stack' = [stack EXCEPT ![1] = f]
  BY <1>2 DEF After
<1> HIDE DEF f
<1> QED
  BY <1>1, <1>3, <1>4, FrameChanged DEF After, UpdatesOK, MainTypes

LEMMA Pumped ==
  ASSUME UpdatesOK, NEW onMain \in BOOLEAN, PumpUpdates(onMain), UNCHANGED <<pauseCount, crashed>>
  PROVE  UpdatesOK'
<1>1. CASE pauseCount = 0 /\ scheduled = 0 /\ onMain
  <2>1. PerformUpdates(stack, 1) /\ posted' = posted /\ stack \in Seq(Frame) /\ 1 \in Nat
    BY <1>1 DEF PumpUpdates, UpdatesOK, MainTypes
  <2>2. MainTypes'
    BY <2>1, PerformedTypes DEF UpdatesOK, MainTypes
  <2> QED
    BY <2>1, <2>2, Performed DEF UpdatesOK, Paused
<1>2. CASE ~(pauseCount = 0 /\ scheduled = 0 /\ onMain)
  BY <1>2 DEF PumpUpdates, UpdatesOK, MainTypes, Paused, Current, NoStrandedUpdate
<1> QED
  BY <1>1, <1>2

LEMMA Scheduled ==
  ASSUME UpdatesOK, NEW onMain \in BOOLEAN, ScheduleAssetUpdate(onMain), UNCHANGED <<pauseCount, crashed>>
  PROVE  UpdatesOK'
<1>1. CASE onMain /\ inTransaction
  <2> DEFINE f == [Head(stack) EXCEPT !.updates = @ + 1]
  <2>1. stack # <<>> /\ Head(stack).at # "endPause" /\ stack \in Seq(Frame)
    BY <1>1 DEF UpdatesOK, MainTypes, Current
  <2>2. Head(stack) \in Frame /\ Head(stack) = stack[1] /\ 1 \in DOMAIN stack
    BY <2>1
  <2>3. f \in Frame /\ f.at = Head(stack).at
    BY <2>2 DEF Frame
  <2>4. stack' = [stack EXCEPT ![1] = f] /\ UNCHANGED <<scheduled, posted, inTransaction>>
    BY <1>1, <2>2 DEF ScheduleAssetUpdate
  <2> HIDE DEF f
  <2> QED
    BY <2>1, <2>3, <2>4, FrameChanged DEF UpdatesOK, MainTypes
<1>2. CASE ~(onMain /\ inTransaction)
  BY <1>2, Pumped DEF ScheduleAssetUpdate
<1> QED
  BY <1>1, <1>2

LEMMA Unpaused ==
  ASSUME UpdatesOK, NEW onMain \in BOOLEAN, NEW below \in Seq(Frame), Unpause(onMain, below),
         Cardinality(EndPauses(below)) < pauseCount,
         inTransaction => below # <<>> /\ Head(below).at # "endPause"
  PROVE  UpdatesOK'
<1>1. Cardinality(EndPauses(below)) \in Nat /\ pauseCount' = pauseCount - 1 /\ crashed' = crashed
  BY PausesFinite DEF Unpause
<1>2. pauseCount' \in Nat /\ Cardinality(EndPauses(below)) <= pauseCount'
  BY <1>1 DEF UpdatesOK, MainTypes
<1>3. CASE pauseCount = 1 /\ scheduled > 0 /\ onMain
  <2>1. PerformUpdates(below, scheduled) /\ posted' = posted /\ scheduled \in Nat
    BY <1>3 DEF Unpause, UpdatesOK, MainTypes
  <2>2. MainTypes'
    BY <1>1, <1>2, <2>1, PerformedTypes DEF UpdatesOK, MainTypes
  <2> QED
    BY <1>2, <2>1, <2>2, Performed DEF UpdatesOK
<1>4. CASE ~(pauseCount = 1 /\ scheduled > 0 /\ onMain)
  <2>1. /\ posted' = posted + IF pauseCount = 1 /\ scheduled > 0 THEN 1 ELSE 0
        /\ stack' = below /\ UNCHANGED <<scheduled, inTransaction>>
    BY <1>4 DEF Unpause
  <2>2. MainTypes'
    BY <1>1, <1>2, <2>1 DEF UpdatesOK, MainTypes
  <2>3. Paused' /\ Current'
    BY <1>2, <2>1 DEF Paused, Current
  <2>4. NoStrandedUpdate'
    BY <1>1, <2>1 DEF UpdatesOK, MainTypes, NoStrandedUpdate
  <2> QED
    BY <2>2, <2>3, <2>4 DEF UpdatesOK
<1> QED
  BY <1>3, <1>4

LEMMA UpdatesStep ==
  ASSUME TypeOK, UpdatesOK, [Next]_vars
  PROVE  UpdatesOK'
<1> USE DEF quietVars, restVars, updateVars
<1>0. /\ stack \in Seq(Frame) /\ scheduled \in Nat /\ posted \in Nat /\ pauseCount \in Nat
      /\ NoLocation \in Locations \cup {NoLocation} /\ None \in ConsumerIds \cup {None}
      /\ 0 \in Nat /\ 1 \in Nat /\ Cardinality(EndPauses(stack)) <= pauseCount
      /\ Cardinality(EndPauses(stack)) \in Nat
  BY PausesFinite DEF UpdatesOK, MainTypes, Paused
<1>more. More \in Nat /\ More + 1 \in Nat
  BY DEF More
<1>1. ASSUME UNCHANGED <<updateVars, pauseCount, crashed>> PROVE UpdatesOK'
  BY <1>1 DEF UpdatesOK, MainTypes, Paused, Current, NoStrandedUpdate
<1>2. CASE RunPostedUpdates
  <2>1. /\ PerformUpdates(stack, scheduled) /\ posted > 0 /\ posted' = posted - 1
        /\ UNCHANGED <<pauseCount, crashed>>
    BY <1>2 DEF RunPostedUpdates
  <2>2. MainTypes'
    BY <1>0, <2>1, PerformedTypes DEF UpdatesOK, MainTypes
  <2> QED
    BY <1>0, <2>1, <2>2, Performed DEF UpdatesOK
<1>3. CASE FinishUpdates
  <2>1. /\ stack # <<>> /\ Head(stack).at # "endPause"
        /\ stack' = Tail(stack) /\ inTransaction' = FALSE
        /\ UNCHANGED <<scheduled, posted, pauseCount, crashed>>
    BY <1>3, Innermost DEF FinishUpdates
  <2>2. stack' \in Seq(Frame) /\ Cardinality(EndPauses(stack)) = Cardinality(EndPauses(stack'))
    <3>1. Cardinality(EndPauses(Tail(stack))) \in Nat
      BY <1>0, <2>1, Popped, PausesFinite
    <3> QED
      BY <1>0, <2>1, <3>1, Popped
  <2> QED
    BY <1>0, <2>1, <2>2 DEF UpdatesOK, MainTypes, Paused, Current, NoStrandedUpdate
<1>4. CASE ResumeEndPause
  <2>1. /\ stack # <<>> /\ Head(stack).at = "endPause" /\ Unpause(TRUE, Tail(stack))
    BY <1>4, Innermost DEF ResumeEndPause
  <2>2. /\ Tail(stack) \in Seq(Frame)
        /\ Cardinality(EndPauses(stack)) = Cardinality(EndPauses(Tail(stack))) + 1
    BY <1>0, <2>1, Popped
  <2>3. Cardinality(EndPauses(Tail(stack))) \in Nat
    BY <2>2, PausesFinite
  <2>4. ~inTransaction /\ Cardinality(EndPauses(Tail(stack))) < pauseCount
    BY <1>0, <2>1, <2>2, <2>3 DEF UpdatesOK, Current
  <2> QED
    BY <2>1, <2>2, <2>4, Unpaused
<1>5. CASE UpdateNothing \/ RemoveManagedAsset
  BY <1>0, <1>5, UpdateDone DEF UpdateNothing, RemoveManagedAsset, Unwanted, Updating
<1>6. CASE ResolveAssetLocation
  BY <1>0, <1>6, UpdateDone DEF ResolveAssetLocation, Updating
<1>7. ASSUME NEW c \in ConsumerIds, RemoveAssetConsumer(c) \/ FailConsumer(c) \/ MakeRequest(c)
      PROVE  UpdatesOK'
  BY <1>0, <1>more, <1>7, UpdateDone
     DEF RemoveAssetConsumer, FailConsumer, MakeRequest, Loads, UpdatingConsumer, Updating
<1>8. ASSUME NEW c \in ConsumerIds, ShareRequest(c) PROVE UpdatesOK'
  <2>1. \E n \in Nat : After(n, "locked", None, NoLocation)
    BY <1>more, <1>8 DEF ShareRequest
  <2> QED
    BY <1>0, <1>8, <2>1, UpdateDone DEF ShareRequest, Loads, UpdatingConsumer, Updating
<1>9. ASSUME NEW c \in ConsumerIds, NotifyAssetConsumer(c) PROVE UpdatesOK'
  <2>1. consumer[c].loaded \in Locations \cup {NoLocation}
    BY TypeParts DEF AssetTypes, ConsumerRec
  <2> QED
    BY <1>more, <1>9, <2>1, UpdateDone DEF NotifyAssetConsumer, UpdatingConsumer, Updating
<1>10. CASE CallObserver
  <2> DEFINE f == [Head(stack) EXCEPT !.at = "callback", !.consumer = None, !.told = NoLocation]
  <2>1. stack # <<>> /\ Head(stack).at # "endPause"
    BY <1>10, Innermost DEF CallObserver
  <2>2. Head(stack) \in Frame /\ Head(stack) = stack[1]
    BY <1>0, <2>1
  <2>3. f \in Frame /\ f.at # "endPause"
    BY <2>2 DEF Frame
  <2>4. stack' = [stack EXCEPT ![1] = f] /\ crashed' \in BOOLEAN
    <3>1. stack' = [stack EXCEPT ![1] = f]
      BY <1>10, <2>2 DEF CallObserver
    <3>2. crashed' \in BOOLEAN
      <4> DEFINE missing == ~consumer[Head(stack).consumer].observed
                 moved == /\ Head(stack).told # NoLocation
                          /\ consumer[Head(stack).consumer].loaded # Head(stack).told
      <4>1. crashed' \in IF missing THEN {TRUE} ELSE {FALSE, moved}
        BY <1>10 DEF CallObserver
      <4>2. moved \in BOOLEAN
        OBVIOUS
      <4> HIDE DEF missing, moved
      <4> QED
        BY <4>1, <4>2
    <3> QED
      BY <3>1, <3>2
  <2> HIDE DEF f
  <2> QED
    BY <1>10, <2>1, <2>3, <2>4, FrameChanged DEF CallObserver
<1>11. CASE ObserverReturns
  <2> DEFINE f == [Head(stack) EXCEPT !.at = "locked"]
  <2>1. stack # <<>> /\ Head(stack).at # "endPause"
    BY <1>11, Innermost DEF ObserverReturns
  <2>2. Head(stack) \in Frame /\ Head(stack) = stack[1] /\ 1 \in DOMAIN stack
    BY <1>0, <2>1
  <2>3. f \in Frame /\ f.at # "endPause"
    BY <2>2 DEF Frame
  <2>4. stack' = [stack EXCEPT ![1] = f]
    BY <1>11, <2>2 DEF ObserverReturns
  <2> HIDE DEF f
  <2> QED
    BY <1>11, <2>1, <2>3, <2>4, FrameChanged DEF ObserverReturns, UpdatesOK, MainTypes
<1>12. CASE LocationResolved
  <2>1. /\ ScheduleAssetUpdate(FALSE) \/ UNCHANGED updateVars
        /\ UNCHANGED <<pauseCount, crashed>>
    BY <1>12 DEF LocationResolved
  <2> QED
    BY <1>1, <2>1, Scheduled
<1>13. CASE FlushTake \/ FlushCall \/ FlushDone \/ GetAsset \/ RemoteResourcesLoaded
  BY <1>1, <1>13 DEF FlushTake, FlushCall, FlushDone, GetAsset, RemoteResourcesLoaded
<1>14. CASE FlushUpdates
  <2>1. PerformUpdates(stack, scheduled) /\ UNCHANGED <<posted, pauseCount, crashed>>
    BY <1>14 DEF FlushUpdates
  <2>2. MainTypes'
    BY <1>0, <2>1, PerformedTypes DEF UpdatesOK, MainTypes
  <2> QED
    BY <1>0, <2>1, <2>2, Performed DEF UpdatesOK
<1>15. ASSUME NEW onMain \in BOOLEAN,
              \/ ObservableDestroyed(onMain) \/ AddAssetLoadObserver(onMain)
              \/ RemoveAssetLoadObserver(onMain) \/ SetResolvedAssetLocation(onMain)
              \/ RetryFailedAssets(onMain) \/ \E r \in Requests : OnLoad(onMain, r)
       PROVE  UpdatesOK'
  <2>1. /\ ScheduleAssetUpdate(onMain) \/ PumpUpdates(onMain) \/ UNCHANGED updateVars
        /\ UNCHANGED <<pauseCount, crashed>>
    BY <1>15 DEF ObservableDestroyed, AddAssetLoadObserver, RemoveAssetLoadObserver,
                 SetResolvedAssetLocation, RetryFailedAssets, OnLoad
  <2> QED
    BY <1>1, <2>1, Scheduled, Pumped
<1>16. ASSUME NEW onMain \in BOOLEAN, BeginPauseUpdates(onMain) PROVE UpdatesOK'
  BY <1>0, <1>16 DEF BeginPauseUpdates, UpdatesOK, MainTypes, Paused, Current, NoStrandedUpdate
<1>17. ASSUME NEW onMain \in BOOLEAN, EndPauseUpdates(onMain) PROVE UpdatesOK'
  <2>1. Cardinality(EndPauses(stack)) < pauseCount
    BY <1>0, <1>17 DEF EndPauseUpdates, PausesLeft, EndPauses
  <2>2. CASE FlushBeforeUnpause
    <3> DEFINE f == [at |-> "endPause", updates |-> 0, consumer |-> None, told |-> NoLocation]
    <3>1. f \in Frame /\ f.at = "endPause"
      BY <1>0 DEF Frame
    <3>2. /\ PerformUpdates(<<f>> \o stack, scheduled)
          /\ UNCHANGED <<posted, pauseCount, crashed>>
      BY <2>2 DEF FlushBeforeUnpause
    <3> HIDE DEF f
    <3>3. /\ <<f>> \o stack \in Seq(Frame)
          /\ Cardinality(EndPauses(<<f>> \o stack)) <= pauseCount
      BY <1>0, <2>1, <3>1, Pushed
    <3>4. MainTypes'
      BY <1>0, <3>2, <3>3, PerformedTypes DEF UpdatesOK, MainTypes
    <3> QED
      BY <1>0, <3>2, <3>3, <3>4, Performed DEF UpdatesOK
  <2>3. CASE Unpause(onMain, stack)
    BY <1>0, <2>1, <2>3, Unpaused DEF UpdatesOK, Current
  <2> QED
    BY <1>17, <2>2, <2>3 DEF EndPauseUpdates
<1>18. CASE UNCHANGED vars
  BY <1>1, <1>18 DEF vars
<1> QED
  BY <1>2, <1>3, <1>4, <1>5, <1>6, <1>7, <1>8, <1>9, <1>10, <1>11, <1>12, <1>13, <1>14, <1>15,
     <1>16, <1>17, <1>18 DEF Next, MainThread, WorkerThread, Others

-----------------------------------------------------------------------------
(* Sequences as the queues they are. *)
LEMMA AppendElements ==
  ASSUME NEW S, NEW s \in Seq(S), NEW x \in S
  PROVE  /\ Append(s, x) \in Seq(S) /\ Elements(Append(s, x)) = Elements(s) \cup {x}
         /\ Distinct(s) /\ x \notin Elements(s) => Distinct(Append(s, x))
<1> DEFINE t == Append(s, x)
<1>1. /\ t \in Seq(S) /\ Len(t) = Len(s) + 1 /\ Len(s) \in Nat
      /\ \A i \in 1 .. Len(s) : t[i] = s[i]
      /\ t[Len(s) + 1] = x
  BY AppendProperties
<1> HIDE DEF t
<1>2. DOMAIN t = 1 .. Len(s) + 1 /\ DOMAIN s = 1 .. Len(s)
  BY <1>1
<1>3. Elements(t) = Elements(s) \cup {x}
  <2>1. ASSUME NEW i \in DOMAIN t PROVE t[i] \in Elements(s) \cup {x}
    BY <1>1, <1>2 DEF Elements
  <2>2. ASSUME NEW i \in DOMAIN s PROVE s[i] \in Elements(t)
    BY <1>1, <1>2 DEF Elements
  <2>3. x \in Elements(t)
    BY <1>1, <1>2 DEF Elements
  <2> QED
    BY <2>1, <2>2, <2>3 DEF Elements
<1>4. Distinct(s) /\ x \notin Elements(s) => Distinct(t)
  BY <1>1, <1>2 DEF Distinct, Elements
<1> QED
  BY <1>1, <1>3, <1>4 DEF t

LEMMA TailElements ==
  ASSUME NEW S, NEW s \in Seq(S), s # <<>>
  PROVE  /\ Head(s) \in S /\ Tail(s) \in Seq(S)
         /\ Head(s) \in Elements(s) /\ Elements(s) = Elements(Tail(s)) \cup {Head(s)}
         /\ Distinct(s) => Distinct(Tail(s)) /\ Head(s) \notin Elements(Tail(s))
<1> DEFINE t == Tail(s)
<1>1. /\ t \in Seq(S) /\ Len(t) = Len(s) - 1 /\ Len(s) \in Nat /\ Len(s) > 0 /\ Head(s) \in S
      /\ \A i \in 1 .. Len(t) : t[i] = s[i + 1]
      /\ Head(s) = s[1]
  BY HeadTailProperties
<1> HIDE DEF t
<1>2. DOMAIN t = 1 .. Len(s) - 1 /\ DOMAIN s = 1 .. Len(s)
  BY <1>1
<1>3. ASSUME NEW i \in DOMAIN t PROVE i + 1 \in DOMAIN s /\ t[i] = s[i + 1]
  BY <1>1, <1>2
<1>4. ASSUME NEW i \in DOMAIN s, i # 1 PROVE i - 1 \in DOMAIN t /\ t[i - 1] = s[i]
  <2>1. i - 1 \in 1 .. Len(t) /\ (i - 1) + 1 = i
    BY <1>1, <1>2, <1>4
  <2> QED
    BY <1>1, <1>2, <2>1
<1>5. Elements(s) = Elements(t) \cup {Head(s)} /\ Head(s) \in Elements(s)
  <2>1. 1 \in DOMAIN s /\ Head(s) \in Elements(s)
    BY <1>1, <1>2 DEF Elements
  <2>2. ASSUME NEW i \in DOMAIN t PROVE t[i] \in Elements(s)
    BY <1>3 DEF Elements
  <2>3. ASSUME NEW i \in DOMAIN s PROVE s[i] \in Elements(t) \cup {Head(s)}
    <3>1. CASE i = 1
      BY <1>1, <3>1
    <3>2. CASE i # 1
      BY <1>4, <3>2 DEF Elements
    <3> QED
      BY <3>1, <3>2
  <2> QED
    BY <2>1, <2>2, <2>3 DEF Elements
<1>6. ASSUME Distinct(s) PROVE Distinct(t) /\ Head(s) \notin Elements(t)
  <2>1. 1 \in DOMAIN s /\ \A i \in DOMAIN t : i \in Nat /\ i # 0
    BY <1>1, <1>2
  <2>2. ASSUME NEW i \in DOMAIN t, NEW j \in DOMAIN t, t[i] = t[j] PROVE i = j
    <3>1. i + 1 = j + 1
      BY <1>3, <1>6, <2>2 DEF Distinct
    <3> QED
      BY <2>1, <3>1
  <2>3. ASSUME NEW i \in DOMAIN t PROVE t[i] # s[1]
    <3>1. i + 1 # 1
      BY <2>1
    <3> QED
      BY <1>3, <1>6, <2>1, <3>1 DEF Distinct
  <2> QED
    BY <1>1, <2>2, <2>3 DEF Distinct, Elements
<1> QED
  BY <1>1, <1>5, <1>6 DEF t

-----------------------------------------------------------------------------
(* The resolutions under way. *)
InFlight == (resolving \cup Elements(worker)) \ {Flush}

QueueOK ==
  /\ worker \in Seq(Nat) /\ resolving \subseteq Nat /\ resolveSeq \in Nat
  /\ flushScheduled \in BOOLEAN /\ Numbered /\ FlushQueued

LEMMA FlushInWorker == FlushQueued <=> (flushScheduled <=> Flush \in Elements(worker))
  BY DEF FlushQueued, Elements

LEMMA FlushInWorkerNext == FlushQueued' <=> (flushScheduled' <=> Flush \in Elements(worker'))
  BY DEF FlushQueued, Elements

LEMMA FlushScheduled ==
  ASSUME QueueOK, NEW needed \in BOOLEAN, ScheduleFlush(worker, needed),
         UNCHANGED <<resolving, resolveSeq>>
  PROVE  QueueOK' /\ InFlight' = InFlight
<1>1. CASE needed /\ ~flushScheduled
  <2>1. worker' = Append(worker, Flush) /\ flushScheduled'
    BY <1>1 DEF ScheduleFlush
  <2>2. Flush \notin Elements(worker) /\ Flush \in Nat /\ worker \in Seq(Nat)
    BY <1>1, FlushInWorker DEF QueueOK, Flush
  <2>3. worker' \in Seq(Nat) /\ Elements(worker') = Elements(worker) \cup {Flush} /\ Distinct(worker')
    BY <2>1, <2>2, AppendElements DEF QueueOK, Numbered
  <2>4. Flush \notin resolving /\ Flush <= resolveSeq
    BY DEF QueueOK, Numbered, Flush
  <2> QED
    BY <1>1, <2>1, <2>3, <2>4, FlushInWorkerNext DEF QueueOK, Numbered, InFlight, ScheduleFlush
<1>2. CASE ~(needed /\ ~flushScheduled)
  <2>1. worker' = worker /\ flushScheduled' = flushScheduled
    BY <1>2 DEF ScheduleFlush
  <2> QED
    BY <2>1 DEF QueueOK, Numbered, FlushQueued, InFlight
<1> QED
  BY <1>1, <1>2

LEMMA WorkerTakes ==
  ASSUME QueueOK, worker # <<>>, worker' = Tail(worker), UNCHANGED <<resolving, resolveSeq>>,
         flushScheduled' = (flushScheduled /\ Head(worker) # Flush)
  PROVE  QueueOK' /\ InFlight' = InFlight \ {Head(worker)}
<1>1. /\ worker' \in Seq(Nat) /\ Elements(worker) = Elements(worker') \cup {Head(worker)}
      /\ Distinct(worker') /\ Head(worker) \notin Elements(worker')
      /\ Head(worker) \in Elements(worker)
  BY TailElements DEF QueueOK, Numbered
<1>2. Head(worker) \notin resolving
  BY <1>1 DEF QueueOK, Numbered
<1> QED
  BY <1>1, <1>2, FlushInWorker, FlushInWorkerNext DEF QueueOK, Numbered, InFlight

LEMMA AnswerQueued ==
  ASSUME QueueOK, NEW id \in Nat, id # Flush, id \notin Elements(worker), worker' = Append(worker, id),
         flushScheduled' = flushScheduled, resolving' = resolving \ {id},
         resolveSeq' \in Nat, resolveSeq <= resolveSeq', id <= resolveSeq'
  PROVE  QueueOK' /\ InFlight' = InFlight \cup {id}
<1>1. worker' \in Seq(Nat) /\ Elements(worker') = Elements(worker) \cup {id} /\ Distinct(worker')
  BY AppendElements DEF QueueOK, Numbered
<1>2. \A i \in resolving' \cup Elements(worker) : i \in Nat /\ i <= resolveSeq'
  <2>1. Elements(worker) \subseteq Nat
    BY ElementOfSeq DEF Elements, QueueOK
  <2> QED
    BY <2>1 DEF QueueOK, Numbered
<1>3. Numbered'
  <2>1. \A i \in resolving' : i \in 1 .. resolveSeq'
    BY DEF QueueOK, Numbered
  <2>2. \A i \in Elements(worker') : i <= resolveSeq' /\ i \notin resolving'
    BY <1>1, <1>2 DEF QueueOK, Numbered
  <2> QED
    BY <1>1, <2>1, <2>2 DEF Numbered
<1>4. FlushQueued'
  BY <1>1, FlushInWorker, FlushInWorkerNext DEF QueueOK
<1> QED
  BY <1>1, <1>3, <1>4 DEF QueueOK, InFlight

ResolutionOK == QueueOK /\ Identified /\ AnswersAwaited

LEMMA Awaiting ==
  AnswersAwaited <=>
    \A id \in InFlight : asset.alive /\ asset.resolveId = id => asset.state = "resolving"
  BY DEF AnswersAwaited, InFlight, Elements

LEMMA AwaitingNext ==
  AnswersAwaited' <=>
    \A id \in InFlight' : asset'.alive /\ asset'.resolveId = id => asset'.state = "resolving"
  BY DEF AnswersAwaited, InFlight, Elements

LEMMA ResolutionStep ==
  ASSUME TypeOK, ResolutionOK, [Next]_vars
  PROVE  ResolutionOK'
<1> USE DEF quietVars, restVars, updateVars, loadVars, workVars, assetVars
<1>0. /\ asset \in AssetRec /\ QueueOK /\ Identified /\ resolveSeq \in Nat
      /\ worker \in Seq(Nat)
      /\ \A id \in InFlight : asset.alive /\ asset.resolveId = id => asset.state = "resolving"
      /\ \A id \in InFlight : id \in Nat /\ id # 0 /\ id <= resolveSeq
      /\ \A i \in resolving : i \in 1 .. resolveSeq
      /\ \A i \in Elements(worker) : i \in Nat /\ i <= resolveSeq /\ i \notin resolving
      /\ Distinct(worker)
  <2>1. \A id \in Elements(worker) : id \in Nat
    BY ElementOfSeq DEF Elements, ResolutionOK, QueueOK
  <2>2. Numbered
    BY DEF ResolutionOK, QueueOK
  <2> QED
    BY <2>1, <2>2, TypeParts, Awaiting DEF ResolutionOK, AssetTypes, QueueOK, Numbered, InFlight, Flush
<1>1. ASSUME QueueOK', InFlight' \subseteq InFlight, UNCHANGED <<asset, resolveSeq>> PROVE ResolutionOK'
  BY <1>0, <1>1, AwaitingNext DEF ResolutionOK, Identified
<1>2. ASSUME UNCHANGED <<worker, resolving, resolveSeq, flushScheduled>>
      PROVE  QueueOK' /\ InFlight' = InFlight
  BY <1>0, <1>2 DEF QueueOK, Numbered, FlushQueued, InFlight
<1>3. ASSUME UNCHANGED <<asset, worker, resolving, resolveSeq, flushScheduled>> PROVE ResolutionOK'
  BY <1>1, <1>2, <1>3
<1>4. CASE \/ RunPostedUpdates \/ FinishUpdates \/ UpdateNothing \/ CallObserver \/ ObserverReturns
           \/ FlushTake \/ FlushCall \/ FlushUpdates \/ UNCHANGED vars
           \/ \E c \in ConsumerIds : FailConsumer(c) \/ NotifyAssetConsumer(c)
  BY <1>3, <1>4 DEF RunPostedUpdates, FinishUpdates, UpdateNothing, CallObserver, ObserverReturns,
                    FlushTake, FlushCall, FlushUpdates, FailConsumer, NotifyAssetConsumer, vars
<1>5. CASE \E onMain \in BOOLEAN :
             \/ RemoveAssetLoadObserver(onMain) \/ BeginPauseUpdates(onMain)
             \/ \E r \in Requests : OnLoad(onMain, r)
  BY <1>3, <1>5 DEF RemoveAssetLoadObserver, BeginPauseUpdates, OnLoad
<1>6. ASSUME NEW onMain, NEW below, Unpause(onMain, below) PROVE ResolutionOK'
  <2>1. /\ ScheduleFlush(worker, pauseCount = 1 /\ pending # <<>>)
        /\ (pauseCount = 1 /\ pending # <<>>) \in BOOLEAN
        /\ UNCHANGED <<asset, resolving, resolveSeq>>
    BY <1>6 DEF Unpause
  <2> QED
    BY <1>0, <1>1, <2>1, FlushScheduled
<1>7. CASE ResumeEndPause \/ \E onMain \in BOOLEAN : EndPauseUpdates(onMain)
  BY <1>3, <1>6, <1>7 DEF ResumeEndPause, EndPauseUpdates, FlushBeforeUnpause
<1>8. ASSUME NEW S, NEW r, NEW base, UpdateRequestHandlers(S, r, base),
             UNCHANGED <<asset, resolving, resolveSeq>>
      PROVE  ResolutionOK'
  <2>1. \E needed \in BOOLEAN : ScheduleFlush(worker, needed)
    BY <1>8 DEF UpdateRequestHandlers
  <2> QED
    BY <1>0, <1>1, <1>8, <2>1, FlushScheduled
<1>9. CASE \E c \in ConsumerIds : RemoveAssetConsumer(c) \/ ShareRequest(c) \/ MakeRequest(c)
  BY <1>8, <1>9 DEF RemoveAssetConsumer, ShareRequest, MakeRequest, Loads
<1>11. CASE RemoveManagedAsset
  <2>1. UNCHANGED <<worker, resolving, resolveSeq, flushScheduled>> /\ asset' = NoAsset
    BY <1>11 DEF RemoveManagedAsset
  <2>2. QueueOK' /\ InFlight' = InFlight
    BY <1>2, <2>1
  <2> QED
    BY <1>0, <2>1, <2>2, AwaitingNext DEF NoAsset, Identified, ResolutionOK
<1>12. CASE GetAsset
  <2>1. /\ UNCHANGED <<worker, resolving, resolveSeq, flushScheduled>>
        /\ asset' = [asset EXCEPT !.alive = TRUE, !.observable = TRUE]
    BY <1>12 DEF GetAsset
  <2>2. QueueOK' /\ InFlight' = InFlight
    BY <1>2, <2>1
  <2> QED
    BY <1>0, <2>1, <2>2, AwaitingNext DEF AssetRec, Identified, ResolutionOK
<1>13. ASSUME NEW onMain \in BOOLEAN,
              \/ ObservableDestroyed(onMain) \/ AddAssetLoadObserver(onMain) \/ RetryFailedAssets(onMain)
       PROVE  ResolutionOK'
  <2>1. UNCHANGED <<worker, resolving, resolveSeq, flushScheduled>>
    BY <1>13 DEF ObservableDestroyed, AddAssetLoadObserver, RetryFailedAssets
  <2>2. /\ asset'.alive = asset.alive /\ asset'.resolveId = asset.resolveId
        /\ asset'.state = asset.state \/ asset.state = "failedRetryable"
    BY <1>0, <1>13 DEF ObservableDestroyed, AddAssetLoadObserver, RetryFailedAssets, AssetRec
  <2>3. QueueOK' /\ InFlight' = InFlight
    BY <1>2, <2>1
  <2> QED
    BY <1>0, <2>1, <2>2, <2>3, AwaitingNext DEF Identified, ResolutionOK
<1>14. ASSUME NEW onMain \in BOOLEAN, SetResolvedAssetLocation(onMain) PROVE ResolutionOK'
  <2>1. /\ asset'.alive /\ asset'.resolveId = 0
        /\ UNCHANGED <<resolving, resolveSeq>>
    BY <1>0, <1>14 DEF SetResolvedAssetLocation, Overridden, AssetRec
  <2>2. QueueOK' /\ InFlight' = InFlight
    <3>1. CASE asset.state = "ready"
      <4>1. \E needed \in BOOLEAN : ScheduleFlush(worker, needed)
        BY <1>14, <3>1 DEF SetResolvedAssetLocation, UpdateRequestHandlers
      <4> QED
        BY <1>0, <2>1, <4>1, FlushScheduled
    <3>2. CASE asset.state # "ready"
      BY <1>2, <1>14, <2>1, <3>2 DEF SetResolvedAssetLocation
    <3> QED
      BY <3>1, <3>2
  <2> QED
    BY <1>0, <2>1, <2>2, AwaitingNext DEF Identified, ResolutionOK
<1>15. CASE ResolveAssetLocation
  <2> DEFINE id == resolveSeq + 1
  <2>1. /\ resolveSeq' = id /\ id \in Nat /\ id # 0 /\ id \notin InFlight /\ id \notin resolving
        /\ asset'.resolveId = id /\ asset'.alive /\ UNCHANGED flushScheduled
        /\ asset'.state = IF kind = "url" THEN "ready" ELSE "resolving"
    <3>1. id \in Nat /\ id # 0 /\ id \notin InFlight /\ id \notin resolving
      BY <1>0 DEF InFlight, Flush
    <3> QED
      BY <1>0, <1>15, <3>1 DEF ResolveAssetLocation, AssetRec
  <2>2. CASE kind = "url"
    <3>1. UNCHANGED <<worker, resolving>>
      BY <1>15, <2>2 DEF ResolveAssetLocation
    <3>2. QueueOK' /\ InFlight' = InFlight
      <4>1. \A i \in resolving : i \in 1 .. id
        BY <1>0
      <4>2. \A i \in Elements(worker) : i <= id /\ i \notin resolving
        BY <1>0
      <4>3. Numbered'
        BY <1>0, <2>1, <3>1, <4>1, <4>2 DEF Numbered
      <4> QED
        BY <1>0, <2>1, <3>1, <4>3 DEF QueueOK, FlushQueued, InFlight
    <3> QED
      BY <1>0, <2>1, <2>2, <3>2, AwaitingNext DEF Identified, ResolutionOK
  <2>3. CASE kind = "local"
    <3>1. worker' = Append(worker, id) /\ UNCHANGED resolving
      BY <1>15, <2>3 DEF ResolveAssetLocation
    <3>2. QueueOK' /\ InFlight' = InFlight \cup {id}
      BY <1>0, <2>1, <3>1, AnswerQueued DEF InFlight, Flush
    <3> QED
      BY <1>0, <2>1, <2>3, <3>2, AwaitingNext DEF Identified, ResolutionOK
  <2>4. CASE kind # "url" /\ kind # "local"
    <3>1. worker' = worker /\ resolving' = resolving \cup {id}
      BY <1>15, <2>4 DEF ResolveAssetLocation
    <3>2. QueueOK' /\ InFlight' = InFlight \cup {id}
      <4>1. \A i \in resolving' : i \in 1 .. id
        BY <1>0, <2>1, <3>1
      <4>2. \A i \in Elements(worker) : i <= id /\ i \notin resolving'
        BY <1>0, <2>1, <3>1
      <4>3. Numbered'
        BY <1>0, <2>1, <3>1, <4>1, <4>2 DEF Numbered
      <4> QED
        BY <1>0, <2>1, <3>1, <4>3 DEF QueueOK, FlushQueued, InFlight, Flush
    <3> QED
      BY <1>0, <2>1, <2>4, <3>2, AwaitingNext DEF Identified, ResolutionOK
  <2> QED
    BY <2>2, <2>3, <2>4
<1>16. CASE LocationResolved
  <2>1. /\ worker # <<>> /\ Head(worker) # Flush /\ worker' = Tail(worker)
        /\ UNCHANGED <<resolving, resolveSeq, flushScheduled>>
    BY <1>16 DEF LocationResolved
  <2>2. QueueOK' /\ InFlight' = InFlight \ {Head(worker)}
    BY <1>0, <2>1, WorkerTakes DEF QueueOK
  <2>3. CASE asset.alive /\ asset.resolveId = Head(worker)
    <3>1. asset'.resolveId = asset.resolveId /\ asset'.alive
      BY <1>0, <1>16, <2>3 DEF LocationResolved, AssetRec
    <3> QED
      BY <1>0, <2>1, <2>2, <2>3, <3>1, AwaitingNext DEF Identified, ResolutionOK
  <2>4. CASE ~(asset.alive /\ asset.resolveId = Head(worker))
    BY <1>1, <1>16, <2>1, <2>2, <2>4 DEF LocationResolved
  <2> QED
    BY <2>3, <2>4
<1>17. CASE FlushDone
  <2>1. /\ worker # <<>> /\ Head(worker) = Flush /\ worker' = Tail(worker) /\ flushScheduled' = FALSE
        /\ UNCHANGED <<asset, resolving, resolveSeq>>
    BY <1>17 DEF FlushDone
  <2> QED
    BY <1>0, <1>1, <2>1, WorkerTakes
<1>18. CASE RemoteResourcesLoaded
  <2>1. PICK id \in resolving : resolving' = resolving \ {id} /\ worker' = Append(worker, id)
    BY <1>18 DEF RemoteResourcesLoaded
  <2>2. /\ id \in InFlight /\ id \in Nat /\ id # Flush /\ id \notin Elements(worker) /\ id <= resolveSeq
    BY <1>0 DEF QueueOK, Numbered, InFlight, Flush
  <2>3. UNCHANGED <<asset, resolveSeq, flushScheduled>>
    BY <1>18 DEF RemoteResourcesLoaded
  <2> QED
    BY <1>0, <1>1, <2>1, <2>2, <2>3, AnswerQueued
<1> QED
  BY <1>4, <1>5, <1>7, <1>9, <1>11, <1>12, <1>13, <1>14, <1>15, <1>16, <1>17, <1>18
     DEF Next, MainThread, WorkerThread, Others

-----------------------------------------------------------------------------
(* Who is updated, and what is done with the requests. *)
LEMMA LowestIn ==
  ASSUME NEW S, S \subseteq Nat, S # {}
  PROVE  Lowest(S) \in S
<1>1. \E R : IsWellFoundedOn(R, Nat) /\ \A x, y \in Nat : x < y => <<x, y>> \in R
  <2>1. \A x, y \in Nat : x < y => <<x, y>> \in OpToRel(<, Nat)
    BY DEF OpToRel
  <2> QED
    BY <2>1, NatLessThanWellFounded
<1>2. PICK R : IsWellFoundedOn(R, Nat) /\ \A x, y \in Nat : x < y => <<x, y>> \in R
  BY <1>1
<1>3. \E x \in S : \A y \in S : ~(<<y, x>> \in R)
  <2>1. IsWellFoundedOn(R, Nat)
    BY <1>2
  <2>2. \A T : T \subseteq Nat /\ T # {} => \E x \in T : \A y \in T : ~(<<y, x>> \in R)
    BY <2>1, WFMin
  <2> QED
    BY <2>2
<1>4. PICK x \in S : \A y \in S : ~(<<y, x>> \in R)
  BY <1>3
<1>5. ASSUME NEW y \in S PROVE x <= y
  <2>1. x \in Nat /\ y \in Nat
    OBVIOUS
  <2>2. ~(y < x)
    BY <1>2, <1>4, <2>1, Zenon
  <2> QED
    BY <2>1, <2>2
<1> QED
  BY <1>4, <1>5 DEF Lowest

LEMMA UpdatedConsumer ==
  ASSUME TypeOK, NEW c, UpdatingConsumer(c)
  PROVE  c \in present /\ Settled
<1>1. Gone \cup Due \subseteq present /\ present \subseteq Nat
  BY Bounds DEF Gone, Due, TypeOK
<1>2. Lowest(Gone \cup Due) \in Gone \cup Due
  BY <1>1, LowestIn DEF UpdatingConsumer
<1>3. ASSUME NEW told, told \subseteq Due, told # {} PROVE Lowest(told) \in present
  BY <1>1, <1>3, LowestIn
<1>4. NextConsumer.consumer \in present
  <2> DEFINE first == Lowest(Gone \cup Due)
             told  == {d \in Due \ Gone : d > first}
  <2>1. told \subseteq Due
    OBVIOUS
  <2> HIDE DEF first, told
  <2>2. NextConsumer =
          IF first \in Gone \cap Due THEN [consumer |-> first, hasMore |-> TRUE]
          ELSE IF told = {} THEN [consumer |-> first, hasMore |-> FALSE]
          ELSE [consumer |-> IF first \in Gone THEN Lowest(told) ELSE first, hasMore |-> TRUE]
    BY DEF NextConsumer, first, told
  <2>3. first \in present
    BY <1>1, <1>2 DEF first
  <2>4. told # {} => Lowest(told) \in present
    BY <1>3, <2>1
  <2> QED
    BY <2>2, <2>3, <2>4
<1> QED
  BY <1>4 DEF UpdatingConsumer

Holders(q) == {c \in present : consumer[c].request = q}

LEMMA HoldersFinite ==
  ASSUME TypeOK
  PROVE  /\ present \subseteq ConsumerIds
         /\ \A q : IsFiniteSet(Holders(q)) /\ Cardinality(Holders(q)) \in Nat
<1>1. present \subseteq ConsumerIds
  BY Bounds DEF TypeOK, ConsumerIds
<1>2. ASSUME NEW q PROVE IsFiniteSet(Holders(q)) /\ Cardinality(Holders(q)) \in Nat
  <2>1. Holders(q) \in SUBSET ConsumerIds
    BY <1>1 DEF Holders
  <2> QED
    BY <2>1, Bounds, FS_Subset, FS_CardinalityType
<1> QED
  BY <1>1, <1>2

(* Letting go of a request takes it from as many consumers as it counts. *)
LEMMA HeldCounted ==
  ASSUME TypeOK, RequestsCounted, NEW S \in SUBSET present, NEW q \in Requests
  PROVE  /\ Held(S, q) \in Nat /\ Held(S, q) <= request[q].count
         /\ Held(S, q) = Cardinality(S \cap Holders(q))
         /\ Cardinality(Holders(q) \ S) = request[q].count - Held(S, q)
         /\ Held(S, q) = 0 <=> S \cap Holders(q) = {}
<1> DEFINE H == S \cap Holders(q)
<1>1. {c \in S : consumer[c].request = q} = H
  BY DEF Holders
<1>2. IsFiniteSet(Holders(q)) /\ Cardinality(Holders(q)) = request[q].count
  BY HoldersFinite DEF RequestsCounted, Holders
<1>3. H \in SUBSET Holders(q)
  OBVIOUS
<1>4. IsFiniteSet(H) /\ Cardinality(H) \in Nat /\ Cardinality(H) <= request[q].count
  BY <1>2, <1>3, FS_Subset, FS_CardinalityType
<1>5. Cardinality(Holders(q) \ S) = request[q].count - Cardinality(H)
  <2>1. Holders(q) \cap S = H
    OBVIOUS
  <2> QED
    BY <1>2, <2>1, FS_Difference
<1>6. Cardinality(H) = 0 <=> H = {}
  BY <1>4, FS_EmptySet
<1> QED
  BY <1>1, <1>4, <1>5, <1>6 DEF Held

LEMMA ElementsTyped ==
  ASSUME NEW S, NEW s \in Seq(S)
  PROVE  Elements(s) \subseteq S
  BY ElementOfSeq DEF Elements

LEMMA ElementsConcat ==
  ASSUME NEW S, NEW s \in Seq(S), NEW t \in Seq(S)
  PROVE  s \o t \in Seq(S) /\ Elements(s \o t) = Elements(s) \cup Elements(t)
<1>1. s \o t \in Seq(S)
  BY ConcatProperties
<1>2. Range(s \o t) = Range(s) \cup Range(t)
  BY RangeConcatenation
<1>3. \A f : Elements(f) = Range(f)
  BY DEF Elements, Range
<1> QED
  BY <1>1, <1>2, <1>3

LEMMA ElementsEmpty ==
  ASSUME NEW S, NEW s \in Seq(S)
  PROVE  s = <<>> <=> Elements(s) = {}
<1>1. s = <<>> => Elements(s) = {}
  BY DEF Elements
<1>2. s # <<>> => Elements(s) # {}
  BY TailElements
<1> QED
  BY <1>1, <1>2

LEMMA OrdersElements ==
  ASSUME NEW F, IsFiniteSet(F), NEW s \in Orders(F)
  PROVE  s \in Seq(F) /\ Elements(s) = F
<1>1. /\ Cardinality(F) \in Nat /\ IsFiniteSet(1 .. Cardinality(F))
      /\ Cardinality(1 .. Cardinality(F)) = Cardinality(F)
  BY FS_CardinalityType, FS_Interval
<1>2. s \in [1 .. Cardinality(F) -> F] /\ \A i, j \in DOMAIN s : s[i] = s[j] => i = j
  BY DEF Orders
<1>3. s \in Injection(1 .. Cardinality(F), F)
  BY <1>2, Fun_IsInj
<1>4. s \in Surjection(1 .. Cardinality(F), F)
  BY <1>1, <1>3, FS_Injection
<1>5. \A x \in F : \E i \in 1 .. Cardinality(F) : s[i] = x
  BY <1>4 DEF Surjection
<1> QED
  BY <1>1, <1>2, <1>5 DEF Elements

(* What updateConsumerRequestHandler() does to the requests and their queue. *)
HandlersEffect(S, r, base) ==
  /\ request' \in [Requests -> RequestRec]
  /\ \A q \in Requests :
       /\ request'[q].count = (request[q].count - Held(S, q)) + IF q = r THEN 1 ELSE 0
       /\ request'[q].cancel <=> base[q].cancel \/ q \in Freed(S)
       /\ request'[q].load <=> base[q].load \/ q = r
       /\ request'[q].loader = base[q].loader /\ request'[q].location = base[q].location
       /\ request'[q].result = base[q].result /\ request'[q].answers = base[q].answers
  /\ pending' \in Seq(Requests)
  /\ Elements(pending') = Elements(pending) \cup Freed(S)
                            \cup (IF r # None /\ ~request[r].load THEN {r} ELSE {})
  /\ flushScheduled' \in BOOLEAN /\ (flushScheduled => flushScheduled')
  /\ pending' # <<>> => pending # <<>> \/ flushScheduled'

LEMMA HandlersUpdated ==
  ASSUME TypeOK, RequestsCounted, NEW S \in SUBSET present, NEW r \in Requests \cup {None},
         NEW base \in [Requests -> RequestRec], \A q \in Requests : base[q].count = request[q].count,
         UpdateRequestHandlers(S, r, base)
  PROVE  HandlersEffect(S, r, base)
<1> DEFINE loads == IF r # None /\ ~request[r].load THEN <<r>> ELSE <<>>
           table == [q \in Requests |->
                       [base[q] EXCEPT !.count = (@ - Held(S, q)) + IF q = r THEN 1 ELSE 0,
                                       !.cancel = @ \/ q \in Freed(S), !.load = @ \/ q = r]]
           taken == IF r # None /\ ~request[r].load THEN {r} ELSE {}
<1>1. /\ request' = table
      /\ \E cancels \in Orders(Freed(S)) : pending' = pending \o cancels \o loads
      /\ ScheduleFlush(worker, Freed(S) # {} \/ loads # <<>>)
  BY DEF UpdateRequestHandlers
<1>2. Freed(S) \subseteq Requests /\ IsFiniteSet(Freed(S)) /\ pending \in Seq(Requests)
  <2>1. Freed(S) \in SUBSET Requests
    BY DEF Freed
  <2> QED
    BY <2>1, Bounds, FS_Subset DEF TypeOK
<1>3. loads \in Seq(Requests) /\ Elements(loads) = taken
  <2>1. CASE r # None /\ ~request[r].load
    <3>1. r \in Requests
      BY <2>1
    <3>2. <<r>> \in Seq(Requests) /\ DOMAIN <<r>> = {1} /\ <<r>>[1] = r
      BY <3>1
    <3> QED
      BY <2>1, <3>2 DEF Elements
  <2>2. CASE ~(r # None /\ ~request[r].load)
    <3>1. <<>> \in Seq(Requests) /\ Elements(<<>>) = {}
      BY EmptySeq, ElementsEmpty
    <3> QED
      BY <2>2, <3>1
  <2> QED
    BY <2>1, <2>2
<1>4. ASSUME NEW q \in Requests PROVE Held(S, q) \in Nat /\ request[q].count - Held(S, q) \in Nat
  <2>1. request[q].count \in Nat
    BY TypeParts DEF LoadTypes, RequestRec
  <2>2. Held(S, q) \in Nat /\ Held(S, q) <= request[q].count
    BY HeldCounted
  <2> QED
    BY <2>1, <2>2
<1> HIDE DEF loads, taken
<1>5. ASSUME NEW q \in Requests
      PROVE  /\ table[q] \in RequestRec
             /\ table[q].count = (request[q].count - Held(S, q)) + IF q = r THEN 1 ELSE 0
             /\ table[q].cancel <=> base[q].cancel \/ q \in Freed(S)
             /\ table[q].load <=> base[q].load \/ q = r
             /\ table[q].loader = base[q].loader /\ table[q].location = base[q].location
             /\ table[q].result = base[q].result /\ table[q].answers = base[q].answers
  <2>1. base[q] \in RequestRec /\ base[q].count = request[q].count
    OBVIOUS
  <2>2. (base[q].count - Held(S, q)) + (IF q = r THEN 1 ELSE 0) \in Nat
    BY <1>4, <2>1
  <2> QED
    BY <2>1, <2>2 DEF RequestRec
<1>6. request' \in [Requests -> RequestRec]
  BY <1>1, <1>5
<1>7. PICK cancels \in Orders(Freed(S)) : pending' = pending \o cancels \o loads
  BY <1>1
<1>8. cancels \in Seq(Requests) /\ Elements(cancels) = Freed(S)
  <2>1. cancels \in Seq(Freed(S)) /\ Elements(cancels) = Freed(S)
    BY <1>2, OrdersElements
  <2> QED
    BY <1>2, <2>1, SeqMonotonic
<1>9. pending' \in Seq(Requests) /\ Elements(pending') = Elements(pending) \cup Freed(S) \cup taken
  <2>1. /\ pending \o cancels \in Seq(Requests)
        /\ Elements(pending \o cancels) = Elements(pending) \cup Freed(S)
    BY <1>2, <1>8, ElementsConcat
  <2>2. /\ (pending \o cancels) \o loads \in Seq(Requests)
        /\ Elements((pending \o cancels) \o loads) = Elements(pending \o cancels) \cup taken
    <3>1. \A s, t \in Seq(Requests) :
            s \o t \in Seq(Requests) /\ Elements(s \o t) = Elements(s) \cup Elements(t)
      BY ElementsConcat
    <3> HIDE DEF loads, taken
    <3> QED
      BY <1>3, <2>1, <3>1
  <2> QED
    BY <1>7, <2>1, <2>2
<1>10. flushScheduled' \in BOOLEAN /\ (flushScheduled => flushScheduled')
  <2>1. flushScheduled \in BOOLEAN
    BY DEF TypeOK
  <2>2. PICK needed \in BOOLEAN : ScheduleFlush(worker, needed)
    BY <1>1
  <2> QED
    BY <2>1, <2>2 DEF ScheduleFlush
<1>11. pending' # <<>> => pending # <<>> \/ flushScheduled'
  <2>1. CASE Freed(S) # {} \/ loads # <<>>
    <3>1. ScheduleFlush(worker, TRUE)
      BY <1>1, <2>1, Zenon
    <3> QED
      BY <3>1 DEF ScheduleFlush
  <2>2. CASE Freed(S) = {} /\ loads = <<>>
    BY <1>2, <1>3, <1>9, <2>2, ElementsEmpty
  <2> QED
    BY <2>1, <2>2
<1> QED
  <2>1. \A q \in Requests : request'[q] = table[q]
    BY <1>1
  <2> HIDE DEF table
  <2> QED
    BY <1>5, <1>6, <1>9, <1>10, <1>11, <2>1 DEF HandlersEffect, taken

-----------------------------------------------------------------------------
(* The load requests. *)
HandOK == inHand \in {<<>>} \cup (Requests \X {"load", "cancel"})

Reached ==
  \A r \in 1 .. made :
    request[r].loader = (IF request[r].cancel THEN "loading" ELSE "idle")
      => r \in Elements(pending) \/ (inHand # <<>> /\ inHand[1] = r)

FlushComing == pending # <<>> /\ pauseCount = 0 => flushScheduled

LEMMA NoneStranded ==
  /\ NoStrandedRequest <=> Reached /\ FlushComing /\ FlushQueued
  /\ NoStrandedRequest' <=> Reached' /\ FlushComing' /\ FlushQueued'
  BY DEF NoStrandedRequest, Reached, FlushComing, FlushQueued, Elements

LoadsOK ==
  LoadTypes /\ HandOK /\ Unmade /\ Taken /\ CancelledKeepsNothing /\ Reached /\ FlushComing

LEMMA LoadsLetGo ==
  ASSUME TypeOK, LoadsOK, RequestsCounted, \A c \in present : consumer[c].request <= made,
         NEW S \in SUBSET present, UpdateRequestHandlers(S, None, request),
         UNCHANGED <<made, inHand, pauseCount>>
  PROVE  LoadsOK'
<1>0. HandlersEffect(S, None, request) /\ request \in [Requests -> RequestRec]
  <2>1. request \in [Requests -> RequestRec] /\ None \in Requests \cup {None}
    BY TypeParts DEF LoadTypes
  <2> QED
    BY <2>1, HandlersUpdated
<1>1. /\ request' \in [Requests -> RequestRec] /\ pending' \in Seq(Requests)
      /\ Elements(pending') = Elements(pending) \cup Freed(S)
      /\ flushScheduled' \in BOOLEAN /\ (flushScheduled => flushScheduled')
      /\ pending' # <<>> => pending # <<>> \/ flushScheduled'
  BY <1>0 DEF HandlersEffect
<1>2. ASSUME NEW q \in Requests
      PROVE  /\ request'[q].count = request[q].count - Held(S, q)
             /\ request'[q].cancel <=> request[q].cancel \/ q \in Freed(S)
             /\ request'[q].load <=> request[q].load
             /\ request'[q].loader = request[q].loader /\ request'[q].result = request[q].result
  <2>1. request[q].count \in Nat /\ Held(S, q) \in Nat /\ q # None
    BY <1>0, HeldCounted, Bounds DEF RequestRec
  <2> QED
    BY <1>0, <2>1 DEF HandlersEffect
<1>3. made \in Nat /\ made <= MaxRequests
  BY Bounds DEF LoadsOK, Unmade
<1>4. LoadTypes' /\ HandOK'
  BY <1>1, <1>3 DEF LoadsOK, LoadTypes, HandOK
<1>5. Unmade'
  <2>1. ASSUME NEW r \in Requests, r > made
        PROVE  /\ request'[r].count = 0 /\ ~request'[r].cancel /\ ~request'[r].load
               /\ request'[r].loader = "idle"
    <3>1. r \in Nat /\ \A c \in S : consumer[c].request # r
      <4>1. \A c \in S : consumer[c].request \in Nat /\ consumer[c].request <= made
        BY Bounds, HoldersFinite, TypeParts DEF AssetTypes, ConsumerRec
      <4> QED
        BY <1>3, <2>1, <4>1, Bounds
    <3>2. Held(S, r) = 0
      <4>1. S \cap Holders(r) = {}
        BY <3>1 DEF Holders
      <4> QED
        BY <4>1, HeldCounted
    <3>3. r \notin Freed(S)
      BY <3>2 DEF Freed
    <3> QED
      BY <1>2, <2>1, <3>2, <3>3 DEF LoadsOK, Unmade
  <2>2. ASSUME NEW r \in Freed(S) PROVE r <= made
    <3>1. r \in Requests /\ ~(Held(S, r) = 0)
      BY DEF Freed
    <3>2. S \cap Holders(r) # {}
      BY <3>1, HeldCounted
    <3> QED
      BY <3>2 DEF Holders
  <2>3. \A r \in Elements(pending') : r <= made
    BY <1>1, <2>2 DEF LoadsOK, Unmade
  <2> QED
    BY <2>1, <2>3 DEF LoadsOK, Unmade
<1>6. Taken'
  BY <1>1, <1>2 DEF LoadsOK, Taken, HandOK
<1>7. CancelledKeepsNothing'
  BY <1>2 DEF LoadsOK, CancelledKeepsNothing
<1>8. Reached'
  <2>1. ASSUME NEW r \in 1 .. made,
               request'[r].loader = (IF request'[r].cancel THEN "loading" ELSE "idle")
        PROVE  r \in Elements(pending') \/ (inHand # <<>> /\ inHand[1] = r)
    <3>1. r \in Requests
      BY <1>3, Bounds DEF Requests
    <3> QED
      BY <1>1, <1>2, <2>1, <3>1 DEF LoadsOK, Reached
  <2> QED
    BY <2>1 DEF Reached
<1>9. FlushComing'
  BY <1>1 DEF LoadsOK, FlushComing
<1> QED
  BY <1>4, <1>5, <1>6, <1>7, <1>8, <1>9 DEF LoadsOK

(* A consumer that holds no request takes one that others hold, or a new one. *)
Taking(c, r, base) ==
  /\ c \in present /\ consumer[c].request = None /\ r \in Requests
  /\ base \in [Requests -> RequestRec]
  /\ UpdateRequestHandlers({c}, r, base)
  /\ \/ r <= made /\ Holders(r) # {} /\ made' = made /\ base = request
     \/ r = made + 1 /\ made' = r /\ base = [request EXCEPT ![r].location = asset.location]

LEMMA RequestTaken ==
  ASSUME TypeOK, RequestsCounted, NEW c, NEW r, NEW base, Taking(c, r, base)
  PROVE  /\ request' \in [Requests -> RequestRec] /\ pending' \in Seq(Requests)
         /\ Elements(pending') = Elements(pending) \cup (IF ~request[r].load THEN {r} ELSE {})
         /\ flushScheduled' \in BOOLEAN /\ (flushScheduled => flushScheduled')
         /\ pending' # <<>> => pending # <<>> \/ flushScheduled'
         /\ \A q \in Requests :
              /\ request'[q].count = request[q].count + IF q = r THEN 1 ELSE 0
              /\ request'[q].cancel <=> request[q].cancel
              /\ request'[q].load <=> request[q].load \/ q = r
              /\ request'[q].loader = request[q].loader /\ request'[q].result = request[q].result
              /\ request'[q].location =
                   IF q = r /\ made' # made THEN asset.location ELSE request[q].location
<1>1. request \in [Requests -> RequestRec] /\ made \in Nat
  BY TypeParts DEF LoadTypes
<1>2. ASSUME NEW q \in Requests
      PROVE  /\ base[q].count = request[q].count /\ base[q].cancel = request[q].cancel
             /\ base[q].load = request[q].load
             /\ base[q].loader = request[q].loader /\ base[q].result = request[q].result
             /\ base[q].location =
                  IF q = r /\ made' # made THEN asset.location ELSE request[q].location
  BY <1>1 DEF Taking, RequestRec
<1>3. ASSUME NEW q \in Requests PROVE Held({c}, q) = 0
  <2>1. {c} \in SUBSET present /\ {c} \cap Holders(q) = {}
    BY Bounds DEF Taking, Holders
  <2> QED
    BY <2>1, HeldCounted
<1>4. Freed({c}) = {}
  BY <1>3 DEF Freed
<1>5. {c} \in SUBSET present /\ r \in Requests \cup {None} /\ r # None
  BY Bounds DEF Taking
<1>6. HandlersEffect({c}, r, base)
  <2>1. /\ base \in [Requests -> RequestRec] /\ UpdateRequestHandlers({c}, r, base)
        /\ \A q \in Requests : base[q].count = request[q].count
    BY <1>2 DEF Taking
  <2> QED
    BY <1>5, <2>1, HandlersUpdated
<1>7. ASSUME NEW q \in Requests
      PROVE  /\ request'[q].count = request[q].count + IF q = r THEN 1 ELSE 0
             /\ request'[q].cancel <=> request[q].cancel
             /\ request'[q].load <=> request[q].load \/ q = r
             /\ request'[q].loader = request[q].loader /\ request'[q].result = request[q].result
             /\ request'[q].location =
                  IF q = r /\ made' # made THEN asset.location ELSE request[q].location
  <2>1. request[q].count \in Nat /\ Held({c}, q) = 0 /\ q \notin Freed({c})
    BY <1>1, <1>3, <1>4 DEF RequestRec
  <2> QED
    BY <1>2, <1>6, <2>1 DEF HandlersEffect
<1> QED
  BY <1>4, <1>5, <1>6, <1>7 DEF HandlersEffect

LEMMA LoadsTaking ==
  ASSUME TypeOK, LoadsOK, RequestsCounted, NEW c, NEW r, NEW base, Taking(c, r, base),
         UNCHANGED <<inHand, pauseCount>>
  PROVE  LoadsOK'
<1>1. /\ request' \in [Requests -> RequestRec] /\ pending' \in Seq(Requests)
      /\ Elements(pending') = Elements(pending) \cup (IF ~request[r].load THEN {r} ELSE {})
      /\ flushScheduled' \in BOOLEAN /\ (flushScheduled => flushScheduled')
      /\ pending' # <<>> => pending # <<>> \/ flushScheduled'
  BY RequestTaken
<1>2. \A q \in Requests :
        /\ request'[q].count = request[q].count + IF q = r THEN 1 ELSE 0
        /\ request'[q].cancel <=> request[q].cancel
        /\ request'[q].load <=> request[q].load \/ q = r
        /\ request'[q].loader = request[q].loader /\ request'[q].result = request[q].result
  BY RequestTaken
<1>3. /\ made \in Nat /\ made <= MaxRequests /\ MaxRequests \in Nat /\ r \in Requests /\ r \in Nat
      /\ r <= MaxRequests
      /\ (r <= made /\ made' = made) \/ (r = made + 1 /\ made' = r)
  <2>1. made \in Nat /\ made <= MaxRequests /\ MaxRequests \in Nat
    BY Bounds DEF LoadsOK, Unmade
  <2>2. /\ r \in Requests
        /\ (r <= made /\ made' = made) \/ (r = made + 1 /\ made' = r)
    BY DEF Taking
  <2> QED
    BY <2>1, <2>2 DEF Requests
<1>4. LoadTypes' /\ HandOK'
  BY <1>1, <1>3 DEF LoadsOK, LoadTypes, HandOK
<1>5. Unmade'
  <2>1. ASSUME NEW q \in Requests, q > made'
        PROVE  /\ request'[q].count = 0 /\ ~request'[q].cancel /\ ~request'[q].load
               /\ request'[q].loader = "idle"
    <3>1. q > made /\ q # r
      BY <1>3, <2>1, Bounds
    <3> QED
      BY <1>2, <3>1 DEF LoadsOK, Unmade
  <2>2. \A q \in Elements(pending') : q <= made'
    <3>1. \A q \in Elements(pending) : q \in Nat /\ q <= made
      BY Bounds, ElementsTyped DEF LoadsOK, Unmade, LoadTypes
    <3> QED
      BY <1>1, <1>3, <3>1
  <2>3. inHand' # <<>> => inHand'[1] <= made'
    <3>1. inHand # <<>> => inHand[1] \in Requests
      BY DEF LoadsOK, HandOK
    <3> QED
      <4>1. made <= made' /\ made' \in Nat
        BY <1>3
      <4>2. CASE inHand # <<>>
        <5>1. inHand[1] \in Nat /\ inHand[1] <= made
          BY <3>1, <4>2, Bounds DEF LoadsOK, Unmade
        <5> QED
          BY <1>3, <4>1, <5>1
      <4> QED
        BY <4>2
  <2> QED
    BY <1>3, <2>1, <2>2, <2>3 DEF Unmade
<1>6. Taken'
  BY <1>1, <1>2 DEF LoadsOK, Taken, HandOK
<1>7. CancelledKeepsNothing'
  BY <1>2 DEF LoadsOK, CancelledKeepsNothing
<1>8. Reached'
  <2>1. ASSUME NEW q \in 1 .. made',
               request'[q].loader = (IF request'[q].cancel THEN "loading" ELSE "idle")
        PROVE  q \in Elements(pending') \/ (inHand # <<>> /\ inHand[1] = q)
    <3>1. q \in Requests
      BY <1>3, Bounds DEF Requests
    <3>2. CASE q \in 1 .. made
      BY <1>1, <1>2, <2>1, <3>1, <3>2 DEF LoadsOK, Reached
    <3>3. CASE q \notin 1 .. made
      <4>1. q = r /\ r > made
        BY <1>3, <3>3
      <4>2. ~request[r].load
        BY <1>3, <4>1 DEF LoadsOK, Unmade
      <4> QED
        BY <1>1, <4>1, <4>2
    <3> QED
      BY <3>2, <3>3
  <2> QED
    BY <2>1 DEF Reached
<1>9. FlushComing'
  BY <1>1 DEF LoadsOK, FlushComing
<1> QED
  BY <1>4, <1>5, <1>6, <1>7, <1>8, <1>9 DEF LoadsOK

(* The consumer that took request r, which may have been answered already. *)
Took(c, r) ==
  /\ consumer' \in [ConsumerIds -> ConsumerRec]
  /\ \A d \in ConsumerIds : d # c => consumer'[d] = consumer[d]
  /\ consumer'[c].request = r /\ consumer'[c].state \in {"loading", "loaded", "failed"}
  /\ consumer'[c].state = "loaded" => made' = made /\ consumer'[c].loaded = request[r].location

LEMMA AnsweredEntry ==
  ASSUME NEW e \in ConsumerRec, NEW result, NEW l \in Locations \cup {NoLocation}
  PROVE  /\ Answered(e, result, l) \in ConsumerRec
         /\ Answered(e, result, l).request = e.request
         /\ Answered(e, result, l).observed = e.observed
         /\ Answered(e, result, l).state = IF result = "asset" THEN "loaded" ELSE "failed"
         /\ Answered(e, result, l).loaded = IF result = "asset" THEN l ELSE NoLocation
<1> DEFINE state  == IF result = "asset" THEN "loaded" ELSE "failed"
           loaded == IF result = "asset" THEN l ELSE NoLocation
<1>1. state \in {"loaded", "failed"} /\ loaded \in Locations \cup {NoLocation}
  OBVIOUS
<1>2. Answered(e, result, l) = [e EXCEPT !.notified = FALSE, !.state = state, !.loaded = loaded]
  BY DEF Answered
<1> HIDE DEF state, loaded
<1>3. /\ Answered(e, result, l) \in ConsumerRec /\ Answered(e, result, l).request = e.request
      /\ Answered(e, result, l).observed = e.observed
      /\ Answered(e, result, l).state = state /\ Answered(e, result, l).loaded = loaded
  BY <1>1, <1>2 DEF ConsumerRec
<1> QED
  BY <1>3 DEF state, loaded

LEMMA TakingRequest ==
  ASSUME TypeOK, Holding, Unmade, RequestsCounted, NEW c, ShareRequest(c) \/ MakeRequest(c)
  PROVE  \E r, base : Taking(c, r, base) /\ Took(c, r)
<1>1. /\ c \in present /\ consumer[c].request = None /\ asset.state = "ready"
      /\ request \in [Requests -> RequestRec] /\ present \subseteq ConsumerIds
      /\ consumer \in [ConsumerIds -> ConsumerRec]
  <2>1. c \in present /\ consumer[c].state = "initial" /\ asset.state = "ready"
    BY UpdatedConsumer DEF ShareRequest, MakeRequest, Loads
  <2> QED
    BY <2>1, HoldersFinite, TypeParts DEF Holding, LoadTypes, AssetTypes
<1>2. CASE ShareRequest(c)
  <2> DEFINE entry(r) == [consumer[c] EXCEPT !.state = "loading", !.request = r]
             known(r) == request[r].result # "none"
  <2>1. PICK r \in {consumer[d].request : d \in present} \ {None} :
          /\ consumer' = [consumer EXCEPT ![c] =
               IF known(r) THEN Answered(entry(r), request[r].result, request[r].location)
                           ELSE entry(r)]
          /\ UpdateRequestHandlers({c}, r, request)
    BY <1>2 DEF ShareRequest
  <2>2. r \in Requests /\ Holders(r) # {} /\ r <= made
    BY <1>1, TypeParts DEF Holding, Holders, AssetTypes, ConsumerRec
  <2>3. made' = made
    BY <1>2 DEF ShareRequest
  <2>4. Taking(c, r, request)
    BY <1>1, <2>1, <2>2, <2>3 DEF Taking
  <2>5. /\ entry(r) \in ConsumerRec /\ entry(r).request = r /\ entry(r).state = "loading"
        /\ request[r].location \in Locations \cup {NoLocation}
    <3>1. consumer[c] \in ConsumerRec /\ r \in Requests \cup {None} /\ request[r] \in RequestRec
      BY <1>1, <2>2
    <3>2. request[r].location \in Locations \cup {NoLocation}
      BY <3>1 DEF RequestRec
    <3>3. entry(r) \in ConsumerRec
      BY <3>1 DEF ConsumerRec
    <3>4. entry(r).request = r /\ entry(r).state = "loading"
      BY <3>1 DEF ConsumerRec
    <3> QED
      BY <3>2, <3>3, <3>4
  <2> HIDE DEF entry, known
  <2> DEFINE answered == Answered(entry(r), request[r].result, request[r].location)
  <2>6. /\ answered \in ConsumerRec /\ answered.request = r
        /\ answered.state \in {"loaded", "failed"}
        /\ answered.state = "loaded" => answered.loaded = request[r].location
    BY <2>5, AnsweredEntry
  <2> HIDE DEF answered
  <2>7. consumer' = [consumer EXCEPT ![c] = IF known(r) THEN answered ELSE entry(r)]
    BY <2>1 DEF answered
  <2>8. Took(c, r)
    <3>1. CASE known(r)
      <4>1. consumer' = [consumer EXCEPT ![c] = answered]
        BY <2>7, <3>1
      <4> QED
        BY <1>1, <2>3, <2>6, <4>1 DEF Took
    <3>2. CASE ~known(r)
      <4>1. consumer' = [consumer EXCEPT ![c] = entry(r)]
        BY <2>7, <3>2
      <4> QED
        BY <1>1, <2>3, <2>5, <4>1 DEF Took
    <3> QED
      BY <3>1, <3>2
  <2> QED
    BY <2>4, <2>8
<1>3. CASE MakeRequest(c)
  <2> DEFINE base == [request EXCEPT ![made + 1].location = asset.location]
  <2>1. /\ made + 1 \in Requests /\ made' = made + 1 /\ UpdateRequestHandlers({c}, made + 1, base)
        /\ consumer' = [consumer EXCEPT ![c].state = "loading", ![c].request = made + 1]
    BY <1>3 DEF MakeRequest
  <2>2. base \in [Requests -> RequestRec]
    BY <1>1, <2>1, TypeParts DEF AssetTypes, AssetRec, RequestRec
  <2>3. Taking(c, made + 1, base)
    BY <1>1, <2>1, <2>2 DEF Taking
  <2>4. Took(c, made + 1)
    BY <1>1, <2>1 DEF Took, ConsumerRec
  <2> QED
    BY <2>3, <2>4
<1> QED
  BY <1>2, <1>3

(* What a loader does when a flush calls it. *)
LoaderCalled(loader, call) ==
  IF call = "load" THEN IF loader = "idle" THEN "loading" ELSE loader
  ELSE IF loader = "loading" THEN "cancelled" ELSE loader

LEMMA LoadsStep ==
  ASSUME TypeOK, LoadsOK, RequestsCounted, Holding, [Next]_vars
  PROVE  LoadsOK'
<1> USE DEF quietVars, restVars, updateVars, workVars, assetVars
<1>0. /\ request \in [Requests -> RequestRec] /\ pending \in Seq(Requests) /\ made \in Nat
      /\ flushScheduled \in BOOLEAN /\ pauseCount \in Nat
      /\ \A c \in present : consumer[c].request <= made
      /\ \A r \in 1 .. made : r \in Requests
  <2>1. made \in Nat /\ made <= MaxRequests /\ MaxRequests \in Nat
    BY Bounds DEF LoadsOK, Unmade
  <2>2. \A r \in 1 .. made : r \in Requests
    BY <2>1 DEF Requests
  <2> QED
    BY <2>1, <2>2, HoldersFinite, TypeParts DEF LoadTypes, MainTypes, Holding
<1>1. ASSUME UNCHANGED <<request, made, pending, inHand>>, flushScheduled' \in BOOLEAN, FlushComing'
      PROVE  LoadsOK'
  BY <1>1 DEF LoadsOK, LoadTypes, HandOK, Unmade, Taken, CancelledKeepsNothing, Reached
<1>2. ASSUME UNCHANGED <<request, made, pending, inHand, flushScheduled, pauseCount>>
      PROVE  LoadsOK'
  <2>1. FlushComing'
    BY <1>2 DEF LoadsOK, FlushComing
  <2> QED
    BY <1>0, <1>1, <1>2, <2>1
<1>3. CASE \/ RunPostedUpdates \/ FinishUpdates \/ UpdateNothing \/ RemoveManagedAsset
           \/ ResolveAssetLocation \/ CallObserver \/ ObserverReturns \/ LocationResolved
           \/ GetAsset \/ FlushUpdates \/ RemoteResourcesLoaded \/ UNCHANGED vars
           \/ \E c \in ConsumerIds : FailConsumer(c) \/ NotifyAssetConsumer(c)
  BY <1>2, <1>3 DEF RunPostedUpdates, FinishUpdates, UpdateNothing, RemoveManagedAsset,
       ResolveAssetLocation, CallObserver, ObserverReturns, LocationResolved, GetAsset, FlushUpdates,
       RemoteResourcesLoaded, vars, FailConsumer, NotifyAssetConsumer, loadVars
<1>4. ASSUME NEW onMain \in BOOLEAN,
             \/ ObservableDestroyed(onMain) \/ AddAssetLoadObserver(onMain)
             \/ RemoveAssetLoadObserver(onMain) \/ RetryFailedAssets(onMain)
      PROVE  LoadsOK'
  BY <1>2, <1>4 DEF ObservableDestroyed, AddAssetLoadObserver, RemoveAssetLoadObserver,
                    RetryFailedAssets, loadVars
<1>5. ASSUME NEW onMain \in BOOLEAN, BeginPauseUpdates(onMain) PROVE LoadsOK'
  <2>1. FlushComing'
    BY <1>0, <1>5 DEF BeginPauseUpdates, FlushComing
  <2> QED
    BY <1>0, <1>1, <1>5, <2>1 DEF BeginPauseUpdates, loadVars
<1>6. ASSUME NEW onMain, NEW below, Unpause(onMain, below) PROVE LoadsOK'
  <2>1. /\ UNCHANGED <<request, made, pending, inHand>> /\ pauseCount' = pauseCount - 1
        /\ ScheduleFlush(worker, pauseCount = 1 /\ pending # <<>>)
    BY <1>6 DEF Unpause
  <2>2. /\ flushScheduled' \in BOOLEAN
        /\ pauseCount = 1 /\ pending # <<>> => flushScheduled'
    <3>1. CASE pauseCount = 1 /\ pending # <<>>
      <4>1. ScheduleFlush(worker, TRUE)
        BY <2>1, <3>1, Zenon
      <4> QED
        BY <1>0, <4>1 DEF ScheduleFlush
    <3>2. CASE ~(pauseCount = 1 /\ pending # <<>>)
      <4>1. ScheduleFlush(worker, FALSE)
        BY <2>1, <3>2, Zenon
      <4> QED
        BY <1>0, <3>2, <4>1 DEF ScheduleFlush
    <3> QED
      BY <3>1, <3>2
  <2>3. FlushComing'
    BY <1>0, <2>1, <2>2 DEF FlushComing
  <2> QED
    BY <1>1, <2>1, <2>2, <2>3
<1>7. CASE ResumeEndPause \/ \E onMain \in BOOLEAN : EndPauseUpdates(onMain)
  BY <1>2, <1>6, <1>7 DEF ResumeEndPause, EndPauseUpdates, FlushBeforeUnpause, loadVars
<1>8. ASSUME NEW onMain \in BOOLEAN, SetResolvedAssetLocation(onMain) PROVE LoadsOK'
  <2>1. CASE asset.state = "ready"
    <3>1. present \in SUBSET present /\ UpdateRequestHandlers(present, None, request)
      BY <1>8, <2>1 DEF SetResolvedAssetLocation
    <3>2. UNCHANGED <<made, inHand, pauseCount>>
      BY <1>8 DEF SetResolvedAssetLocation
    <3> QED
      BY <1>0, <3>1, <3>2, LoadsLetGo
  <2>2. CASE asset.state # "ready"
    BY <1>2, <1>8, <2>2 DEF SetResolvedAssetLocation
  <2> QED
    BY <2>1, <2>2
<1>9. ASSUME NEW c \in ConsumerIds, RemoveAssetConsumer(c) PROVE LoadsOK'
  <2>1. {c} \in SUBSET present /\ UpdateRequestHandlers({c}, None, request)
    BY <1>9 DEF RemoveAssetConsumer, Gone
  <2>2. UNCHANGED <<made, inHand, pauseCount>>
    BY <1>9 DEF RemoveAssetConsumer
  <2> QED
    BY <1>0, <2>1, <2>2, LoadsLetGo
<1>10. ASSUME NEW c \in ConsumerIds, ShareRequest(c) \/ MakeRequest(c) PROVE LoadsOK'
  <2>1. \E r, base : Taking(c, r, base)
    BY <1>10, TakingRequest DEF LoadsOK
  <2>2. UNCHANGED <<inHand, pauseCount>>
    BY <1>10 DEF ShareRequest, MakeRequest, Loads
  <2> QED
    BY <2>1, <2>2, LoadsTaking
<1>11. CASE FlushTake
  <2> DEFINE r == Head(pending)
  <2>1. /\ inHand = <<>> /\ pending # <<>> /\ pending' = Tail(pending)
        /\ UNCHANGED <<made, flushScheduled, pauseCount>> /\ pauseCount = 0
        /\ inHand' = <<r, IF request[r].cancel THEN "cancel" ELSE "load">>
        /\ request' = [request EXCEPT ![r].result = IF request[r].cancel THEN "none" ELSE @]
    BY <1>11 DEF FlushTake
  <2>2. /\ r \in Requests /\ pending' \in Seq(Requests)
        /\ Elements(pending) = Elements(pending') \cup {r}
    BY <1>0, <2>1, TailElements
  <2> HIDE DEF r
  <2>3. /\ request' \in [Requests -> RequestRec]
        /\ \A q \in Requests :
             /\ request'[q].count = request[q].count /\ request'[q].cancel = request[q].cancel
             /\ request'[q].load = request[q].load /\ request'[q].loader = request[q].loader
             /\ request'[q].result = IF q = r /\ request[r].cancel THEN "none" ELSE request[q].result
    <3> DEFINE next == IF request[r].cancel THEN "none" ELSE request[r].result
    <3>1. request' = [request EXCEPT ![r].result = next]
      BY <1>0, <2>1, <2>2
    <3>2. next \in {"none", "asset", "error"}
      BY <1>0, <2>2 DEF RequestRec
    <3>3. \A q \in Requests :
            request'[q].result = IF q = r THEN next ELSE request[q].result
      BY <1>0, <2>2, <3>1 DEF RequestRec
    <3>4. \A q \in Requests :
             /\ request'[q].count = request[q].count /\ request'[q].cancel = request[q].cancel
             /\ request'[q].load = request[q].load /\ request'[q].loader = request[q].loader
      BY <1>0, <2>2, <3>1 DEF RequestRec
    <3>5. request' \in [Requests -> RequestRec]
      <4> HIDE DEF next
      <4> DEFINE entry == [request[r] EXCEPT !.result = next]
      <4>1. request[r] \in RequestRec /\ request' = [request EXCEPT ![r] = entry]
        BY <1>0, <2>2, <3>1
      <4>2. entry \in RequestRec
        BY <3>2, <4>1 DEF RequestRec
      <4> HIDE DEF entry
      <4> QED
        BY <1>0, <4>1, <4>2
    <3> QED
      BY <3>3, <3>4, <3>5
  <2>4. /\ inHand' \in Requests \X {"load", "cancel"} /\ inHand' # <<>> /\ inHand'[1] = r
        /\ inHand'[2] = IF request[r].cancel THEN "cancel" ELSE "load"
    BY <2>1, <2>2
  <2>5. LoadTypes' /\ HandOK'
    BY <1>0, <2>1, <2>2, <2>3, <2>4 DEF LoadTypes, HandOK
  <2>6. Unmade' /\ CancelledKeepsNothing'
    BY <2>1, <2>2, <2>3, <2>4 DEF LoadsOK, Unmade, CancelledKeepsNothing
  <2>7. Taken'
    BY <2>2, <2>3, <2>4 DEF LoadsOK, Taken
  <2>8. Reached'
    BY <1>0, <2>1, <2>2, <2>3, <2>4 DEF LoadsOK, Reached
  <2>9. FlushComing'
    BY <2>1 DEF LoadsOK, FlushComing
  <2> QED
    BY <2>5, <2>6, <2>7, <2>8, <2>9 DEF LoadsOK
<1>12. CASE FlushCall
  <2> DEFINE r == inHand[1]
             next == LoaderCalled(request[r].loader, inHand[2])
  <2>1. /\ inHand # <<>> /\ inHand' = <<>>
        /\ UNCHANGED <<made, pending, flushScheduled, pauseCount>>
    BY <1>12 DEF FlushCall
  <2>2. r \in Requests /\ inHand[2] \in {"load", "cancel"}
    BY <2>1 DEF LoadsOK, HandOK
  <2>3. /\ request' \in [Requests -> RequestRec]
        /\ \A q \in Requests :
             /\ request'[q].count = request[q].count /\ request'[q].cancel = request[q].cancel
             /\ request'[q].load = request[q].load /\ request'[q].result = request[q].result
             /\ request'[q].loader = IF q = r THEN next ELSE request[q].loader
    <3>1. request' = [request EXCEPT ![r].loader = next]
      BY <1>0, <1>12, <2>2 DEF FlushCall, LoaderCalled
    <3>2. request[r] \in RequestRec /\ next \in {"idle", "loading", "cancelled"}
      BY <1>0, <2>2 DEF RequestRec, LoaderCalled
    <3> HIDE DEF next, r
    <3> DEFINE entry == [request[r] EXCEPT !.loader = next]
    <3>3. request' = [request EXCEPT ![r] = entry]
      BY <1>0, <2>2, <3>1
    <3>4. /\ entry \in RequestRec /\ entry.loader = next
          /\ entry.count = request[r].count /\ entry.cancel = request[r].cancel
          /\ entry.load = request[r].load /\ entry.result = request[r].result
      BY <3>2 DEF RequestRec
    <3> HIDE DEF entry
    <3> QED
      BY <1>0, <2>2, <3>3, <3>4
  <2>4. LoadTypes' /\ HandOK'
    BY <1>0, <2>1, <2>3 DEF LoadTypes, HandOK
  <2>5. r <= made
    BY <2>1 DEF LoadsOK, Unmade
  <2>6. Unmade'
    <3>1. ASSUME NEW q \in Requests, q > made
          PROVE  /\ request'[q].count = 0 /\ ~request'[q].cancel /\ ~request'[q].load
                 /\ request'[q].loader = "idle"
      <4>1. q # r
        BY <1>0, <2>5, <3>1, Bounds
      <4> QED
        BY <2>3, <3>1, <4>1 DEF LoadsOK, Unmade
    <3> QED
      BY <2>1, <3>1 DEF LoadsOK, Unmade
  <2>7. Taken' /\ CancelledKeepsNothing'
    <3>1. ASSUME NEW q \in Requests, request'[q].loader = "cancelled"
          PROVE  request'[q].cancel /\ request'[q].result = "none"
      <4>1. CASE request[q].loader = "cancelled"
        <5>1. request[q].cancel /\ request[q].result = "none"
          BY <4>1 DEF LoadsOK, Taken, CancelledKeepsNothing
        <5> QED
          BY <2>3, <5>1
      <4>2. CASE request[q].loader # "cancelled"
        <5>1. q = r /\ inHand[2] = "cancel"
          BY <2>2, <2>3, <3>1, <4>2 DEF LoaderCalled
        <5> QED
          BY <2>1, <2>3, <5>1 DEF LoadsOK, Taken
      <4> QED
        BY <4>1, <4>2
    <3> QED
      BY <2>1, <3>1 DEF Taken, CancelledKeepsNothing
  <2>8. Reached'
    <3>1. ASSUME NEW q \in 1 .. made,
                 request'[q].loader = (IF request'[q].cancel THEN "loading" ELSE "idle")
          PROVE  q \in Elements(pending)
      <4>1. CASE q # r
        BY <1>0, <2>3, <3>1, <4>1 DEF LoadsOK, Reached
      <4>2. CASE q = r /\ inHand[2] = "load"
        BY <1>0, <2>1, <2>3, <3>1, <4>2 DEF LoadsOK, Taken, LoaderCalled
      <4>3. CASE q = r /\ inHand[2] = "cancel"
        BY <1>0, <2>1, <2>3, <3>1, <4>3 DEF LoadsOK, Taken, LoaderCalled
      <4> QED
        BY <2>2, <4>1, <4>2, <4>3
    <3> QED
      BY <2>1, <3>1 DEF Reached
  <2>9. FlushComing'
    BY <2>1 DEF LoadsOK, FlushComing
  <2> QED
    BY <2>4, <2>6, <2>7, <2>8, <2>9 DEF LoadsOK
<1>13. CASE FlushDone
  <2>1. /\ UNCHANGED <<request, made, pending, inHand, pauseCount>> /\ flushScheduled' = FALSE
        /\ pending = <<>> \/ pauseCount > 0
    BY <1>13 DEF FlushDone
  <2>2. FlushComing'
    BY <1>0, <2>1 DEF FlushComing
  <2> QED
    BY <1>1, <2>1, <2>2
<1>14. ASSUME NEW onMain \in BOOLEAN, NEW r \in Requests, OnLoad(onMain, r) PROVE LoadsOK'
  <2>1. /\ UNCHANGED <<made, pending, inHand, flushScheduled, pauseCount>> /\ ~request[r].cancel
    BY <1>14 DEF OnLoad, Expected
  <2>2. PICK result \in {"asset", "error"} :
          request' = [request EXCEPT ![r].result = result, ![r].answers = @ + 1]
    BY <1>14 DEF OnLoad
  <2>3. /\ request' \in [Requests -> RequestRec]
        /\ \A q \in Requests :
             /\ request'[q].count = request[q].count /\ request'[q].cancel = request[q].cancel
             /\ request'[q].load = request[q].load /\ request'[q].loader = request[q].loader
             /\ request'[q].result = IF q = r THEN result ELSE request[q].result
    <3> DEFINE next == [request[r] EXCEPT !.result = result, !.answers = request[r].answers + 1]
    <3>1. request' = [request EXCEPT ![r] = next]
      BY <1>0, <2>2
    <3>2. request[r] \in RequestRec /\ request[r].answers + 1 \in Nat /\ result \in {"asset", "error"}
      BY <1>0 DEF RequestRec
    <3>3. /\ next \in RequestRec /\ next.result = result
          /\ next.count = request[r].count /\ next.cancel = request[r].cancel
          /\ next.load = request[r].load /\ next.loader = request[r].loader
      BY <3>2 DEF RequestRec
    <3> HIDE DEF next
    <3> QED
      BY <1>0, <3>1, <3>3
  <2>4. LoadTypes' /\ HandOK'
    BY <1>0, <2>1, <2>3 DEF LoadsOK, LoadTypes, HandOK
  <2>5. Unmade'
    BY <2>1, <2>3 DEF LoadsOK, Unmade
  <2>6. Taken' /\ CancelledKeepsNothing'
    BY <2>1, <2>3 DEF LoadsOK, Taken, HandOK, CancelledKeepsNothing
  <2>7. Reached'
    BY <1>0, <2>1, <2>3 DEF LoadsOK, Reached
  <2>8. FlushComing'
    BY <2>1 DEF LoadsOK, FlushComing
  <2> QED
    BY <2>4, <2>5, <2>6, <2>7, <2>8 DEF LoadsOK
<1> QED
  BY <1>3, <1>4, <1>5, <1>7, <1>8, <1>9, <1>10, <1>11, <1>12, <1>13, <1>14
     DEF Next, MainThread, WorkerThread, Others

-----------------------------------------------------------------------------
(* The consumers, and the requests that count them. *)
ConsumersOK == AssetTypes /\ Holding /\ FreshLoads /\ RequestsCounted

LEMMA CountsKept ==
  ASSUME RequestsCounted, made' = made,
         \A q \in Requests : /\ request'[q].count = request[q].count
                             /\ request'[q].cancel = request[q].cancel,
         \A q \in Requests : {c \in present' : consumer'[c].request = q} = Holders(q)
  PROVE  RequestsCounted'
  BY DEF RequestsCounted, Holders

LEMMA CountsLetGo ==
  ASSUME TypeOK, Unmade, RequestsCounted, \A c \in present : consumer[c].request <= made,
         NEW S \in SUBSET present, UpdateRequestHandlers(S, None, request), made' = made,
         \A q \in Requests : {c \in present' : consumer'[c].request = q} = Holders(q) \ S
  PROVE  RequestsCounted' /\ \A q \in Requests : request'[q].location = request[q].location
<1>1. HandlersEffect(S, None, request) /\ request \in [Requests -> RequestRec]
  <2>1. request \in [Requests -> RequestRec] /\ None \in Requests \cup {None}
    BY TypeParts DEF LoadTypes
  <2> QED
    BY <2>1, HandlersUpdated
<1>2. ASSUME NEW q \in Requests
      PROVE  /\ request'[q].count = Cardinality(Holders(q) \ S)
             /\ q <= made => (request'[q].cancel <=> request'[q].count = 0)
  <2>1. /\ request[q].count \in Nat /\ Held(S, q) \in Nat /\ Held(S, q) <= request[q].count
        /\ Cardinality(Holders(q) \ S) = request[q].count - Held(S, q) /\ q # None
    BY <1>1, HeldCounted, Bounds DEF RequestRec
  <2>2. /\ request'[q].count = request[q].count - Held(S, q)
        /\ request'[q].cancel <=> request[q].cancel \/ q \in Freed(S)
    BY <1>1, <2>1 DEF HandlersEffect
  <2>3. q \in Freed(S) <=> Held(S, q) > 0 /\ request[q].count = Held(S, q) /\ ~request[q].cancel
    BY DEF Freed
  <2>4. q <= made => (request[q].cancel <=> request[q].count = 0)
    BY DEF RequestsCounted
  <2> QED
    BY <2>1, <2>2, <2>3, <2>4
<1>3. \A q \in Requests : request'[q].location = request[q].location
  BY <1>1 DEF HandlersEffect
<1> QED
  BY <1>2, <1>3 DEF RequestsCounted

LEMMA CountsTaking ==
  ASSUME TypeOK, Unmade, RequestsCounted, NEW c, NEW r, NEW base, Taking(c, r, base),
         \A q \in Requests : {d \in present' : consumer'[d].request = q}
                               = IF q = r THEN Holders(q) \cup {c} ELSE Holders(q)
  PROVE  RequestsCounted'
<1>1. /\ c \in present /\ consumer[c].request = None /\ r \in Requests /\ made \in Nat
      /\ (r <= made /\ Holders(r) # {} /\ made' = made) \/ (r = made + 1 /\ made' = r)
  BY DEF Taking, Unmade
<1>2. ASSUME NEW q \in Requests
      PROVE  /\ request'[q].count = Cardinality({d \in present' : consumer'[d].request = q})
             /\ q <= made' => (request'[q].cancel <=> request'[q].count = 0)
  <2>0. {d \in present' : consumer'[d].request = q}
          = IF q = r THEN Holders(q) \cup {c} ELSE Holders(q)
    OBVIOUS
  <2>1. /\ request'[q].count = request[q].count + IF q = r THEN 1 ELSE 0
        /\ request'[q].cancel <=> request[q].cancel
    BY RequestTaken
  <2>2. /\ IsFiniteSet(Holders(q)) /\ request[q].count = Cardinality(Holders(q))
        /\ request[q].count \in Nat /\ q \in Nat
    <3>1. IsFiniteSet(Holders(q)) /\ Cardinality(Holders(q)) \in Nat
      BY HoldersFinite
    <3>2. request[q].count = Cardinality(Holders(q))
      BY DEF RequestsCounted, Holders
    <3> QED
      BY <3>1, <3>2, Bounds
  <2>3. q <= made => (request[q].cancel <=> request[q].count = 0)
    BY DEF RequestsCounted
  <2>4. CASE q # r
    <3>1. q <= made' => q <= made
      BY <1>1, <2>2, <2>4
    <3>2. {d \in present' : consumer'[d].request = q} = Holders(q)
      BY <2>0, <2>4
    <3>3. request'[q].count = request[q].count
      BY <2>1, <2>2, <2>4
    <3> QED
      BY <2>1, <2>2, <2>3, <3>1, <3>2, <3>3
  <2>5. CASE q = r
    <3>1. c \notin Holders(q)
      BY <1>1, Bounds DEF Holders
    <3>2. Cardinality(Holders(q) \cup {c}) = Cardinality(Holders(q)) + 1
      BY <2>2, <3>1, FS_AddElement
    <3>3. ~request[q].cancel
      <4>1. CASE r <= made /\ Holders(r) # {}
        BY <2>2, <2>3, <2>5, <4>1, FS_EmptySet
      <4>2. CASE r = made + 1
        BY <1>1, <2>5, <4>2 DEF Unmade
      <4> QED
        BY <1>1, <4>1, <4>2
    <3>4. {d \in present' : consumer'[d].request = q} = Holders(q) \cup {c}
      BY <2>0, <2>5
    <3>5. request'[q].count = request[q].count + 1
      BY <2>1, <2>5
    <3>6. request'[q].count = Cardinality({d \in present' : consumer'[d].request = q})
      BY <2>2, <3>2, <3>4, <3>5
    <3>7. request'[q].count # 0
      BY <2>2, <3>5
    <3> QED
      BY <2>1, <3>3, <3>6, <3>7, <2>5
  <2> QED
    BY <2>4, <2>5
<1> QED
  BY <1>2 DEF RequestsCounted

(* Each consumer for itself. *)
ConsumerOK(c) ==
  /\ consumer[c].request <= made
  /\ c \in present =>
       /\ consumer[c].request # None =>
            asset.state = "ready" /\ request[consumer[c].request].location = asset.location
       /\ consumer[c].state = "loaded" =>
            asset.state = "ready" /\ consumer[c].loaded = asset.location
       /\ consumer[c].state = "initial" => consumer[c].request = None
       /\ consumer[c].state = "loading" => consumer[c].request # None
  /\ c > joined => consumer[c].state = "initial" /\ consumer[c].request = None

LEMMA EachConsumer ==
  ASSUME TypeOK, ConsumersOK
  PROVE  \A c \in ConsumerIds : ConsumerOK(c)
  BY DEF ConsumersOK, Holding, FreshLoads, ConsumerOK

LEMMA EachConsumerNext ==
  ASSUME AssetTypes', \A c \in ConsumerIds : ConsumerOK(c)', RequestsCounted'
  PROVE  ConsumersOK'
<1>1. present' \subseteq ConsumerIds
  BY Bounds DEF AssetTypes, ConsumerIds
<1> QED
  BY <1>1 DEF ConsumersOK, Holding, FreshLoads, ConsumerOK

(* Nobody holds a request of an asset whose location is not known. *)
LEMMA NobodyHolds ==
  ASSUME TypeOK, ConsumersOK, asset.state # "ready", NEW c \in present
  PROVE  /\ c \in ConsumerIds /\ consumer[c].request = None
         /\ consumer[c].state \notin {"loading", "loaded"}
  BY HoldersFinite DEF ConsumersOK, Holding, FreshLoads

SameState(c) == consumer'[c].state = consumer[c].state /\ consumer'[c].loaded = consumer[c].loaded

LEMMA ConsumersStep ==
  ASSUME TypeOK, Unmade, AnswersAwaited, ConsumersOK, [Next]_vars
  PROVE  ConsumersOK'
<1> USE DEF assetVars
<1>0. /\ kind \in {"url", "local", "remote"} /\ removeUnused \in BOOLEAN
      /\ asset \in AssetRec /\ present \subseteq 1 .. joined /\ present \subseteq ConsumerIds
      /\ joined \in 0 .. MaxConsumers /\ MaxConsumers \in Nat /\ ConsumerIds = 1 .. MaxConsumers
      /\ consumer \in [ConsumerIds -> ConsumerRec] /\ request \in [Requests -> RequestRec]
      /\ made \in Nat /\ RequestsCounted
      /\ Found \in Locations \cup {NoLocation} /\ None \in Nat
  BY HoldersFinite, TypeParts, Bounds, AssetsAssumption
     DEF ConsumersOK, AssetTypes, LoadTypes, ConsumerIds
<1>each. \A d \in ConsumerIds : ConsumerOK(d)
  BY EachConsumer
<1>types. /\ \A d \in ConsumerIds :
               /\ consumer[d].request \in Requests \cup {None}
               /\ consumer[d].loaded \in Locations \cup {NoLocation}
          /\ \A q \in Requests : request[q].location \in Locations \cup {NoLocation}
  BY <1>0 DEF ConsumerRec, RequestRec
<1>1. ASSUME asset' \in AssetRec, asset'.state = asset.state, asset'.location = asset.location,
             UNCHANGED <<kind, removeUnused, present, consumer, joined, made>>,
             \A q \in Requests :
               /\ request'[q].count = request[q].count /\ request'[q].cancel = request[q].cancel
               /\ request'[q].location = request[q].location
      PROVE  ConsumersOK'
  <2>1. AssetTypes'
    BY <1>0, <1>1 DEF AssetTypes
  <2>2. ASSUME NEW d \in ConsumerIds PROVE ConsumerOK(d)'
    BY <1>1, <1>each, <1>types DEF ConsumerOK
  <2>3. \A q \in Requests : {d \in present' : consumer'[d].request = q} = Holders(q)
    BY <1>1 DEF Holders
  <2>4. RequestsCounted'
    BY <1>0, <1>1, <2>3, CountsKept
  <2> QED
    BY <2>1, <2>2, <2>4, EachConsumerNext
<1>2. ASSUME UNCHANGED <<assetVars, made, request>> PROVE ConsumersOK'
  BY <1>0, <1>1, <1>2
<1>3. CASE \/ RunPostedUpdates \/ FinishUpdates \/ UpdateNothing \/ ResumeEndPause
           \/ CallObserver \/ ObserverReturns \/ FlushDone \/ FlushUpdates
           \/ RemoteResourcesLoaded \/ UNCHANGED vars
           \/ \E onMain \in BOOLEAN : BeginPauseUpdates(onMain) \/ EndPauseUpdates(onMain)
  BY <1>2, <1>3 DEF RunPostedUpdates, FinishUpdates, UpdateNothing, ResumeEndPause, Unpause,
       CallObserver, ObserverReturns, FlushDone, FlushUpdates, RemoteResourcesLoaded, vars, loadVars,
       BeginPauseUpdates, EndPauseUpdates, FlushBeforeUnpause
<1>4. CASE GetAsset \/ \E onMain \in BOOLEAN : ObservableDestroyed(onMain)
  <2>1. /\ asset' \in AssetRec /\ asset'.state = asset.state /\ asset'.location = asset.location
        /\ UNCHANGED <<kind, removeUnused, present, consumer, joined, made, request>>
    BY <1>0, <1>4 DEF GetAsset, ObservableDestroyed, AssetRec, loadVars
  <2> QED
    BY <1>1, <2>1
<1>5. CASE FlushTake \/ FlushCall
  <2>1. UNCHANGED <<assetVars, made>>
    BY <1>5 DEF FlushTake, FlushCall
  <2>2. ASSUME NEW q \in Requests
        PROVE  /\ request'[q].count = request[q].count /\ request'[q].cancel = request[q].cancel
               /\ request'[q].location = request[q].location
    <3>1. CASE FlushTake
      <4> DEFINE r    == Head(pending)
                 next == IF request[r].cancel THEN "none" ELSE request[r].result
      <4>1. r \in Requests
        BY <3>1, TypeParts DEF FlushTake, LoadTypes
      <4>2. request' = [request EXCEPT ![r].result = next]
        BY <1>0, <3>1, <4>1 DEF FlushTake
      <4> HIDE DEF r, next
      <4> QED
        BY <1>0, <4>1, <4>2 DEF RequestRec
    <3>2. CASE FlushCall
      <4> DEFINE r    == inHand[1]
                 next == LoaderCalled(request[r].loader, inHand[2])
      <4>1. r \in Requests
        BY <3>2, TypeParts DEF FlushCall, WorkTypes
      <4>2. request' = [request EXCEPT ![r].loader = next]
        BY <1>0, <3>2, <4>1 DEF FlushCall, LoaderCalled
      <4> HIDE DEF r, next
      <4> QED
        BY <1>0, <4>1, <4>2 DEF RequestRec
    <3> QED
      BY <1>5, <3>1, <3>2
  <2> QED
    BY <1>0, <1>1, <2>1, <2>2
(* The consumers change, and hold what they held. *)
<1>6. ASSUME AssetTypes', \A d \in ConsumerIds : ConsumerOK(d)',
             made' = made,
             \A q \in Requests : /\ request'[q].count = request[q].count
                                 /\ request'[q].cancel = request[q].cancel,
             \A d \in ConsumerIds : consumer'[d].request = consumer[d].request,
             \A d \in ConsumerIds : d \in present' /\ d \notin present => consumer[d].request = None,
             \A d \in present : d \notin present' => consumer[d].request = None
      PROVE  ConsumersOK'
  <2>1. present' \subseteq ConsumerIds
    BY <1>0, <1>6 DEF AssetTypes, ConsumerIds
  <2>2. ASSUME NEW q \in Requests
        PROVE  {d \in present' : consumer'[d].request = q} = Holders(q)
    <3>1. q # None
      BY Bounds
    <3> QED
      BY <1>0, <1>6, <2>1, <3>1 DEF Holders
  <2>3. RequestsCounted'
    BY <1>0, <1>6, <2>2, CountsKept
  <2> QED
    BY <1>6, <2>3, EachConsumerNext
<1>7. ASSUME NEW onMain \in BOOLEAN, AddAssetLoadObserver(onMain) PROVE ConsumersOK'
  <2> DEFINE n == joined + 1
  <2>1. /\ joined < MaxConsumers /\ joined' = n /\ present' = present \cup {n}
        /\ consumer' = [consumer EXCEPT ![n].observed = TRUE]
        /\ asset' = [asset EXCEPT !.state = IF asset.state = "failedRetryable" THEN "initial" ELSE asset.state]
        /\ UNCHANGED <<kind, removeUnused, made, request>>
    BY <1>7, <1>0 DEF AddAssetLoadObserver, loadVars, AssetRec
  <2>2. /\ n \in ConsumerIds /\ n > joined /\ n \notin present
        /\ consumer[n].state = "initial" /\ consumer[n].request = None
    BY <1>0, <1>each, <2>1 DEF ConsumerOK
  <2>3. /\ consumer' \in [ConsumerIds -> ConsumerRec]
        /\ \A d \in ConsumerIds : /\ consumer'[d].request = consumer[d].request
                                   /\ consumer'[d].state = consumer[d].state
                                   /\ consumer'[d].loaded = consumer[d].loaded
    <3> DEFINE entry == [consumer[n] EXCEPT !.observed = TRUE]
    <3>1. consumer[n] \in ConsumerRec /\ consumer' = [consumer EXCEPT ![n] = entry]
      BY <1>0, <2>1, <2>2
    <3>2. /\ entry \in ConsumerRec /\ entry.request = consumer[n].request
          /\ entry.state = consumer[n].state /\ entry.loaded = consumer[n].loaded
      BY <3>1 DEF ConsumerRec
    <3> HIDE DEF entry
    <3> QED
      BY <1>0, <2>2, <3>1, <3>2
  <2>4. /\ asset' \in AssetRec /\ asset'.location = asset.location
        /\ asset.state = "ready" => asset'.state = "ready"
    BY <1>0, <2>1 DEF AssetRec
  <2>5. joined' \in 0 .. MaxConsumers /\ present' \subseteq 1 .. joined'
    BY <1>0, <2>1
  <2>6. AssetTypes'
    BY <1>0, <2>1, <2>3, <2>4, <2>5 DEF AssetTypes
  <2> HIDE DEF n
  <2>7. ASSUME NEW d \in ConsumerIds PROVE ConsumerOK(d)'
    <3>1. d > joined' => d > joined
      BY <1>0, <2>1 DEF n
    <3> QED
      BY <1>each, <1>types, <2>1, <2>2, <2>3, <2>4, <3>1 DEF ConsumerOK
  <2> QED
    BY <1>6, <2>1, <2>2, <2>3, <2>6, <2>7
<1>8. ASSUME UNCHANGED <<kind, removeUnused, asset, present, joined, made, request>>,
             NEW c \in present, consumer' \in [ConsumerIds -> ConsumerRec],
             \A d \in ConsumerIds : d # c => consumer'[d] = consumer[d],
             consumer'[c].request = consumer[c].request,
             consumer'[c].state = "failed" \/ SameState(c)
      PROVE  ConsumersOK'
  <2>1. AssetTypes'
    BY <1>0, <1>8 DEF AssetTypes
  <2>2. ASSUME NEW d \in ConsumerIds PROVE ConsumerOK(d)'
    <3>1. c \in Nat /\ c <= joined
      BY <1>0, <1>8
    <3>2. CASE d # c
      BY <1>8, <1>each, <1>types, <3>2 DEF ConsumerOK
    <3>3. CASE d = c
      BY <1>0, <1>8, <1>each, <1>types, <3>1, <3>3 DEF ConsumerOK, SameState
    <3> QED
      BY <3>2, <3>3
  <2> QED
    BY <1>6, <1>8, <2>1, <2>2
<1>9. CASE \E onMain \in BOOLEAN : RemoveAssetLoadObserver(onMain)
  <2>1. PICK c \in present : consumer' = [consumer EXCEPT ![c].observed = FALSE]
    BY <1>9 DEF RemoveAssetLoadObserver
  <2>2. UNCHANGED <<kind, removeUnused, asset, present, joined, made, request>>
    BY <1>9 DEF RemoveAssetLoadObserver, loadVars
  <2>3. /\ consumer' \in [ConsumerIds -> ConsumerRec]
        /\ \A d \in ConsumerIds : d # c => consumer'[d] = consumer[d]
        /\ consumer'[c].request = consumer[c].request /\ SameState(c)
    BY <1>0, <2>1 DEF ConsumerRec, SameState
  <2> QED
    BY <1>8, <2>2, <2>3
<1>10. ASSUME NEW c \in ConsumerIds, FailConsumer(c) \/ NotifyAssetConsumer(c) PROVE ConsumersOK'
  <2>1. c \in present /\ UNCHANGED <<kind, removeUnused, asset, present, joined, made, request>>
    BY <1>10, UpdatedConsumer DEF FailConsumer, NotifyAssetConsumer, loadVars
  <2>2. CASE FailConsumer(c)
    <3> DEFINE entry == [consumer[c] EXCEPT !.state = "failed", !.loaded = NoLocation]
    <3>a. consumer[c] \in ConsumerRec /\ NoLocation \in Locations \cup {NoLocation}
      BY <1>0
    <3>b. entry \in ConsumerRec /\ entry.request = consumer[c].request /\ entry.state = "failed"
      BY <3>a DEF ConsumerRec
    <3>c. consumer' = [consumer EXCEPT ![c] = entry]
      BY <1>0, <2>2 DEF FailConsumer
    <3> HIDE DEF entry
    <3>1. /\ consumer' \in [ConsumerIds -> ConsumerRec]
          /\ \A d \in ConsumerIds : d # c => consumer'[d] = consumer[d]
          /\ consumer'[c].request = consumer[c].request /\ consumer'[c].state = "failed"
      BY <1>0, <3>b, <3>c
    <3> QED
      BY <1>8, <2>1, <3>1
  <2>3. CASE NotifyAssetConsumer(c)
    <3>1. /\ consumer' \in [ConsumerIds -> ConsumerRec]
          /\ \A d \in ConsumerIds : d # c => consumer'[d] = consumer[d]
          /\ consumer'[c].request = consumer[c].request /\ SameState(c)
      BY <1>0, <2>3 DEF NotifyAssetConsumer, ConsumerRec, SameState
    <3> QED
      BY <1>8, <2>1, <3>1
  <2> QED
    BY <1>10, <2>2, <2>3
<1>11. ASSUME \A d \in present : /\ consumer[d].request = None
                                 /\ consumer[d].state \notin {"loading", "loaded"},
              asset' \in AssetRec,
              UNCHANGED <<kind, removeUnused, present, consumer, joined, made, request>>
       PROVE  ConsumersOK'
  <2>1. AssetTypes'
    BY <1>0, <1>11 DEF AssetTypes
  <2>2. ASSUME NEW d \in ConsumerIds PROVE ConsumerOK(d)'
    BY <1>11, <1>each DEF ConsumerOK
  <2> QED
    BY <1>6, <1>11, <2>1, <2>2
<1>12. CASE RemoveManagedAsset \/ ResolveAssetLocation
  <2>1. \A d \in present : /\ consumer[d].request = None
                           /\ consumer[d].state \notin {"loading", "loaded"}
    BY <1>12, NobodyHolds DEF RemoveManagedAsset, Unwanted, ResolveAssetLocation
  <2>2. UNCHANGED <<kind, removeUnused, present, consumer, joined, made, request>>
    BY <1>12 DEF RemoveManagedAsset, ResolveAssetLocation, loadVars
  <2>3. CASE RemoveManagedAsset
    <3>1. asset' \in AssetRec
      BY <2>3 DEF RemoveManagedAsset, NoAsset, AssetRec
    <3> QED
      BY <1>11, <2>1, <2>2, <3>1
  <2>4. CASE ResolveAssetLocation
    <3>1. resolveSeq + 1 \in Nat
      BY TypeParts DEF WorkTypes
    <3>2. asset' \in AssetRec
      BY <1>0, <2>4, <3>1 DEF ResolveAssetLocation, AssetRec
    <3> QED
      BY <1>11, <2>1, <2>2, <3>2
  <2> QED
    BY <1>12, <2>3, <2>4
<1>13. CASE LocationResolved
  <2>1. UNCHANGED <<kind, removeUnused, present, consumer, joined, made, request>>
    BY <1>13 DEF LocationResolved, loadVars
  <2>2. CASE asset.alive /\ asset.resolveId = Head(worker)
    <3>1. worker \in Seq(Nat) /\ worker # <<>> /\ Head(worker) # Flush
      BY <1>13, TypeParts DEF LocationResolved, WorkTypes
    <3>2. 1 \in DOMAIN worker /\ worker[1] = Head(worker)
      BY <3>1
    <3>3. asset.state = "resolving"
      BY <2>2, <3>1, <3>2 DEF AnswersAwaited
    <3>4. \A d \in present : /\ consumer[d].request = None
                             /\ consumer[d].state \notin {"loading", "loaded"}
      BY <3>3, NobodyHolds
    <3>5. PICK state \in {"ready", "failedPermanently", "failedRetryable"},
               location \in {Found, NoLocation} :
            asset' = [asset EXCEPT !.state = state, !.location = location]
      BY <1>13, <2>2 DEF LocationResolved
    <3>6. asset' \in AssetRec
      BY <1>0, <3>5 DEF AssetRec
    <3> QED
      BY <1>11, <2>1, <3>4, <3>6
  <2>3. CASE ~(asset.alive /\ asset.resolveId = Head(worker))
    <3>1. asset' = asset
      BY <1>13, <2>3 DEF LocationResolved
    <3> QED
      BY <1>2, <2>1, <3>1
  <2> QED
    BY <2>2, <2>3
<1>14. ASSUME NEW onMain \in BOOLEAN, RetryFailedAssets(onMain) PROVE ConsumersOK'
  <2>1. /\ asset.state = "failedRetryable" /\ asset' = [asset EXCEPT !.state = "initial"]
        /\ consumer' = [d \in ConsumerIds |->
             IF d \in present /\ consumer[d].state = "failed"
             THEN [consumer[d] EXCEPT !.state = "initial", !.notified = FALSE] ELSE consumer[d]]
        /\ UNCHANGED <<kind, removeUnused, present, joined, made, request>>
    BY <1>14 DEF RetryFailedAssets, loadVars
  <2>2. \A d \in present : /\ consumer[d].request = None
                           /\ consumer[d].state \notin {"loading", "loaded"}
    BY <2>1, NobodyHolds
  <2>3. asset' \in AssetRec
    BY <1>0, <2>1 DEF AssetRec
  <2>4. ASSUME NEW d \in ConsumerIds
        PROVE  /\ consumer'[d] \in ConsumerRec /\ consumer'[d].request = consumer[d].request
               /\ d \in present => consumer'[d].state \notin {"loading", "loaded"}
               /\ d \notin present => consumer'[d] = consumer[d]
               /\ consumer[d].state = "initial" => consumer'[d].state = "initial"
    BY <1>0, <2>1, <2>2 DEF ConsumerRec
  <2>5. consumer' \in [ConsumerIds -> ConsumerRec]
    BY <2>1, <2>4
  <2>6. AssetTypes'
    BY <1>0, <2>1, <2>3, <2>5 DEF AssetTypes
  <2>7. ASSUME NEW d \in ConsumerIds PROVE ConsumerOK(d)'
    BY <1>each, <2>1, <2>2, <2>4 DEF ConsumerOK
  <2> QED
    BY <1>6, <2>1, <2>4, <2>6, <2>7
<1>15. ASSUME NEW onMain \in BOOLEAN, SetResolvedAssetLocation(onMain) PROVE ConsumersOK'
  <2>1. PICK l \in Locations : asset' = Overridden(l)
    BY <1>15 DEF SetResolvedAssetLocation
  <2>2. asset' \in AssetRec /\ asset'.state = "ready"
    BY <1>0, <2>1 DEF Overridden, AssetRec
  <2>3. UNCHANGED <<kind, removeUnused, present, joined, made>>
    BY <1>15 DEF SetResolvedAssetLocation
  <2>4. CASE asset.state # "ready"
    <3>1. UNCHANGED <<consumer, request>>
      BY <1>15, <2>4 DEF SetResolvedAssetLocation
    <3>2. \A d \in present : /\ consumer[d].request = None
                             /\ consumer[d].state \notin {"loading", "loaded"}
      BY <2>4, NobodyHolds
    <3> QED
      BY <1>11, <2>2, <2>3, <3>1, <3>2
  <2>5. CASE asset.state = "ready"
    <3>1. /\ consumer' = [d \in ConsumerIds |-> IF d \in present
               THEN [consumer[d] EXCEPT !.state = "initial", !.notified = FALSE,
                                        !.loaded = NoLocation, !.request = None]
               ELSE consumer[d]]
          /\ UpdateRequestHandlers(present, None, request)
      BY <1>15, <2>5 DEF SetResolvedAssetLocation
    <3>2. ASSUME NEW d \in ConsumerIds
          PROVE  /\ consumer'[d] \in ConsumerRec
                 /\ d \in present => consumer'[d].request = None /\ consumer'[d].state = "initial"
                 /\ d \notin present => consumer'[d] = consumer[d]
      BY <1>0, <3>1 DEF ConsumerRec
    <3>3. consumer' \in [ConsumerIds -> ConsumerRec]
      BY <3>1, <3>2
    <3>4. AssetTypes'
      BY <1>0, <2>2, <2>3, <3>3 DEF AssetTypes
    <3>5. ASSUME NEW q \in Requests
          PROVE  {d \in present' : consumer'[d].request = q} = Holders(q) \ present
      <4>1. q # None
        BY Bounds
      <4> QED
        BY <1>0, <2>3, <3>2, <4>1 DEF Holders
    <3>6. present \in SUBSET present /\ \A d \in present : consumer[d].request <= made
      BY <1>0, <1>each DEF ConsumerOK
    <3>7. RequestsCounted'
      BY <1>0, <2>3, <3>1, <3>5, <3>6, CountsLetGo
    <3>8. ASSUME NEW d \in ConsumerIds PROVE ConsumerOK(d)'
      <4>1. None <= made
        BY <1>0 DEF None
      <4>0. d \in present => d <= joined /\ d \in Nat /\ joined \in Nat
        BY <1>0
      <4>2. CASE d \in present
        BY <2>3, <3>2, <4>0, <4>1, <4>2 DEF ConsumerOK
      <4>3. CASE d \notin present
        BY <1>each, <2>3, <3>2, <4>3 DEF ConsumerOK
      <4> QED
        BY <4>2, <4>3
    <3> QED
      BY <3>4, <3>7, <3>8, EachConsumerNext
  <2> QED
    BY <2>4, <2>5
<1>16. ASSUME NEW c \in ConsumerIds, RemoveAssetConsumer(c) PROVE ConsumersOK'
  <2>1. /\ c \in present /\ present' = present \ {c}
        /\ consumer' = [consumer EXCEPT ![c].state = "removed", ![c].loaded = NoLocation, ![c].request = None]
        /\ UpdateRequestHandlers({c}, None, request)
        /\ UNCHANGED <<kind, removeUnused, asset, joined, made>>
    BY <1>16 DEF RemoveAssetConsumer, Gone
  <2>2. /\ consumer' \in [ConsumerIds -> ConsumerRec] /\ consumer'[c].request = None
        /\ \A d \in ConsumerIds : d # c => consumer'[d] = consumer[d]
    <3> DEFINE entry == [consumer[c] EXCEPT !.state = "removed", !.loaded = NoLocation, !.request = None]
    <3>1. consumer[c] \in ConsumerRec /\ NoLocation \in Locations \cup {NoLocation}
      BY <1>0
    <3>2. entry \in ConsumerRec /\ entry.request = None
      BY <3>1 DEF ConsumerRec
    <3>3. consumer' = [consumer EXCEPT ![c] = entry]
      BY <1>0, <2>1
    <3> HIDE DEF entry
    <3> QED
      BY <1>0, <3>2, <3>3
  <2>3. AssetTypes'
    BY <1>0, <2>1, <2>2 DEF AssetTypes
  <2>4. ASSUME NEW q \in Requests
        PROVE  {d \in present' : consumer'[d].request = q} = Holders(q) \ {c}
    BY <1>0, <2>1, <2>2 DEF Holders
  <2>5. {c} \in SUBSET present /\ \A d \in present : consumer[d].request <= made
    BY <1>0, <1>each, <2>1 DEF ConsumerOK
  <2>6. RequestsCounted' /\ \A q \in Requests : request'[q].location = request[q].location
    BY <1>0, <2>1, <2>4, <2>5, CountsLetGo
  <2>7. ASSUME NEW d \in ConsumerIds PROVE ConsumerOK(d)'
    <3>1. c <= joined /\ c \in Nat /\ joined \in Nat /\ None <= made
      BY <1>0, <2>1, Bounds DEF None
    <3>2. CASE d = c
      BY <2>1, <2>2, <3>1, <3>2 DEF ConsumerOK
    <3>3. CASE d # c
      BY <1>each, <1>types, <2>1, <2>2, <2>6, <3>3 DEF ConsumerOK
    <3> QED
      BY <3>2, <3>3
  <2> QED
    BY <2>3, <2>6, <2>7, EachConsumerNext
<1>17. ASSUME NEW c \in ConsumerIds, ShareRequest(c) \/ MakeRequest(c) PROVE ConsumersOK'
  <2>1. PICK r, base : Taking(c, r, base) /\ Took(c, r)
    BY <1>17, TakingRequest DEF ConsumersOK
  <2>2. /\ asset.state = "ready" /\ UNCHANGED <<kind, removeUnused, asset, present, joined>>
    BY <1>17 DEF ShareRequest, MakeRequest, Loads
  <2>3. /\ c \in present /\ consumer[c].request = None /\ r \in Requests /\ r # None /\ r \in Nat
        /\ \/ r <= made /\ Holders(r) # {} /\ made' = made
           \/ r = made + 1 /\ made' = r
    BY <2>1, Bounds DEF Taking
  <2>4. /\ consumer' \in [ConsumerIds -> ConsumerRec]
        /\ \A d \in ConsumerIds : d # c => consumer'[d] = consumer[d]
        /\ consumer'[c].request = r /\ consumer'[c].state \in {"loading", "loaded", "failed"}
        /\ consumer'[c].state = "loaded" => made' = made /\ consumer'[c].loaded = request[r].location
    BY <2>1 DEF Took
  <2>5. \A q \in Requests :
          request'[q].location = IF q = r /\ made' # made THEN asset.location ELSE request[q].location
    BY <1>0, <2>1, RequestTaken
  <2>6. made' = made => request[r].location = asset.location
    <3>1. ASSUME made' = made PROVE \E d \in present : consumer[d].request = r
      <4>1. made' # made + 1
        BY <1>0, <3>1
      <4>2. Holders(r) # {}
        BY <2>3, <4>1
      <4> QED
        BY <4>2 DEF Holders
    <3> QED
      BY <1>0, <1>each, <2>3, <3>1 DEF ConsumerOK
  <2>7. AssetTypes'
    BY <1>0, <2>2, <2>4 DEF AssetTypes
  <2>8. ASSUME NEW q \in Requests
        PROVE  {d \in present' : consumer'[d].request = q}
                 = IF q = r THEN Holders(q) \cup {c} ELSE Holders(q)
    <3>0. q # None
      BY Bounds
    <3>1. ASSUME NEW d
          PROVE  d \in present /\ consumer'[d].request = q
                   <=> d \in Holders(q) \/ (d = c /\ q = r)
      <4>1. CASE d = c
        BY <2>3, <2>4, <3>0, <4>1 DEF Holders
      <4>2. CASE d # c
        BY <1>0, <2>4, <4>2 DEF Holders
      <4> QED
        BY <4>1, <4>2
    <3> QED
      BY <2>2, <3>1
  <2>9. RequestsCounted'
    BY <1>0, <2>1, <2>8, CountsTaking
  <2>10. ASSUME NEW d \in ConsumerIds PROVE ConsumerOK(d)'
    <3>1. made' \in Nat /\ made <= made' /\ r <= made' /\ c <= joined /\ joined \in Nat
      BY <1>0, <2>3
    <3>2. CASE d = c
      <4>1. request'[r].location = asset.location
        BY <2>3, <2>5, <2>6
      <4>2. ~(c > joined)
        BY <3>1, <1>0
      <4>3. consumer'[c].state = "loaded" => consumer'[c].loaded = asset.location
        BY <2>4, <2>6
      <4>4. consumer'[c].state \in {"loading", "loaded", "failed"} => consumer'[c].state # "initial"
        OBVIOUS
      <4> QED
        BY <2>2, <2>3, <2>4, <3>1, <3>2, <4>1, <4>2, <4>3, <4>4 DEF ConsumerOK
    <3>3. CASE d # c
      <4>1. consumer'[d] = consumer[d] /\ consumer[d].request <= made' /\ ConsumerOK(d)
        <5>1. consumer[d].request \in Nat /\ consumer[d].request <= made
          BY <1>each, <1>types, Bounds DEF ConsumerOK
        <5> QED
          BY <1>0, <1>each, <2>4, <3>1, <3>3, <5>1
      <4>2. ASSUME d \in present, consumer[d].request # None
            PROVE  request'[consumer[d].request].location = asset.location
        <5>1. consumer[d].request \in Requests /\ request[consumer[d].request].location = asset.location
          BY <1>types, <4>1, <4>2 DEF ConsumerOK
        <5> QED
          BY <2>5, <5>1
      <4> QED
        BY <2>2, <4>1, <4>2 DEF ConsumerOK
    <3> QED
      BY <3>2, <3>3
  <2> QED
    BY <2>7, <2>9, <2>10, EachConsumerNext
<1>18. ASSUME NEW onMain \in BOOLEAN, NEW r \in Requests, OnLoad(onMain, r) PROVE ConsumersOK'
  <2>1. PICK result \in {"asset", "error"} :
          /\ request' = [request EXCEPT ![r].result = result, ![r].answers = @ + 1]
          /\ consumer' = [d \in ConsumerIds |-> IF d \in present /\ consumer[d].request = r
               THEN Answered(consumer[d], result, request[r].location) ELSE consumer[d]]
    BY <1>18 DEF OnLoad
  <2>2. UNCHANGED <<kind, removeUnused, asset, present, joined, made>>
    BY <1>18 DEF OnLoad
  <2>3. ASSUME NEW q \in Requests
        PROVE  /\ request'[q].count = request[q].count /\ request'[q].cancel = request[q].cancel
               /\ request'[q].location = request[q].location
    BY <1>0, <2>1 DEF RequestRec
  <2>4. ASSUME NEW d \in ConsumerIds
        PROVE  /\ consumer'[d] \in ConsumerRec /\ consumer'[d].request = consumer[d].request
               /\ \/ consumer'[d] = consumer[d]
                  \/ /\ d \in present /\ consumer[d].request = r
                     /\ consumer'[d].state \in {"loaded", "failed"}
                     /\ consumer'[d].state = "loaded" => consumer'[d].loaded = request[r].location
    <3>1. CASE d \in present /\ consumer[d].request = r
      <4>1. /\ consumer'[d] = Answered(consumer[d], result, request[r].location)
            /\ consumer[d] \in ConsumerRec /\ request[r].location \in Locations \cup {NoLocation}
        BY <1>0, <1>types, <2>1, <3>1
      <4> QED
        BY <3>1, <4>1, AnsweredEntry
    <3>2. CASE ~(d \in present /\ consumer[d].request = r)
      BY <1>0, <2>1, <3>2
    <3> QED
      BY <3>1, <3>2
  <2>5. consumer' \in [ConsumerIds -> ConsumerRec]
    BY <2>1, <2>4
  <2>6. AssetTypes'
    BY <1>0, <2>2, <2>5 DEF AssetTypes
  <2>7. ASSUME NEW d \in ConsumerIds PROVE ConsumerOK(d)'
    <3>1. ConsumerOK(d) /\ r # None
      BY <1>each, Bounds
    <3>2. consumer[d].request \in Requests \cup {None}
      BY <1>types
    <3>3. CASE consumer'[d] = consumer[d]
      BY <2>2, <2>3, <3>1, <3>2, <3>3 DEF ConsumerOK
    <3>4. CASE consumer'[d] # consumer[d]
      <4>1. d <= joined /\ d \in Nat /\ joined \in Nat
        BY <1>0, <2>4, <3>4
      <4> QED
        BY <2>2, <2>3, <2>4, <3>1, <3>4, <4>1 DEF ConsumerOK
    <3> QED
      BY <3>3, <3>4
  <2> QED
    BY <1>6, <2>2, <2>3, <2>4, <2>6, <2>7
<1> QED
  BY <1>3, <1>4, <1>5, <1>7, <1>9, <1>10, <1>12, <1>13, <1>14, <1>15, <1>16, <1>17, <1>18
     DEF Next, MainThread, WorkerThread, Others

-----------------------------------------------------------------------------
(* Together they are inductive.  The kinds of state need one another: the      *)
(* requests to be counted as consumers let go of them, and no consumer to      *)
(* hold one while the location is not known, for which an answer must find the *)
(* asset waiting.                                                              *)
IInv == UpdatesOK /\ ResolutionOK /\ LoadsOK /\ ConsumersOK

LEMMA Typed ==
  ASSUME IInv
  PROVE  TypeOK
<1>1. WorkTypes
  BY DEF IInv, LoadsOK, HandOK, ResolutionOK, QueueOK, WorkTypes
<1> QED
  BY <1>1, TypeParts DEF IInv, UpdatesOK, LoadsOK, ConsumersOK

LEMMA Start == Init => IInv
<1> SUFFICES ASSUME Init PROVE IInv
  OBVIOUS
<1>0. /\ asset = NoAsset /\ present = {} /\ made = 0 /\ joined = 0 /\ resolveSeq = 0
      /\ pending = <<>> /\ flushScheduled = FALSE /\ inHand = <<>> /\ worker = <<>> /\ resolving = {}
      /\ scheduled = 0 /\ posted = 0 /\ pauseCount = 0 /\ stack = <<>>
      /\ inTransaction = FALSE /\ crashed = FALSE
      /\ MaxConsumers \in Nat /\ MaxRequests \in Nat /\ None = 0
  BY Bounds DEF Init, None
<1>1. /\ request \in [Requests -> RequestRec]
      /\ \A q \in Requests :
           /\ request[q].count = 0 /\ ~request[q].cancel /\ ~request[q].load
           /\ request[q].loader = "idle"
  BY DEF Init, RequestRec
<1>2. /\ consumer \in [ConsumerIds -> ConsumerRec]
      /\ \A c \in ConsumerIds : consumer[c].state = "initial" /\ consumer[c].request = None
  BY <1>0 DEF Init, ConsumerRec
<1>3. <<>> \in Seq(Frame) /\ <<>> \in Seq(Requests) /\ <<>> \in Seq(Nat) /\ DOMAIN <<>> = {}
  OBVIOUS
<1>4. UpdatesOK
  <2>1. EndPauses(stack) = {}
    BY <1>0, <1>3 DEF EndPauses
  <2>2. Paused
    BY <1>0, <2>1, FS_EmptySet DEF Paused
  <2> QED
    BY <1>0, <1>3, <2>2 DEF UpdatesOK, MainTypes, Current, NoStrandedUpdate
<1>5. ResolutionOK
  <2>1. Elements(worker) = {} /\ Distinct(worker)
    BY <1>0, <1>3 DEF Elements, Distinct
  <2>2. Numbered
    BY <1>0, <2>1 DEF Numbered
  <2>3. FlushQueued
    BY <1>0, <1>3 DEF FlushQueued
  <2>4. AnswersAwaited
    BY <1>0, <1>3 DEF AnswersAwaited
  <2>5. Identified
    BY <1>0 DEF Identified, NoAsset
  <2> QED
    BY <1>0, <1>3, <2>2, <2>3, <2>4, <2>5 DEF ResolutionOK, QueueOK
<1>6. LoadsOK
  <2>1. Elements(pending) = {}
    BY <1>0, <1>3 DEF Elements
  <2>2. LoadTypes /\ HandOK /\ FlushComing
    BY <1>0, <1>1, <1>3 DEF LoadTypes, HandOK, FlushComing
  <2>5. Reached
    <3>1. \A r : r \notin 1 .. made
      BY <1>0
    <3> QED
      BY <3>1 DEF Reached
  <2>3. Unmade
    BY <1>0, <1>1, <2>1 DEF Unmade
  <2>4. Taken /\ CancelledKeepsNothing
    BY <1>0, <1>1 DEF Taken, CancelledKeepsNothing
  <2> QED
    BY <2>2, <2>3, <2>4, <2>5 DEF LoadsOK
<1>7. ConsumersOK
  <2>1. kind \in {"url", "local", "remote"} /\ removeUnused \in BOOLEAN
    BY AssetsAssumption DEF Init
  <2>2. asset \in AssetRec
    BY <1>0 DEF NoAsset, AssetRec
  <2>3. AssetTypes
    BY <1>0, <1>2, <2>1, <2>2 DEF AssetTypes
  <2>4. Holding /\ FreshLoads
    BY <1>0, <1>2, Bounds DEF Holding, FreshLoads
  <2>5. RequestsCounted
    <3>1. ASSUME NEW q \in Requests PROVE q \in Nat /\ ~(q <= made)
      BY <1>0 DEF Requests
    <3>2. \A q : {c \in present : consumer[c].request = q} = {}
      BY <1>0
    <3> QED
      BY <1>1, <3>1, <3>2, FS_EmptySet DEF RequestsCounted
  <2> QED
    BY <2>3, <2>4, <2>5 DEF ConsumersOK
<1> QED
  BY <1>4, <1>5, <1>6, <1>7 DEF IInv

LEMMA Inductive == IInv /\ [Next]_vars => IInv'
<1> SUFFICES ASSUME IInv, [Next]_vars PROVE IInv'
  OBVIOUS
<1>1. /\ TypeOK /\ UpdatesOK /\ ResolutionOK /\ LoadsOK /\ ConsumersOK
      /\ Unmade /\ AnswersAwaited /\ Holding /\ RequestsCounted
  BY Typed DEF IInv, LoadsOK, ResolutionOK, ConsumersOK
<1>2. UpdatesOK'
  BY <1>1, UpdatesStep
<1>3. ResolutionOK'
  BY <1>1, ResolutionStep
<1>4. LoadsOK'
  BY <1>1, LoadsStep
<1>5. ConsumersOK'
  BY <1>1, ConsumersStep
<1> QED
  BY <1>2, <1>3, <1>4, <1>5 DEF IInv

LEMMA Invariance == Spec => []IInv
  BY Start, Inductive, PTL DEF Spec

(* The tables have their types, and the counts of consumers, scheduled updates  *)
(* and pauses are never below zero: each is counted out once for each time it   *)
(* was counted in.                                                              *)
THEOREM TypeCorrect == Spec => []TypeOK
<1>1. IInv => TypeOK
  BY Typed
<1> QED
  BY <1>1, Invariance, PTL

(* However sharing, overriding and removal are interleaved, a request counts    *)
(* the consumers that hold it and is cancelled exactly when nobody does.        *)
THEOREM RequestsCountedCorrect == Spec => []RequestsCounted
<1>1. IInv => RequestsCounted
  BY DEF IInv, ConsumersOK
<1> QED
  BY <1>1, Invariance, PTL

(* No consumer has, or waits for, what was loaded from a location its asset     *)
(* left, whichever answers are late.                                            *)
THEOREM FreshLoadsCorrect == Spec => []FreshLoads
<1>1. IInv => FreshLoads
  BY DEF IInv, ConsumersOK
<1> QED
  BY <1>1, Invariance, PTL

(* An answer that will be taken finds its asset resolving: the assertions of    *)
(* onLoadingRemoteResourcesCompleted() and updateAssetLocation() hold.          *)
THEOREM AnswersAwaitedCorrect == Spec => []AnswersAwaited
<1>1. IInv => AnswersAwaited
  BY DEF IInv, ResolutionOK
<1> QED
  BY <1>1, Invariance, PTL

(* A scheduled update has a task coming that performs it, unless a pause delays *)
(* it, however deeply observers call the manager from inside its transactions.  *)
THEOREM NoStrandedUpdateCorrect == Spec => []NoStrandedUpdate
<1>1. IInv => NoStrandedUpdate
  BY DEF IInv, UpdatesOK
<1> QED
  BY <1>1, Invariance, PTL

(* A load to begin or to cancel is in the queue of a flush that will run.       *)
THEOREM NoStrandedRequestCorrect == Spec => []NoStrandedRequest
<1>1. IInv => NoStrandedRequest
  BY NoneStranded DEF IInv, ResolutionOK, QueueOK, LoadsOK
<1> QED
  BY <1>1, Invariance, PTL

(* A cancelled load keeps no asset, although its loader may answer after the    *)
(* request was cancelled and while the flush holds no lock.                     *)
THEOREM CancelledKeepsNothingCorrect == Spec => []CancelledKeepsNothing
<1>1. IInv => CancelledKeepsNothing
  BY DEF IInv, LoadsOK
<1> QED
  BY <1>1, Invariance, PTL
=============================================================================
