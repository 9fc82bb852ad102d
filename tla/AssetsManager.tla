---------------------------- MODULE AssetsManager ----------------------------
(***************************************************************************)
(* runtime/Resources/AssetsManager.cpp for one asset key: the observers    *)
(* that want the asset, the resolution of its location, the load requests  *)
(* they share, and the updates that carry all of it to the main thread.    *)
(* A critical section of _mutex is one action.  The main thread holds      *)
(* _mutex through a transaction of performUpdates() and lets go of it to   *)
(* call an observer or to resolve a location; observers call the manager   *)
(* back, so its stack may hold transactions inside one another.            *)
(***************************************************************************)
EXTENDS Naturals, FiniteSets, Sequences

CONSTANTS
  Keys,          (* what the key names, and _removeUnusedLocalAssets        *)
  Locations,     (* where an asset may be found                             *)
  Found,         (* ... and where its resolution finds it                   *)
  NoLocation,    (* an error or nothing where a location is expected        *)
  MaxConsumers,  (* bound: observers ever added                             *)
  MaxResolves,   (* bound: resolutions ever begun                           *)
  MaxRequests,   (* bound: load requests ever made                          *)
  MaxCalls,      (* bound: calls of the manager, but for those that look up *)
                 (* an asset or end a pause                                 *)
  MaxAnswers,    (* bound: answers of a loader to one request               *)
  MaxDepth       (* bound: frames on the main thread from inside which an   *)
                 (* observer calls the manager                              *)

ASSUME AssetsAssumption ==
  /\ Keys \subseteq [kind : {"url", "local", "remote"}, removeUnused : BOOLEAN]
  /\ Found \in Locations /\ NoLocation \notin Locations
  /\ {MaxConsumers, MaxResolves, MaxRequests, MaxCalls, MaxAnswers, MaxDepth} \subseteq Nat

VARIABLES
  kind,            (* of the key: "url", "local" or "remote"                 *)
  removeUnused,    (* _removeUnusedLocalAssets                               *)
  asset,           (* the ManagedAsset of the key, if _assets has one        *)
  present,         (* its _consumers, numbered in the order they were added  *)
  consumer,        (* the AssetConsumer of each number                       *)
  request,         (* the AssetLoaderRequestHandlers, numbered as created    *)
  made,            (* how many were created                                  *)
  pending,         (* _pendingLoadRequests                                   *)
  flushScheduled,  (* _pendingLoadRequestsScheduled                          *)
  inHand,          (* the request flushLoadRequests() is about to act on     *)
  worker,          (* the worker queue: resolve ids, and Flush               *)
  resolving,       (* resolve ids the remote module manager has to answer    *)
  resolveSeq,      (* _assetResolveIdSequence                                *)
  scheduled,       (* how many entries _scheduledUpdates has                 *)
  posted,          (* performUpdates() tasks posted to the main thread       *)
  pauseCount,      (* _pauseUpdatesCount                                     *)
  stack,           (* the main thread: its frames, the innermost first       *)
  inTransaction,   (* AssetsManagerTransaction::current() is not null        *)
  joined,          (* how many consumers were added                          *)
  calls,           (* how many of the calls that are bounded were made       *)
  crashed          (* the process dereferenced what was no longer there      *)

assetVars  == <<kind, removeUnused, asset, present, consumer, joined>>
loadVars   == <<request, made, pending, flushScheduled>>
workVars   == <<worker, inHand>>
updateVars == <<scheduled, posted, stack, inTransaction>>
restVars   == <<resolving, resolveSeq, pauseCount, crashed>>
quietVars  == <<restVars, calls>>
vars       == <<assetVars, loadVars, workVars, updateVars, quietVars>>

ConsumerIds == 1 .. MaxConsumers
Requests    == 1 .. MaxRequests
Flush       == 0
None        == 0

Frame ==
  [at : {"locked", "released", "calling", "callback", "endPause"},
   updates : Nat, consumer : ConsumerIds \cup {None}, told : Locations \cup {NoLocation}]

NoAsset == [alive |-> FALSE, observable |-> FALSE, state |-> "initial",
            location |-> NoLocation, resolveId |-> 0]

Removable == kind = "url" \/ removeUnused
Settled   == asset.state \in {"ready", "failedPermanently", "failedRetryable"}

Lowest(S) == CHOOSE i \in S : \A j \in S : i <= j

-----------------------------------------------------------------------------
Init ==
  /\ \E key \in Keys : kind = key.kind /\ removeUnused = key.removeUnused
  /\ asset = NoAsset
  /\ present = {}
  /\ consumer = [c \in ConsumerIds |->
       [state |-> "initial", observed |-> FALSE, notified |-> FALSE,
        loaded |-> NoLocation, request |-> None]]
  /\ request = [r \in Requests |->
       [count |-> 0, load |-> FALSE, cancel |-> FALSE, loader |-> "idle",
        location |-> NoLocation, result |-> "none", answers |-> 0]]
  /\ made = 0 /\ joined = 0 /\ calls = 0 /\ resolveSeq = 0
  /\ pending = <<>> /\ flushScheduled = FALSE /\ inHand = <<>>
  /\ worker = <<>> /\ resolving = {}
  /\ scheduled = 0 /\ posted = 0 /\ pauseCount = 0
  /\ stack = <<>> /\ inTransaction = FALSE
  /\ crashed = FALSE

-----------------------------------------------------------------------------
(* _mutex, and which threads may take it.  Every thread that is not the main *)
(* thread does whole critical sections only, so it needs no state of its own. *)

At == IF stack = <<>> THEN "idle" ELSE Head(stack).at

LockFree == ~crashed /\ At # "locked"

CanCall(onMain) ==
  /\ LockFree
  /\ onMain => At = "idle" \/ (At = "callback" /\ Len(stack) <= MaxDepth)

Call(onMain) ==
  /\ CanCall(onMain)
  /\ calls < MaxCalls /\ calls' = calls + 1

(* performUpdates(): a transaction that takes over n scheduled updates. *)
PerformUpdates(below, n) ==
  /\ stack' = <<[at |-> "locked", updates |-> n, consumer |-> None, told |-> NoLocation]>> \o below
  /\ scheduled' = 0
  /\ inTransaction' = TRUE

(* Where a new entry of _scheduledUpdates is performed.  A thread other than *)
(* the main one posts after it unlocked; the task may run at any time later. *)
PumpUpdates(onMain) ==
  IF pauseCount = 0 /\ scheduled = 0
  THEN IF onMain
       THEN PerformUpdates(stack, 1) /\ UNCHANGED posted
       ELSE scheduled' = 1 /\ posted' = posted + 1 /\ UNCHANGED <<stack, inTransaction>>
  ELSE scheduled' = scheduled + 1 /\ UNCHANGED <<posted, stack, inTransaction>>

ScheduleAssetUpdate(onMain) ==
  IF onMain /\ inTransaction
  THEN stack' = [stack EXCEPT ![1].updates = @ + 1] /\ UNCHANGED <<scheduled, posted, inTransaction>>
  ELSE PumpUpdates(onMain)

(* scheduleFlushLoadRequests() *)
ScheduleFlush(queue, needed) ==
  IF needed /\ ~flushScheduled
  THEN flushScheduled' = TRUE /\ worker' = Append(queue, Flush)
  ELSE worker' = queue /\ UNCHANGED flushScheduled

Orders(S) == {s \in [1 .. Cardinality(S) -> S] : \A i, j \in DOMAIN s : s[i] = s[j] => i = j}

(* How many consumers in S hold request q, and the requests only they hold.  *)
Held(S, q) == Cardinality({c \in S : consumer[c].request = q})

FreedEarly(S) == {q \in Requests : Held(S, q) > 0 /\ ~request[q].cancel}

Freed(S) == {q \in Requests : Held(S, q) > 0 /\ request[q].count = Held(S, q) /\ ~request[q].cancel}

(* updateConsumerRequestHandler() for the consumers in S, which let go of    *)
(* their requests; one of them takes r unless r is None.  base is the table  *)
(* of requests with r created in it.                                         *)
UpdateRequestHandlers(S, r, base) ==
  LET freed == Freed(S)
      loads == IF r # None /\ ~request[r].load THEN <<r>> ELSE <<>>
  IN  /\ request' = [q \in Requests |->
           [base[q] EXCEPT !.count = (@ - Held(S, q)) + IF q = r THEN 1 ELSE 0,
                           !.cancel = @ \/ q \in freed, !.load = @ \/ q = r]]
      /\ \E cancels \in Orders(freed) : pending' = pending \o cancels \o loads
      /\ ScheduleFlush(worker, freed # {} \/ loads # <<>>)

(* onConsumerLoad() *)
Answered(entry, result, location) ==
  [entry EXCEPT !.notified = FALSE, !.state = IF result = "asset" THEN "loaded" ELSE "failed",
                !.loaded = IF result = "asset" THEN location ELSE NoLocation]

-----------------------------------------------------------------------------
(* What the rest of the runtime calls, from any thread.  An asset key names  *)
(* the asset through its observable, which getAsset() makes; an asset that   *)
(* is (again) at its first state has a resolution coming, hence the bound.   *)

GetAsset ==
  /\ LockFree
  /\ ~asset.observable
  /\ asset.alive \/ resolveSeq < MaxResolves
  /\ asset' = [asset EXCEPT !.alive = TRUE, !.observable = TRUE]
  /\ UNCHANGED <<kind, removeUnused, present, consumer, joined, loadVars, workVars, updateVars, quietVars>>

ObservableDestroyed(onMain) ==
  /\ Call(onMain)
  /\ asset.observable
  /\ asset' = [asset EXCEPT !.observable = FALSE]
  /\ ScheduleAssetUpdate(onMain)
  /\ UNCHANGED <<kind, removeUnused, present, consumer, joined, loadVars, workVars, restVars>>

AddAssetLoadObserver(onMain) ==
  /\ Call(onMain)
  /\ asset.observable
  /\ joined < MaxConsumers
  /\ asset.state = "failedRetryable" => resolveSeq < MaxResolves
  /\ joined' = joined + 1
  /\ present' = present \cup {joined + 1}
  /\ consumer' = [consumer EXCEPT ![joined + 1].observed = TRUE]
  /\ asset' = [asset EXCEPT !.state = IF @ = "failedRetryable" THEN "initial" ELSE @]
  /\ ScheduleAssetUpdate(onMain)
  /\ UNCHANGED <<kind, removeUnused, loadVars, workVars, restVars>>

RemoveAssetLoadObserver(onMain) ==
  /\ Call(onMain)
  /\ asset.observable
  /\ \E c \in present :
       consumer[c].observed /\ consumer' = [consumer EXCEPT ![c].observed = FALSE]
  /\ ScheduleAssetUpdate(onMain)
  /\ UNCHANGED <<kind, removeUnused, asset, present, joined, loadVars, workVars, restVars>>

OverriddenSameId(l) == [asset EXCEPT !.alive = TRUE, !.state = "ready", !.location = l]

(* The answer of a resolution under way will find another id. *)
Overridden(l) ==
  [asset EXCEPT !.alive = TRUE, !.state = "ready", !.location = l, !.resolveId = 0]

(* setResolvedAssetLocation(): what was loaded from elsewhere is let go. *)
SetResolvedAssetLocation(onMain) ==
  /\ Call(onMain)
  /\ \E l \in Locations :
       /\ asset.state = "ready" => asset.location # l
       /\ asset' = Overridden(l)
  /\ IF asset.state = "ready"
     THEN /\ consumer' = [c \in ConsumerIds |-> IF c \in present
                THEN [consumer[c] EXCEPT !.state = "initial", !.notified = FALSE,
                                         !.loaded = NoLocation, !.request = None]
                ELSE consumer[c]]
          /\ UpdateRequestHandlers(present, None, request)
     ELSE UNCHANGED <<consumer, request, pending, flushScheduled, worker>>
  /\ IF present # {} THEN ScheduleAssetUpdate(onMain) ELSE UNCHANGED updateVars
  /\ UNCHANGED <<kind, removeUnused, present, joined, made, inHand,
                 resolving, resolveSeq, pauseCount, crashed>>

RetryFailedAssets(onMain) ==
  /\ Call(onMain)
  /\ asset.state = "failedRetryable"
  /\ resolveSeq < MaxResolves
  /\ asset' = [asset EXCEPT !.state = "initial"]
  /\ consumer' = [c \in ConsumerIds |-> IF c \in present /\ consumer[c].state = "failed"
       THEN [consumer[c] EXCEPT !.state = "initial", !.notified = FALSE] ELSE consumer[c]]
  /\ PumpUpdates(onMain)
  /\ UNCHANGED <<kind, removeUnused, present, joined, loadVars, workVars, restVars>>

BeginPauseUpdates(onMain) ==
  /\ Call(onMain)
  /\ pauseCount' = pauseCount + 1
  /\ UNCHANGED <<assetVars, loadVars, workVars, updateVars, resolving, resolveSeq, crashed>>

FlushUpdates ==
  /\ Call(TRUE)
  /\ scheduled > 0
  /\ PerformUpdates(stack, scheduled)
  /\ UNCHANGED <<assetVars, loadVars, workVars, posted, restVars>>

UnpauseSilently(onMain, below) ==
  /\ pauseCount' = pauseCount - 1
  /\ ScheduleFlush(worker, pauseCount = 1 /\ pending # <<>>)
  /\ IF pauseCount = 1 /\ scheduled > 0 /\ onMain
     THEN PerformUpdates(below, scheduled) /\ UNCHANGED posted
     ELSE stack' = below /\ UNCHANGED <<scheduled, posted, inTransaction>>
  /\ UNCHANGED <<assetVars, request, made, pending, inHand, resolving, resolveSeq, crashed, calls>>

UnpauseUpdates(onMain, below) ==
  /\ pauseCount' = pauseCount - 1
  /\ IF pauseCount = 1 /\ scheduled > 0 /\ onMain
     THEN PerformUpdates(below, scheduled) /\ UNCHANGED posted
     ELSE /\ posted' = posted + IF pauseCount = 1 /\ scheduled > 0 THEN 1 ELSE 0
          /\ stack' = below
          /\ UNCHANGED <<scheduled, inTransaction>>
  /\ UNCHANGED <<assetVars, loadVars, workVars, resolving, resolveSeq, crashed, calls>>

(* endPauseUpdates() after it flushed: below is what is under it. *)
Unpause(onMain, below) ==
  /\ pauseCount' = pauseCount - 1
  /\ ScheduleFlush(worker, pauseCount = 1 /\ pending # <<>>)
  /\ IF pauseCount = 1 /\ scheduled > 0 /\ onMain
     THEN PerformUpdates(below, scheduled) /\ UNCHANGED posted
     ELSE /\ posted' = posted + IF pauseCount = 1 /\ scheduled > 0 THEN 1 ELSE 0
          /\ stack' = below
          /\ UNCHANGED <<scheduled, inTransaction>>
  /\ UNCHANGED <<assetVars, request, made, pending, inHand, resolving, resolveSeq, crashed, calls>>

(* On the main thread what is scheduled is performed first, still paused. *)
FlushBeforeUnpause ==
  /\ PerformUpdates(<<[at |-> "endPause", updates |-> 0, consumer |-> None, told |-> NoLocation]>>
                      \o stack, scheduled)
  /\ UNCHANGED <<assetVars, loadVars, workVars, posted, quietVars>>

PausesBegun == pauseCount

(* Who began a pause ends it, once. *)
PausesLeft == pauseCount - Cardinality({i \in DOMAIN stack : stack[i].at = "endPause"})

EndPauseUpdates(onMain) ==
  /\ CanCall(onMain)
  /\ PausesLeft > 0
  /\ IF onMain /\ pauseCount = 1 /\ scheduled > 0
     THEN FlushBeforeUnpause
     ELSE Unpause(onMain, stack)

ResumeEndPause ==
  /\ ~crashed /\ At = "endPause"
  /\ Unpause(TRUE, Tail(stack))

-----------------------------------------------------------------------------
(* performUpdates() on the main thread.  After(n, at): an update is done that *)
(* added n more to the transaction, and the lock is kept or released.         *)

Updating ==
  /\ ~crashed /\ At \in {"locked", "released"} /\ Head(stack).updates > 0

After(n, at, c, told) ==
  /\ stack' = [stack EXCEPT ![1] =
                 [at |-> at, updates |-> (@.updates - 1) + n, consumer |-> c, told |-> told]]
  /\ UNCHANGED <<scheduled, posted, inTransaction>>

Unwanted == asset.alive /\ Removable /\ present = {} /\ ~asset.observable

RunPostedUpdates ==
  /\ ~crashed /\ At = "idle" /\ posted > 0
  /\ posted' = posted - 1
  /\ PerformUpdates(stack, scheduled)
  /\ UNCHANGED <<assetVars, loadVars, workVars, quietVars>>

FinishUpdates ==
  /\ ~crashed /\ At \in {"locked", "released"} /\ Head(stack).updates = 0
  /\ stack' = Tail(stack)
  /\ inTransaction' = FALSE
  /\ UNCHANGED <<assetVars, loadVars, workVars, scheduled, posted, quietVars>>

(* getNextConsumerToUpdate(): the consumer, and whether the code will look for *)
(* another one; the scan stops at the second one that has something to be told. *)
Gone == {c \in present : ~consumer[c].observed}
Due  == {c \in present : ~consumer[c].notified /\ consumer[c].state \in {"initial", "failed", "loaded"}}

NextConsumerAlone ==
  LET first == Lowest(Gone \cup Due)
  IN  [consumer |-> first, hasMore |-> first \in Gone \cap Due]

NextConsumer ==
  LET first == Lowest(Gone \cup Due)
      told  == {d \in Due \ Gone : d > first}
  IN  IF first \in Gone \cap Due THEN [consumer |-> first, hasMore |-> TRUE]
      ELSE IF told = {} THEN [consumer |-> first, hasMore |-> FALSE]
      ELSE [consumer |-> IF first \in Gone THEN Lowest(told) ELSE first, hasMore |-> TRUE]

UpdatingConsumer(c) ==
  /\ Updating /\ asset.alive /\ ~Unwanted /\ Settled
  /\ Gone \cup Due # {}
  /\ c = NextConsumer.consumer

More == IF NextConsumer.hasMore THEN 1 ELSE 0

UpdateNothing ==
  /\ Updating
  /\ \/ ~asset.alive
     \/ asset.alive /\ ~Unwanted /\ \/ asset.state = "initial" /\ present = {}
                                    \/ asset.state = "resolving"
                                    \/ Settled /\ Gone \cup Due = {}
  /\ After(0, "locked", None, NoLocation)
  /\ UNCHANGED <<assetVars, loadVars, workVars, quietVars>>

RemoveManagedAsset ==
  /\ Updating /\ Unwanted
  /\ asset' = NoAsset
  /\ After(0, "locked", None, NoLocation)
  /\ UNCHANGED <<kind, removeUnused, present, consumer, joined, loadVars, workVars, quietVars>>

(* resolveAssetLocation(): a URL is its own location. *)
ResolveAssetLocation ==
  /\ Updating /\ asset.alive /\ asset.state = "initial" /\ present # {}
  /\ resolveSeq' = resolveSeq + 1
  /\ IF kind = "url"
     THEN /\ asset' = [asset EXCEPT !.state = "ready", !.location = Found, !.resolveId = resolveSeq + 1]
          /\ After(1, "locked", None, NoLocation)
          /\ UNCHANGED <<worker, resolving>>
     ELSE /\ asset' = [asset EXCEPT !.state = "resolving", !.resolveId = resolveSeq + 1]
          /\ After(0, "released", None, NoLocation)
          /\ IF kind = "local"
             THEN worker' = Append(worker, resolveSeq + 1) /\ UNCHANGED resolving
             ELSE resolving' = resolving \cup {resolveSeq + 1} /\ UNCHANGED worker
  /\ UNCHANGED <<kind, removeUnused, present, consumer, joined, loadVars, inHand,
                 pauseCount, crashed, calls>>

RemoveAssetConsumer(c) ==
  /\ UpdatingConsumer(c) /\ c \in Gone
  /\ present' = present \ {c}
  /\ consumer' = [consumer EXCEPT ![c].state = "removed", ![c].loaded = NoLocation, ![c].request = None]
  /\ UpdateRequestHandlers({c}, None, request)
  /\ After(More, "locked", None, NoLocation)
  /\ UNCHANGED <<kind, removeUnused, asset, joined, made, inHand, quietVars>>

(* An asset that failed, or that no loader can load, fails its consumer. *)
FailConsumer(c) ==
  /\ UpdatingConsumer(c) /\ c \notin Gone
  /\ consumer[c].state = "initial"
  /\ consumer' = [consumer EXCEPT ![c].state = "failed", ![c].loaded = NoLocation]
  /\ After(More + 1, "locked", None, NoLocation)
  /\ UNCHANGED <<kind, removeUnused, asset, present, joined, loadVars, workVars, quietVars>>

Loads(c) ==
  /\ UpdatingConsumer(c) /\ c \notin Gone
  /\ consumer[c].state = "initial" /\ asset.state = "ready"
  /\ UNCHANGED <<kind, removeUnused, asset, present, joined, inHand, quietVars>>

(* With the request of a consumer that asked for the same: any may have.      *)
ShareRequest(c) ==
  /\ Loads(c)
  /\ \E r \in {consumer[d].request : d \in present} \ {None} :
       LET entry == [consumer[c] EXCEPT !.state = "loading", !.request = r]
           known == request[r].result # "none"
       IN  /\ consumer' = [consumer EXCEPT ![c] =
                IF known THEN Answered(entry, request[r].result, request[r].location) ELSE entry]
           /\ UpdateRequestHandlers({c}, r, request)
           /\ After(More + IF known THEN 1 ELSE 0, "locked", None, NoLocation)
  /\ UNCHANGED made

(* With a request of its own: nobody did, or the loader cannot share. *)
MakeRequest(c) ==
  /\ Loads(c) /\ made + 1 \in Requests
  /\ made' = made + 1
  /\ consumer' = [consumer EXCEPT ![c].state = "loading", ![c].request = made + 1]
  /\ UpdateRequestHandlers({c}, made + 1, [request EXCEPT ![made + 1].location = asset.location])
  /\ After(More, "locked", None, NoLocation)

(* notifyAssetConsumer(): released, the observer and the asset still to be read. *)
NotifyAssetConsumer(c) ==
  /\ UpdatingConsumer(c) /\ c \notin Gone
  /\ consumer[c].state \in {"failed", "loaded"}
  /\ consumer' = [consumer EXCEPT ![c].notified = TRUE]
  /\ After(More, "calling", c, consumer[c].loaded)
  /\ UNCHANGED <<kind, removeUnused, asset, present, joined, loadVars, workVars, quietVars>>

(* onLoad() is called through the consumer's observer, with an asset read by *)
(* reference: either may have been taken away since the lock was released.   *)
CallObserver ==
  /\ ~crashed /\ At = "calling"
  /\ LET f       == Head(stack)
         missing == ~consumer[f.consumer].observed
         moved   == f.told # NoLocation /\ consumer[f.consumer].loaded # f.told
     IN  crashed' \in IF missing THEN {TRUE} ELSE {FALSE, moved}
  /\ stack' = [stack EXCEPT ![1] =
                 [@ EXCEPT !.at = "callback", !.consumer = None, !.told = NoLocation]]
  /\ UNCHANGED <<assetVars, loadVars, workVars, scheduled, posted, inTransaction,
                 resolving, resolveSeq, pauseCount, calls>>

ObserverReturns ==
  /\ ~crashed /\ At = "callback"
  /\ stack' = [stack EXCEPT ![1].at = "locked"]
  /\ UNCHANGED <<assetVars, loadVars, workVars, scheduled, posted, inTransaction, quietVars>>

-----------------------------------------------------------------------------
(* The worker queue, the remote module manager and the loaders.  A loader is *)
(* called after _mutex is released: requests it has begun are "loading".     *)

RemoteResourcesLoaded ==
  /\ ~crashed
  /\ \E id \in resolving :
       resolving' = resolving \ {id} /\ worker' = Append(worker, id)
  /\ UNCHANGED <<assetVars, loadVars, inHand, updateVars, resolveSeq, pauseCount, crashed, calls>>

(* What a resolution finds; only a remote one may be worth another try. *)
ResolvedTo(state, location) ==
  \/ state = "ready" /\ location = Found
  \/ state = "failedPermanently" /\ location = NoLocation
  \/ state = "failedRetryable" /\ location = NoLocation /\ kind = "remote"

(* onLoadingRemoteResourcesCompleted(), resolveLocalAssetLocationAndUpdate() *)
LocationResolved ==
  /\ LockFree
  /\ worker # <<>> /\ Head(worker) # Flush
  /\ worker' = Tail(worker)
  /\ IF asset.alive /\ asset.resolveId = Head(worker)
     THEN /\ \E state \in {"ready", "failedPermanently", "failedRetryable"},
               location \in {Found, NoLocation} :
               /\ ResolvedTo(state, location)
               /\ asset' = [asset EXCEPT !.state = state, !.location = location]
          /\ ScheduleAssetUpdate(FALSE)
     ELSE UNCHANGED <<asset, updateVars>>
  /\ UNCHANGED <<kind, removeUnused, present, consumer, joined, loadVars, inHand, quietVars>>

(* flushLoadRequests(): take the next request under the lock ... *)
FlushTake ==
  /\ LockFree
  /\ worker # <<>> /\ Head(worker) = Flush /\ inHand = <<>> /\ pauseCount = 0
  /\ pending # <<>>
  /\ pending' = Tail(pending)
  /\ LET r == Head(pending)
     IN  /\ inHand' = <<r, IF request[r].cancel THEN "cancel" ELSE "load">>
         /\ request' = [request EXCEPT ![r].result = IF request[r].cancel THEN "none" ELSE @]
  /\ UNCHANGED <<assetVars, made, flushScheduled, worker, updateVars, quietVars>>

(* ... cancel() or startLoadIfNeeded() without it ... *)
FlushCall ==
  /\ ~crashed /\ inHand # <<>>
  /\ request' = [request EXCEPT ![inHand[1]].loader =
       IF inHand[2] = "load" THEN IF @ = "idle" THEN "loading" ELSE @
                             ELSE IF @ = "loading" THEN "cancelled" ELSE @]
  /\ inHand' = <<>>
  /\ UNCHANGED <<assetVars, made, pending, flushScheduled, worker, updateVars, quietVars>>

(* ... until there is none or updates are paused. *)
FlushDone ==
  /\ LockFree
  /\ worker # <<>> /\ Head(worker) = Flush /\ inHand = <<>>
  /\ pending = <<>> \/ pauseCount > 0
  /\ flushScheduled' = FALSE
  /\ worker' = Tail(worker)
  /\ UNCHANGED <<assetVars, request, made, pending, inHand, updateVars, quietVars>>

ExpectedAlways(r) == asset.alive

(* onLoad() drops the answer otherwise. *)
Expected(r) == asset.alive /\ ~request[r].cancel

(* onLoad(): the answer of a loader, one of several, maybe after the request *)
(* was cancelled.                                                            *)
OnLoad(onMain, r) ==
  /\ CanCall(onMain)
  /\ request[r].loader # "idle" /\ request[r].answers < MaxAnswers
  /\ Expected(r)
  /\ \E result \in {"asset", "error"} :
       /\ request' = [request EXCEPT ![r].result = result, ![r].answers = @ + 1]
       /\ consumer' = [c \in ConsumerIds |-> IF c \in present /\ consumer[c].request = r
            THEN Answered(consumer[c], result, request[r].location) ELSE consumer[c]]
  /\ ScheduleAssetUpdate(onMain)
  /\ UNCHANGED <<kind, removeUnused, asset, present, joined, made, pending, flushScheduled,
                 workVars, quietVars>>

-----------------------------------------------------------------------------
MainThread ==
  \/ RunPostedUpdates \/ FinishUpdates \/ ResumeEndPause
  \/ UpdateNothing \/ RemoveManagedAsset \/ ResolveAssetLocation
  \/ \E c \in ConsumerIds :
       \/ RemoveAssetConsumer(c) \/ FailConsumer(c)
       \/ ShareRequest(c) \/ MakeRequest(c) \/ NotifyAssetConsumer(c)
  \/ CallObserver \/ ObserverReturns

WorkerThread == LocationResolved \/ FlushTake \/ FlushCall \/ FlushDone

Others ==
  \/ GetAsset \/ FlushUpdates
  \/ \E onMain \in BOOLEAN :
       \/ ObservableDestroyed(onMain) \/ AddAssetLoadObserver(onMain) \/ RemoveAssetLoadObserver(onMain)
       \/ SetResolvedAssetLocation(onMain) \/ RetryFailedAssets(onMain)
       \/ BeginPauseUpdates(onMain) \/ EndPauseUpdates(onMain)
       \/ \E r \in Requests : OnLoad(onMain, r)
  \/ RemoteResourcesLoaded

Next == MainThread \/ WorkerThread \/ Others

Spec == Init /\ [][Next]_vars

(* The main thread returns to its queue and the worker drains its own, and    *)
(* whoever paused updates, the remote module manager and the loaders do not   *)
(* all stop with something left to do; other calls are their callers' choice. *)
Fairness ==
  /\ WF_vars(MainThread)
  /\ WF_vars(WorkerThread)
  /\ WF_vars(RemoteResourcesLoaded \/ EndPauseUpdates(FALSE) \/ \E r \in Requests : OnLoad(FALSE, r))

FairSpec == Spec /\ Fairness

-----------------------------------------------------------------------------
TypeOK ==
  /\ kind \in {"url", "local", "remote"} /\ removeUnused \in BOOLEAN
  /\ asset \in [alive : BOOLEAN, observable : BOOLEAN,
                state : {"initial", "resolving", "ready", "failedPermanently", "failedRetryable"},
                location : Locations \cup {NoLocation}, resolveId : Nat]
  /\ present \subseteq 1 .. joined
  /\ joined \in 0 .. MaxConsumers
  /\ consumer \in [ConsumerIds ->
       [state : {"initial", "loading", "loaded", "failed", "removed"}, observed : BOOLEAN,
        notified : BOOLEAN, loaded : Locations \cup {NoLocation},
        request : Requests \cup {None}]]
  /\ request \in [Requests ->
       [count : Nat, load : BOOLEAN, cancel : BOOLEAN, loader : {"idle", "loading", "cancelled"},
        location : Locations \cup {NoLocation}, result : {"none", "asset", "error"}, answers : Nat]]
  /\ made \in Nat
  /\ pending \in Seq(Requests)
  /\ inHand \in {<<>>} \cup (Requests \X {"load", "cancel"})
  /\ worker \in Seq(Nat)
  /\ resolving \subseteq Nat
  /\ {resolveSeq, scheduled, posted, pauseCount} \subseteq Nat
  /\ stack \in Seq(Frame)
  /\ {flushScheduled, inTransaction, crashed} \subseteq BOOLEAN

(* A request counts the consumers that hold it, whatever interleaving of      *)
(* sharing, overriding and removal made it so; one that nobody holds is       *)
(* scheduled for cancellation, and is never given to a consumer again.        *)
RequestsCounted ==
  \A r \in Requests :
    /\ request[r].count = Cardinality({c \in present : consumer[c].request = r})
    /\ r <= made => (request[r].cancel <=> request[r].count = 0)

(* No consumer waits for, or holds, what was loaded from a location that is   *)
(* not the asset's any more: the answer to an earlier request comes too late. *)
FreshLoads ==
  \A c \in present :
    /\ consumer[c].request # None =>
         asset.state = "ready" /\ request[consumer[c].request].location = asset.location
    /\ consumer[c].state = "loaded" => consumer[c].loaded = asset.location
    /\ consumer[c].state = "loading" => consumer[c].request # None

(* An answer about the location that will be taken finds the asset waiting    *)
(* for it: the assertions of onLoadingRemoteResourcesCompleted() and of       *)
(* updateAssetLocation(), which have only the id to go by.                    *)
AnswersAwaited ==
  \A id \in resolving \cup {worker[i] : i \in DOMAIN worker} :
    id # Flush /\ asset.alive /\ asset.resolveId = id => asset.state = "resolving"

(* What is scheduled while nothing is paused will be performed: a task is     *)
(* posted, although only the first to schedule posts one and performUpdates() *)
(* leaves the lock, and its transaction, in the middle.                       *)
NoStrandedUpdate == scheduled > 0 /\ pauseCount = 0 => posted > 0

(* Nor is a request stranded: a load that has not begun, or that is to be     *)
(* cancelled, is in the queue of a flush that will run, unless pauses prevent *)
(* it, and whoever ends the last pause schedules one.                         *)
NoStrandedRequest ==
  /\ \A r \in 1 .. made :
       request[r].loader = (IF request[r].cancel THEN "loading" ELSE "idle")
         => \/ \E i \in DOMAIN pending : pending[i] = r
            \/ inHand # <<>> /\ inHand[1] = r
  /\ pending # <<>> /\ pauseCount = 0 => flushScheduled
  /\ flushScheduled <=> \E i \in DOMAIN worker : worker[i] = Flush

(* A load that was cancelled keeps no asset alive, even when the loader        *)
(* answers after it was.                                                       *)
CancelledKeepsNothing ==
  \A r \in Requests : request[r].loader = "cancelled" => request[r].result = "none"

(* Every observer that stays is told of its asset, or of its failure: there   *)
(* is always a later time when nobody waits.                                  *)
ObserversTold ==
  []<>(crashed \/ \A c \in present : consumer[c].observed => consumer[c].notified)

(* A consumer whose observer was removed leaves the asset.                    *)
RemovedConsumersLeave ==
  \A c \in ConsumerIds : c \in present /\ ~consumer[c].observed ~> crashed \/ c \notin present
=============================================================================
