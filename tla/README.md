# A TLA+ model of Valdi's runtime core

Valdi runs application code written in TypeScript on a JS thread and turns what
it renders into platform views on the main thread.  The C++ runtime that stands
between the two is where the hard behaviour is: queues drained by threads that
come and go, batches that nest inside flushes, calls that race with their own
deadlines, teardowns in the middle of all of it.  This directory models that
concurrent core, checks it with TLC and proves its main invariants with TLAPS.

Paths below are relative to the repository; `core/` stands for
`src/valdi_core/src/valdi_core/cpp/` and `runtime/` for
`src/valdi/src/valdi/runtime/`, both under `src/`.

## 1. Inventory

| Component | State it keeps | Operations | Interacts with | What makes it correct |
|---|---|---|---|---|
| `TaskQueue` (`core/Threading/TaskQueue.cpp`) | deque sorted by time and id, count of running tasks, concurrency limit, disposed flag, last news to the listener; one mutex, one condition variable | enqueue, asyncAfter, cancel, barrier/sync, runNextTask, dispose, setMaxConcurrentTasks, setListener | `ThreadedDispatchQueue`, `StandaloneMainQueue`, exit coordinator (listener) | order, exclusion of barriers, balanced count, no lost wakeup |
| `ThreadedDispatchQueue`, `DispatchQueue` | thread, its start and its teardown | sync, async, asyncAfter, cancel, safeSync, flushAndTeardown, teardown | owns a TaskQueue and a thread | the thread starts once, ends once; sync runs its function |
| `MainThreadManager` (`runtime/Utils`) | pending tasks with flush ids, batch count, executing count, idle callbacks | dispatch, dispatchSync, runNextTask, flushUpToNow, beginBatch/endBatch, onIdle, waitUntilQuiescent, clearAndTeardown | the platform's main dispatcher, JS thread, raster thread | no task stranded, no waiter asleep for ever, pumps complete and bounded |
| Deadline-bounded JS calls (`runtime/JavaScript/ValueFunctionWithJSValue.cpp`, `JavaScriptTaskScheduler.hpp`) | per call: state, promise; shared: count of overdue calls | call, time out, complete late, fail fast | any native thread and the JS dispatch queue | one winner per call, exact count, no side effect dropped |
| Throttled JS calls (same file) | sequence numbers, last parameters | call | JS dispatch queue | the newest parameters run |
| `JavaScriptRuntime` lifecycle | dispatch queue, context, workers, teardown flags | postInit, partialTeardown, requestFullTeardown, fullTeardown, destructor | JS thread, runtime manager | teardown once, nothing runs after it |
| `AssetsManager` (`runtime/Resources/AssetsManager.cpp`, `AssetLoaderRequestHandler`, `ManagedAsset`, `AssetConsumer`) | per asset: state, location, resolve id, consumers; load requests with their consumer counts; scheduled updates, pending load requests, pauses; transactions nested on the main thread | getAsset, add/remove observer, set location, retry, pause/resume, flush, perform updates, resolve, load, cancel | asset loaders, remote module manager, worker and main thread, the observers it calls back | stale answers ignored, requests counted, nothing scheduled is stranded, each observer told |
| `StandaloneExitCoordinator`, `StandaloneMainQueue`, `ValdiStandaloneRuntime` (`src/valdi/src/valdi/standalone_runtime/`) | what the coordinator believes of two queues, whether it is enabled; the main queue disposed | onJsQueueEmpty, onMainQueueEmpty, setEnabled, exitIfNeeded; runIndefinitely, exit; evalScript, destructor | TaskQueue listeners, script, main thread | exits when and only when there is nothing left |
| `GCDDispatchQueue` | Apple back end of DispatchQueue | as ThreadedDispatchQueue | libdispatch | as ThreadedDispatchQueue |
| `ResolvablePromise`, `AsyncGroup` | result, callbacks | fulfill, onComplete, cancel | everywhere | each callback called once |
| `ContextManager`, `Context` | contexts, pending render requests, flush counters | create, destroy, enqueueNextRenderCallback, flush | JS and main thread | renders flushed, none after destroy |
| `JavaScriptANRDetector` | pings per JS thread | start, stop, ping, detect | task schedulers | no false ANR |
| View node tree, layout, renderer | the tree | render requests | main thread under one lock | data, not control |
| snap_drawing: gestures, touches | recognizers and their states | touch events | view layers | one of the recognizers in conflict wins |
| TypeScript `Renderer`, `CancelablePromise` | virtual tree; promises | render, diff; cancel | JS thread only | data, sequential |
| Compiler, companion, CLI, drawing, web and platform layers | | | | batch programs and bindings |

Behaviours that are hard to test: a notification missed because several kinds
of wait share a condition variable; steps on either side of a lock (`enqueue`
reads `_disposed` before it, `doDispatch` posts after it, `clearAndTeardown`
sets a flag before it); reentrancy (tasks that dispatch, batch and pump from
inside a flush); a deadline that passes while the answer arrives; teardown with
work queued, being run, and being waited for; what is known of a queue being
older than the queue, because those who tell race with each other; a lock that is
released in the middle of a transaction, so that observers change what it is
about.  `PROJECT.json` lists them one by
one under `hazards`, each at its line.

## 2. Modules

| Module | Models | Kind |
|---|---|---|
| `OrderedExecutor` | what a serial dispatch queue promises | abstract specification |
| `TaskQueue` | `TaskQueue.cpp`, the handler loop of `ThreadedDispatchQueue.cpp` | detailed; implements `OrderedExecutor` |
| `ThreadedDispatchQueue` | `ThreadedDispatchQueue.cpp`, `DispatchQueue.cpp` | detailed; its deque is a `TaskQueue` taken at its word |
| `MainThreadManager` | `MainThreadManager.cpp` | detailed |
| `DeadlineCalls` | `dispatchAndWaitOnJsThread` and the circuit breaker | detailed; uses of the JS queue what `OrderedExecutor` promises |
| `AssetsManager` | `AssetsManager.cpp` and the classes of one asset | detailed |
| `StandaloneExit` | the exit coordinator, the two queues it listens to, the main thread of a command line program | composition of two queues and their users, each queue at the level of its critical sections |
| `MC<M>` | small sets of threads or calls for TLC | instances |
| `<M>_proofs` | inductive invariants and theorems | proofs |
| `TaskQueueExecutor_proofs` | `TaskQueue` implements `OrderedExecutor` | proofs, over those of `TaskQueue_proofs` |

Every module's header says what one action is; a definition's lines in the code
are in `PROJECT.json` under `map`.  A definition directly before another of a
like name (`DetachAlways` before `Detach`, `LowerBound` before
`UpperBound`, `EnqueueSilently` before `Enqueue`) is a mutated form used to test a property; no `Next` uses it.

**TaskQueue.**  `tasks`, `currentRunningTasks`, `empty`, ... are the members of
the class with their names.  A critical section of `_mutex` is one action and
includes the `notifyAll()` after it: until the notification the woken threads
could only have gone on sleeping, and stray wakeups are modelled.  What the code does outside the lock is a step
of its own: the read of `_disposed` and the choice of an execute time
(`EnqueueBegin`, `BarrierBegin`), the two steps of `dispose()`.  A thread's
`pc` says where it is: a worker loops, sleeps for a task or a turn, naps until a
time, or runs; a caller is in a call or inside its barrier.  The functions
themselves are the steps between `TakeTask` and `TaskFinish`, and `BarrierLocked`
and `BarrierFinish`: other threads interleave with them.  The clock advances by
`Tick`.  Waking by `maxTime` (the handler passes 100000 s) and spurious wakeups
are `StrayWakeup`.

**OrderedExecutor.**  The refinement mapping of `IsOrderedExecutor` takes as
pending what is in the deque and not running (a barrier stays in the deque while
it runs), as running the work of the threads inside a function, as spent every
other id given out.

**ThreadedDispatchQueue.**  The life of the thread around the queue: the first
enqueue and `startThread()` are two steps, `fullTeardown()` is four (the two of
`dispose()`, taking `_mutex`, the join, during which `_mutex` is held), and the
thread itself is `unborn`, loops, runs a task, ends one, or has `exited`.
Callers and the task being run submit, wait and tear down; a caller inside the
function of a `sync()` may too, which is `flushAndTeardown()`.  `Init` chooses
the mode of `sync()` (`syncByTask` is `_disableSyncCallsInCallingThread`).
Waits are guards, as `TaskQueue` shows that no wakeup is lost, and a task enters
the deque at any place, which stands for any delay.  Nothing is assumed of who
tears down, or when: `JavaScriptRuntime` does it in tasks of the queue
(`teardownOnJsThread()`), inside a `sync()`, again in its destructor
(`JavaScriptRuntime.cpp:388`), and `~ThreadedDispatchQueue` once more.  `letGo` is
history: the task, if any, that forgot the thread it runs on.

**MainThreadManager.**  The main thread is a call stack of frames: a posted
flush, a pump (`flushUpToNow`), the flush of `endBatch`, a task body, an open
batch, an idle callback, in any nesting the class allows.  Other threads
dispatch (synchronously or not), ask for idle callbacks, wait for quiescence and
tear down.  `mainQueue` is the platform's dispatcher, first in first out.
Whether a thread is in a batch allow scope is a choice of each dispatch.
`upTo` in a frame and `dispatched`, `finished` are history.

**DeadlineCalls.**  No lock is shared: an action is one atomic operation, one
operation on the future or promise, or one on the JS dispatch queue.  `kind` is the policy of
a call, or `control` for the path the killswitch selects, which waits without
claiming.  A deadline may pass at any moment.  `overdue` wraps at `Width`.

**AssetsManager.**  One asset key; what several share is the lock and the two
queues of work, which one key uses as several would.  A critical section of
`_mutex` is one action.  The main thread is a `stack` of frames: a transaction of
`performUpdates()` that holds the lock (`locked`), let go of it to resolve a
location (`released`), is about to call an observer (`calling`) or is inside one
(`callback`), and an `endPauseUpdates()` that flushes first (`endPause`).  From
inside an observer the manager may be called again, so that transactions nest.
One update of a transaction is one action, which is one pass of
`updateAsset()`; a transaction has a count of updates, as `scheduled` has.
Other threads make whole calls (`onMain` false).  `NextConsumer` is
`getNextConsumerToUpdate()` with its early return and its `hasMore`.  A request
(`AssetLoaderRequestHandler`) knows its consumers' count, whether a load and a
cancellation were scheduled, what its loader does and the result it has;
`pending`, `flushScheduled`, `inHand` and the `Flush` entries of `worker` are how
it gets to the loader: `inHand` is what `flushLoadRequests()` took under the lock
and acts on without it.  A loader answers `OnLoad` at any time after it began,
also after it was cancelled; the remote module manager answers resolutions in
any order.  A use of what a callback removed (`CallObserver` dereferences the
observer and a reference to the loaded asset after the lock was released) sets
`crashed`, certainly for a missing observer, possibly for a dangling reference;
nothing more is asked of a process that crashed.

**StandaloneExit.**  The JS and the main queue are counters of tasks with
`_empty`, as `TaskQueue` has them: `Enqueue` and `QueueEmpty` are its critical
sections that tell the listener.  The listener's call posts a note to the
coordinator's own queue while the first queue's mutex is held, in two steps:
`Tell` takes the note's place in the order of the clock, `PostNote` inserts it
(`TaskQueue::enqueue` reads the clock before it locks).  A queue with an unposted
note is locked (`Unlocked`), and the thread that posts is not available for
anything else (`Able`).  `HandleNote` is one task of the coordinator with
`exitIfNeeded()`; it takes the first note that is inserted, which need not be the
first of the clock.  The main thread goes through the places of `at`: the
constructor sets the two listeners one after the other, `evalScript()` enables
the coordinator and runs the script inside a barrier of the JS queue, then the
loop of `runIndefinitely()`, then the destructor.  Tasks of both queues, the
script, and threads the coordinator does not know submit; the script cancels
timers (the queue is then empty and nobody told), waits for a task of the main
queue (`awaits`), calls `process.exit()` or fails.  `interrupted` records that a
thread the coordinator does not know submitted to a queue told empty, which it
cannot see in time; `idleExit` that it ended the program.

## 3. Runs and what they show

| Run | Checks | Bounds |
|---|---|---|
| `TaskQueueSerial` | types, count, exclusion, `EmptyIsIdle`, refinement of `OrderedExecutor` (order among it), end of the handler | 2 callers, 1 worker, 3 tasks or barriers, 2 instants, disposal |
| `TaskQueueConcurrent` | every task and every barrier leaves the queue | 2 callers, 2 workers, 3 tasks, 2 instants, limit 1 or 2, no disposal |
| `TaskQueueSafeSync` | *violated*: a barrier that returned ran its function | 2 callers, 1 worker, 2 tasks |
| `ThreadedDispatchQueue` | the thread starts once, no task runs once a teardown returned off the thread but one that tore down itself, `sync` and teardown return | 2 callers and the thread, 3 tasks or barriers, 3 teardowns, both modes of `sync` |
| `ThreadedTeardownDrains` | *violated*: when a teardown has returned off the thread, no function of a `sync` is left on it | 1 caller and the thread, 2 tasks, 2 teardowns |
| `MainThreadManager` | types, no stranded task, no missed wakeup, assertions of `endBatch`, pumps complete and bounded, `dispatchSync` returns after its task | main thread and 2 others, 2 tasks, 2 batches, pumps or idle callbacks, teardown |
| `MainThreadLiveness` | every task runs, every idle callback is called | main thread and 1 other, 2 tasks, 2 calls |
| `MainThreadIdle` | *violated*: no task is pending when an idle callback runs | main thread and 1 other, 2 tasks, 1 call |
| `DeadlineCalls` | the counter is exact and does not wrap, one side wins each race; callers return, side effects happen, the breaker closes | 3 calls of any policy, teardown |
| `AssetsManager` | requests counted, nothing stale held, answers find the asset waiting, no update and no request stranded, a cancelled load keeps nothing, observers are told | a key of each kind, 2 locations, 2 consumers, 2 resolutions, 4 requests, 3 calls, 1 answer per request, calls from 1 frame deep |
| `AssetsRemovedConsumers` | *violated*: a consumer whose observer was removed leaves the asset | a local key, 1 location, 2 consumers, 1 resolution, 3 calls |
| `StandaloneExit` | an exit finds everything idle, no queue is lost track of, the program ends, its destructor returns | 4 tasks in both queues, any number of timers cancelled, notes, exits |

Why the bounds are enough.  Three entries in the deque are one being run (or a
barrier at the front), one waiting, and one inserted before or after it; two
instants give equal, earlier and later times; two callers give two barriers, or
a barrier against an insertion, a cancellation or a disposal; three
teardowns are one by a task and two by callers, of which one joins and one waits
for `_mutex`, or one inside a `sync()` and two after it.  Two tasks and two
calls on the main thread give a batch inside a flush, a pump inside a batch
or inside a task of a pump, a nested batch, and a task dispatched while another
is in any of them; the second thread is the one that waits while the first
dispatches or tears down.  Three calls are one late, one racing and one that asks the breaker;
`Width` is 8, above the number of calls as 2^32 is.  Two consumers share a
request, or hold two because the location was overridden between them; two
resolutions are one that is answered late and one that is awaited; three calls
are two that set a case up and one that comes in the middle of it, from inside an
observer or from another thread (getAsset and the ends of pauses are not counted).
Four tasks are the JS runtime's initialisation, a timer, a task that it sends to
the main queue and what that sends back; the notes of both queues then cross in
every order.  The theorems of section 5 remove these bounds for what they state.

`CHECK_DEADLOCK FALSE` is said where the system does stop: a disposed queue
whose threads have ended, a bounded number of dispatches all of them run, calls that have all
returned, a manager nobody calls, a program that ended.  `TaskQueueConcurrent`, without disposal, checks for deadlock.

### Disagreements with the documentation

- `TaskQueueSafeSync`: `safeSync()` is documented (`DispatchQueue.hpp:32`) to
  "Return whether the function executed succesfully"; it returns true although
  `barrier()` gave up when `dispose()` emptied the deque under it.
- `ThreadedTeardownDrains`: the destructor of `JavaScriptRuntime` tears its queue
  down a second time to "Force the (idempotent) drain+join here, before any member
  is destroyed.  Off the JS thread this joins" (`JavaScriptRuntime.cpp:381`).  When
  `sync()` goes by a task (`_disableSyncCallsInCallingThread`), the first teardown is
  in that task and has let go of the thread it runs on; once the task has set the
  promise of its caller, the second finds nothing to join and returns while the
  task is still ending (`ThreadedDispatchQueue.cpp:62` then writes a member of the
  queue).  In the other mode the first teardown is inside a barrier, whose caller
  counts as current: the thread is not joined either, but runs nothing any more.
  `TeardownQuiesces` says that these are the only ways: the one task that a teardown
  can leave running is a task that tore the queue down.
- `MainThreadIdle`: an idle callback is documented to run "when the main thread
  is idle" (`MainThreadManager.hpp:79`); `doDispatch()` posts its flush after it
  released the lock, so an idle flush posted in between precedes that flush, with
  a sequence number that already counts the task.
- `AssetsRemovedConsumers`: "We have a URL ManagedAsset with no consumers and no
  observables, we can remove it from our index since no one is currently
  interested in it" (`AssetsManager.cpp:290`), and a test asserts that the consumer
  of a removed observer leaves (`test/runtime/AssetsManager_tests.cpp:770`).  When
  `getNextConsumerToUpdate()` has chosen an observed consumer to be told and then
  meets a removed one, it notes that there is more to do (line 509) and forgets it
  at line 542: the removed consumer stays, and its asset.

Not a run, but worth knowing of `DeadlineCalls`: the count of overdue calls is
raised before the race with the answer is decided and lowered when it is lost,
so a call can fail fast for a moment though every late call was completed
("While any call is overdue the JS thread is provably not keeping up",
`JavaScriptTaskScheduler.hpp:168`).

## 4. Fairness

- `TaskQueue`: threads inside a call go on (the functions they run return),
  handlers keep looping, time passes.  Stray wakeups are never assumed: liveness
  must follow from the notifications.  Whether a caller calls is its choice.
- `ThreadedDispatchQueue`: the functions return, the handler keeps looping,
  threads inside a call finish it when they can.  `SyncReturns` excepts a
  disposed queue, whose tasks are dropped; `TeardownReturns` excepts a task that
  waits for the `_mutex` of the thread that joins it (`JoinsItself`), a deadlock
  that the class leaves to its users to avoid.
- `MainThreadManager`: the main thread keeps returning to its event loop and
  the event loop keeps draining the dispatcher; threads inside a call of the
  class finish it.  That a waiter times out is never assumed.
- `DeadlineCalls`: callers and the native code of the JS thread go on.  Nothing is
  assumed of JS code, which may never return: `CallsReturn` holds all the same.
  `EveryCallRuns` and `BreakerCloses` name their hypothesis, `Responsive`: the JS
  thread takes its tasks and JS code returns.
- `AssetsManager`: the main thread goes on with its transaction and returns to
  its event loop, observers return, the worker drains its queue; the remote module
  manager, loaders and whoever paused updates do not all stop with something left
  to do.  No other call is ever assumed to be made.
- `StandaloneExit`: the JS and the main thread are scheduled and their tasks end,
  a thread that took a note's place inserts it, the coordinator handles its notes.
  That anybody submits, cancels or exits is never assumed.  `EventuallyExits`
  names its hypothesis: the coordinator has not missed the state of a queue, which
  it has when a queue became empty before its listener was set and nothing is ever
  submitted to it; `TeardownEnds` excepts a JS thread that waits for a task that
  the main queue dropped.

## 5. Proofs

All theorems hold for every value of the constants that satisfies the module's
named assumption (finite disjoint sets of threads, natural bounds, fewer calls
than the counter's range).

**TaskQueue_proofs.**  `TypeOK` is inductive.  With it every step either leaves
both the set of threads inside a function and `_currentRunningTasks` alone, or
adds one thread and one unit, or removes one and one (`Counted`); so
`RunningCount` is an invariant.  `BarrierExclusive` needs
the limit to be one (`SerialLimit`, true of every queue in the tree: nobody
calls `setMaxConcurrentTasks`): then at most one thread is inside, since a task
needs a count below one and a barrier a count of zero.  The hypothesis is
necessary: with a limit of two a task with an earlier execute time overtakes a
running barrier.  `QueueSorted` follows from two lemmas, that an insertion at the
upper bound and a removal keep a deque sorted; its invariant adds that queued ids
are at most the counter.  `EmptyIsIdle` is an invariant of every queue with one
handler thread (`OneHandler`), which every `ThreadedDispatchQueue` has; it is
false with two, of which one may find the deque empty while the other runs a task.

`NoLostWakeup` says that the one condition variable behind three kinds of waits
loses no wakeup, for any number of threads and a limit that changes at any time: no
handler sleeps while a task at the front may start, no nap ends after its time, no
barrier sleeps in its turn or beside an emptied deque, and no handler sleeps in a
disposed queue but between the two steps of `dispose()`.  Every step that makes one of
those things true notifies, with three exceptions, and the theorem is about them.  A
handler that takes a task notifies nobody: what it saw says that no handler
sleeps, the next task is due no sooner (`QueueSorted`), and the barriers that
sleep are still in the deque and wait for the count (`Barriers`).  A barrier
inserted in front is nobody's turn but its own.  `dispose()` sets its flag without
the lock, but has its second step to come.  `TasksLeave` and `HandlersExit` are
the liveness properties that TLC checks of the same wakeups.

**TaskQueueExecutor_proofs.**  `Spec => IsOrderedExecutor` for `SerialLimit`, which
is what users of a dispatch queue rely on: tasks start one at a time, when due,
in the order of time and id, each once, and cancelled or dropped ones never.  The
invariant `Serial` has `Sorted` and at most one thread inside, and adds that ids in
the deque are distinct (`Unique`), that a task that runs has left the deque while an
entry with the id of a barrier is a barrier's (`Started`), and that a
barrier is due when it is inserted (`Stamped`), which lets one be submitted and
started in one step.  With it, seven lemmas turn what a step does to what the
executor sees (`Seen`: pending, running and spent ids) into a step of `OrderedExecutor`
or a stutter, and one lemma per operation shows which: `dispose()` and a
cancellation discard, a barrier that finds the deque emptied passes, `BarrierFinish`
removes an entry that was not pending any more.

**ThreadedDispatchQueue_proofs.**  The invariant has three parts over `TypeOK`.
`OneRuns`: who runs a function is unique and counted, so a caller inside a
`sync()` knows that the thread runs nothing.  `OneStarts`: as long as `first` is
set nobody starts the thread, and after that one thread does.  `OneHolds`: a
teardown past its first step has disposed the queue, and a thread that nobody
holds is not born or takes no task any more, and runs one only when that task itself
let go of it.  The last is why `TeardownQuiesces` holds though a teardown may find no
thread to join: who finds none after a barrier let go of it finds it idle, and
who finds none after a task did finds that task, or nothing, on it.

**MainThreadManager_proofs.**  The invariant ties the counters to the call
stack:
`Counted` (executing tasks are the frames of bodies, `_batchCount` is the number
of batch frames), `Nested` (a batch being flushed is the outermost one, nothing
is called while it closes), `Bounded` (what each frame knows of the pending
tasks: a pump's ids are below the current one, so that what is stamped later
is not for it; what it must run is exactly what was dispatched before it; nothing is
left for a closing batch but what was stamped later), with `PendingSorted`,
`NoStrandedTask` and `NoMissedWakeup` themselves.  From it follow
`BatchesBalanced`, `PumpsAreComplete` and the action property `PumpsAreBounded`.
`Counted` is needed because `endBatch` assigns zero rather than decrements, and
`Nested` because that is right only for the outermost batch; `Bounded` because
whether a flush reaches a task depends on ids stamped while it runs.
`SyncTaskRan` needs the second invariant `Awaited`.  `Asked`: a flush that somebody
waits for is posted, once, or is the frame at the bottom of the stack, its
thread waits, and it is for that thread's flush id.  `Followed`: the task of a
thread that posts or waits is still pending with an id no later than that,
on the stack as a body, finished, or the manager was torn down.  When the flush at
the bottom ends, nothing with such an id is pending (the list is sorted, so its
first task would be) and no body is on the stack, so the task has finished.

**DeadlineCalls_proofs.**  The invariant `Protocol` relates where a caller is, its call's
state, its task and the promise: at most one task carries a call, a completed
state precedes a set promise, a late report follows a claimed timeout.  With it
each step changes the set of owed calls and the counter by the same one, so
`OverdueCount` is exact and the modulo never acts; `OneWinner` is part of it.

**AssetsManager_proofs.**  The invariant has four parts, each about a kind of
state, and `TypeOK` is spread over them.  `UpdatesOK`: each frame of
`endPauseUpdates()` has a pause left to end (`Paused`), the current transaction is
the innermost frame (`Current`), so `endPauseUpdates()` and the first to
schedule between them leave no update stranded (`NoStrandedUpdate`).
`ResolutionOK`: resolve ids in flight are distinct and were given out
(`QueueOK`, `Identified`), so that an answer with the asset's id is the one it waits for
(`AnswersAwaited`).  `LoadsOK`: requests not yet made are nowhere (`Unmade`), and
what a flush took in hand, and may find changed, is to be loaded unless
its cancellation is pending, or cancelled and empty (`Taken`); from it
`NoStrandedRequest` and `CancelledKeepsNothing`.  `ConsumersOK`: a consumer holds a
request only while the location is known (`Holding`), with `FreshLoads` and
`RequestsCounted`, the last by cardinalities of sets of consumers.  They need one
another: the consumers need `AnswersAwaited`, for an answer that found the
asset ready would change a location under the requests made for the old one, and
the requests need `RequestsCounted`, for one is cancelled exactly when its last
consumer lets go.

**StandaloneExit_proofs.**  The question is why an exit decided on old news finds
everything idle now.  The invariant has six parts over `TypeOK`.  `Working`: a
queue told empty has no task and executes none, and the barrier of the JS queue is
exactly the script.  `Views`: what the coordinator will believe of a queue once it
has handled its notes is what the queue told last.  `InTurn`: notes about one
queue are inserted in the order of their places, since the queue stays locked until they
are.  `Unheard`: the main queue is not known to be empty before its thread loops
on it.  `Causes`: at every point before a note that wakes a queue up, the notes
up to that point leave some queue known to be busy, for who wakes
one queue up works for the other (or is the script) and cannot end before its note
is inserted.  So when the coordinator believes both queues empty (`Decision`), no
note on its way wakes one up, and none can be busy without one.  `Over`: after the
exit nobody is left to submit, but threads it does not know.  `Busy`, what a
prefix of the notes says of a queue, is kept by five lemmas about adding,
posting and removing a note; `Effects` reduces every step of the system to what it
does to the notes.  From the same invariant `ExitsWhenIdle` and the action
property `KeepsTrack` follow, for any number of tasks.

`QueueSorted`, `NoLostWakeup` and `PendingSorted` are proved and checked by no run of
their own: they hold in every state TLC reaches of the runs of `TaskQueue` and
`MainThreadManager` by these theorems.

Every safety property that a run checks, and the refinement, is now a theorem.  Only
model-checked: liveness (the prover has no fairness or ENABLED), that is `HandlersExit`,
`TasksLeave`, `SyncReturns`, `TeardownReturns`, `TasksRun`, `IdleCallbacksRun`,
`CallsReturn`, `EveryCallRuns`, `BreakerCloses`, `ObserversTold`,
`EventuallyExits` and `TeardownEnds`; and the four violations.

## 6. Not modelled

- In `TaskQueue`: `setListener()`; here one listener is told of every change.
  `flush()` and `flushUpToNow()` are loops of `runNextTask()`.
- In `ThreadedDispatchQueue`: `cancel()` and `setListener()`, which go to the
  `TaskQueue`; the thread's QoS class and `hasThreadRunning()`; `_runningSync`,
  an unsynchronized flag that selects a metric; the run loop of iOS; `sync()`
  called without `safeSync()` on the queue's own thread, which deadlocks; a
  `Thread` that is forgotten before it has begun, which `~Thread` joins.
- In `MainThreadManager`: the record of the main thread's id, the killswitch of
  the raster fence, a second concurrent `clearAndTeardown()`, the run loop mode
  of iOS.
- In deadline calls: calls made on the JS thread itself (no race), the statistics
  `_fastFailedDeadlineCalls` and lock tracking, throttled and promise calls.
- In `AssetsManager`: other keys (what they share is the lock and the queues),
  `createAssetWithBytes()` and its store, `onAssetCatalogChanged()` and the sizes an
  observable has, the payload cache, the listener of the manager, metrics.  The
  expiry of the last reference to an observable and `onObservableDestroyed()` are
  one step, and so are an unlock and the post that follows it; the update list does
  not name its keys.
- In `StandaloneExit`: the exit code, the path of the hot reloader, which has no
  coordinator, the debugger, the coordinator's own destructor, what the
  queues order by time, and what reaches the JS queue before the script does
  (`setValueToGlobalObject()`).  A script that fails leaves its barrier and disposes
  the main queue (`exit(1)`) in one step.
- `JavaScriptRuntime`'s teardowns and workers and the throttled calls: their queue
  is modelled; the contexts and modules they destroy are not.
- Components marked `not_modelled` in `PROJECT.json`, each with its reason.

## 7. Plan

1. Done: `TaskQueue` with `OrderedExecutor`, `ThreadedDispatchQueue`,
   `MainThreadManager`, `DeadlineCalls`, `AssetsManager`, `StandaloneExit`; their
   runs; the theorems above.
2. Proofs: for the waits of `StandaloneExit`'s main thread and of
   `ThreadedDispatchQueue` what `NoLostWakeup` is for `TaskQueue`: the safety half
   of their liveness.
3. Next modules: `JsRuntimeLifecycle` (partial and full teardown, the destructor,
   workers, over the queue and its thread), `ThrottledCalls` (the newest
   parameters run, from several threads), `ResolvablePromise`, `ContextManager`.

## 8. Running

`tlc -config TaskQueueSerial.cfg MCTaskQueue` (and likewise for every run of
`PROJECT.json`); `tlapm TaskQueue_proofs.tla` (and likewise) for the proofs.  The
longest runs, `StandaloneExit` and `DeadlineCalls`, take about two minutes; the
longest proof modules, `MainThreadManager_proofs` and `AssetsManager_proofs`, some
minutes each.
