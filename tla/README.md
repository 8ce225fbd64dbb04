# A TLA+ development of lutask

lutask is a C++ library of cooperative fibers taken from Boost.Context and
Boost.Fiber. Each OS thread has a scheduler with a main context, a dispatcher
context and worker contexts; a policy object keeps the ready queue, either one
queue per thread (`RoundRobinPolicy`) or one static queue for all threads
(`SharedWorkPolicy`). On top there are joins, a condition variable, sleeps, and
tasks with futures. It builds with MSVC only (`concurrent_queue.h`).

Paths below are relative to the repository.

## Inventory

| Part | State | Operations | Properties that make it correct |
|---|---|---|---|
| Context (`src/Context.cpp`, `include/lutask/Context.h`) | continuation `c_`, `terminated_`, `waitList_`, `tp_`, reference count, thread-local `active_` | Resume (three forms), Suspend, SuspendWithCC, Join, Terminate, Wake, Attach, Detach | a continuation is used once; a live context is always somewhere from where it is resumed; a join returns after the end of the fiber, and does return |
| Scheduler (`src/Scheduler.cpp`) | `workerQueue_`, `terminatedQueue_`, `sleepQueue_`, `mtx_`, `shutdown_` | Dispatch, Terminate, Yield, YieldOrigin, WaitUntil, Suspend, attach and detach, destructor | the dispatcher always gets its turn; at shutdown all work is processed and the destructor finds its queues empty |
| RoundRobinPolicy | `readyQueue_`, `flag_` | Awakened, PickNext, SuspendUntil, Notify | fair; wakes up for the first sleeper |
| SharedWorkPolicy | static `readyQueue_`, `localQueue_` | the same, AwakenedAsync | a context is on one thread at a time though it is passed between threads |
| WaitQueue | a queue of contexts | SuspendAndWait, NotifyOne, NotifyAll | nobody is woken twice or forgotten |
| Fiber, this_fiber | the handle `impl_` | launch (Post, Dispatch, Async), Join, Detach, Yield, YieldOrigin, sleep | |
| ConditionVariableAny | `m_`, a wait queue | Wait, NotifyOne, NotifyAll | no wake-up is lost |
| SharedState, TaskObject, PackagedTask, Future | `ready_`, storage, exception, waiters | Run, SetValue, SetException, Get | satisfied once; every getter gets that result, and gets it at last |
| Async | none of its own | launches a fiber that runs a task | |
| FiberContext | the continuation in each handle, the stacks | create, Resume, ResumeWith, move, destroy, exit | a continuation is jumped to once; each stack is unwound and freed once, not by its own fiber; none gets out of reach |
| intrusive_ptr | a count in each context and shared state | copy, move, swap, reset, release | the count is the number of pointers; who destroys is alone |

Parts call each other directly: Fiber calls Context, Context calls Scheduler,
Scheduler its policy, and a policy hands back contexts that Context resumes.
Fibers of one thread share everything without locks and are never preempted;
threads share `SharedWorkPolicy::readyQueue_`, condition variables, shared
states, and the contexts they pass to each other.

The hard behaviours are listed as hazards in `PROJECT.json`, each at its line:
contexts that get into two queues or into none, the mutex that `Terminate`
leaves locked, sleepers that are scheduled twice, the shutdown hand-shake, runs
and futures that race, what two threads do to one context, stacks that unwind
each other, and counts that several threads change.

## Modules

| Module | What it is |
|---|---|
| `FiberLifecycle` | abstract: the life of a context on threads, without queues |
| `RoundRobinScheduler` | one OS thread under RoundRobinPolicy, every context and queue of it; the properties and the mapping to `FiberLifecycle` |
| `RoundRobinInvariant` | the inductive invariant of that thread |
| `RoundRobinProofs` | theorems about that thread |
| `RoundRobinRefinement` | the proof that it implements `FiberLifecycle` |
| `MCRoundRobin` | its instance for TLC (symmetry of the workers) |
| `OnceCell` | abstract: a cell written once and read by many |
| `TaskFuture` | one task, the runs that may satisfy it and the futures that wait; its invariant and the mapping to `OnceCell` |
| `TaskFutureProofs` | theorems about it |
| `MCTaskFuture` | its instance for TLC (where the fibers of the calls may run) |
| `SharedWork` | several OS threads, each under SharedWorkPolicy or RoundRobinPolicy, that pass, notify and join each other's contexts; the mapping to `FiberLifecycle` |
| `SharedWorkInvariant` | the inductive invariant of those threads |
| `SharedWorkProofs` | theorems about them |
| `SharedWorkRefinement` | the proof that they implement `FiberLifecycle` |
| `QueueLemmas` | what appending, taking the head and concatenating do to queues, for both schedulers |
| `MCSharedWork` | its instances for TLC (which calls the programs make, symmetry of threads and workers) |
| `FiberContext` | the stacks of one thread and the handles that name them |
| `FiberContextProofs` | theorems about them |
| `MCFiberContext` | their instance for TLC |
| `IntrusivePtr` | reference counts and pointers on several threads |
| `IntrusivePtrProofs` | theorems about them |
| `MCIntrusivePtr` | their instance for TLC |

### RoundRobinScheduler

Fibers are cooperative, so everything between two context switches is one step.
An action is an API call of the running fiber up to the switch it ends in, the
rest of a call after the fiber is resumed, or one turn of the dispatcher's loop.

| Code | Model |
|---|---|
| `ContextInitializer::active_` | `active` |
| `Context::c_` is not null | `saved[c]` |
| `readyQueue_`, `workerQueue_`, `terminatedQueue_`, `sleepQueue_` | `ready`, `workerQueue`, `terminatedQueue`, `sleepQueue` |
| `waitList_` of each worker, the condition variable's queue | `waitList`, `cond` |
| `Scheduler::mtx_` is locked (always by this thread) | `mtx` |
| `Fiber::impl_`; inside `Fiber::Join` on w | `handle`; `joining[c] = w` |
| `shutdown_`, `flag_`, the place in `Dispatch` | `shutdown`, `flag`, `loop` |
| `tp_`, the steady clock | `tp`, `now` |

`Resume`, the operator every switch goes through, does what the lambdas of
`Context::Resume` do: it saves the active context, uses up the next one's
continuation, and then schedules the context that asked for it. `Terminate`
covers `Context::Terminate` and `Scheduler::Terminate` with the lock that is
never given back. `DispatchTurn` covers a whole turn: Notify, the terminated
queue, the due sleepers and the switch or the suspension. `halted` says why a
thread can not go on: it blocks on `mtx_` ("mutex": `std::mutex` locked by its
owner deadlocks, or throws inside a noexcept function), or it dereferences a
null context or resumes one without a continuation ("null", "crash").

The dispatcher checks `mainContext_ == ctx` for sleepers only by `assert`
(`src/Scheduler.cpp:53`); the model follows the code that goes on after it.

Assumed of programs: a joinable `Fiber` is not destroyed (that is
`std::terminate`); a fiber holds the lock it passes to `Wait` only up to the
`Wait`, so it never blocks its thread; functions of fibers do not throw; a
condition variable is not destroyed while somebody waits. One condition variable
is modelled. `LaunchBlocked` stops before the contents of the half-made fiber.

### SharedWork

The same calls on several threads. A step is what a thread does between two
accesses to data of others: `at[t]` is the place between them. `PickNext`
(`rqueueMutex_` held, then `Attach`), the switch with its lambda (`Switch`), each
wake-up of a NotifyAll, and the two halves of `Join` (the read of `terminated_`,
and `waitList_.SuspendAndWait`) are steps of their own.

| Code | Model |
|---|---|
| `SharedWorkPolicy::readyQueue_` (static) | `shared` |
| `localQueue_`, or `readyQueue_` of a RoundRobinPolicy | `own[t]` |
| `Context::scheduler_`, `originScheduler_` | `home[c]`, `origin[w]` |
| `Scheduler::workerQueue_`, `mtx_`, `shutdown_` | `attached[t]`, `mtx[t]`, `shutdown[t]` |
| `ConditionVariableAny::m_` is held by thread t | `condLock = t` |
| what PickNext returned; Resume's `readyCtx` | `chosen[t]`, `back[t]` |

`Schedule` is `Awakened` of either policy: a worker is detached and shared, a main
or dispatcher context stays with its thread. `CondWait` leaves with `m_` held,
and `Switch` gives it back once the waiter is saved. `suspend_` is false, as
every user of the policy leaves it, so the dispatcher of a sharing thread never
sleeps; one under RoundRobinPolicy does (`"idle"`), and nobody but `~Scheduler`
notifies it. `halted` also has "freed" (a context is woken whose scheduler was
destroyed) and "race": `Touches` says in which unlocked `std::list` or
`std::queue` each thread's next step works (`CallTouches` for a call that a fiber may
make), and two threads in one of them end
the modelled behaviour, since anything may follow. `AllCalls` names the calls;
`Calls[c]` are those that a program has its fiber c make.

`YieldOrigin` and `Join` are left out of `sw_safety`: the first breaks the
promises of the queues (see the findings), and what a join across threads may
do is what `LateJoinsCrossThreads` says of it. Sleeping is in `RoundRobinScheduler`
only.

### FiberContext

| Code | Model |
|---|---|
| the stack that runs | `running` |
| `fctx_` of each handle, `t.fctx` in FiberEntry's frame | `fctx`, by slot |
| the handle the result of a jump is assigned to | `dest` |
| a stack waits in FiberEntry, is in its function, has left it, is deallocated | `mode` |

A slot is a handle variable of the program, the parameter of a stack's function,
a temporary that is about to be destroyed, or `t.fctx`. `Unwind` is the
destructor of a handle: FiberUnwind throws `forced_unwind` on the stack it names,
whose frames are destroyed (`DestroyParam`, which may unwind further stacks), and
which frees itself through FiberExit on the stack it goes on to (`Exit`). `Move`,
`Create`, `Drop` and `Resume` leave the old continuation of the handle they
write to in that temporary. `halted` names two ends: the thread's own stack is
unwound, where nothing catches `forced_unwind`, and a stack ends without a
continuation to go to, which FiberEntry asserts not to happen.

Assumed: functions do not catch `forced_unwind`, and `ResumeWith` gets the lambda
that `Context::Resume` gives it, writing into an empty handle or the one resumed.

### IntrusivePtr

A step is one atomic operation on a count with the assignments to the thread's
own pointers around it; `GetFuture` alone makes its two increments in one step,
which nothing can tell apart, since the pointer they start from is held throughout. `First` and `Second` hold what a call has yet to
release: `Move` has one temporary, `MoveByCopy` (FutureBase's moves) and a
`GetFuture` raise the count and lower it again. `Release` is `fetch_sub` and its
test, `Destroy` what follows. A pointer is used by one thread at a time (`Pass`
hands it over, as a fiber takes the task it runs along). Worker and main contexts
are constructed with a count of one (`Extra`), which nobody gives back: they are
never freed. Shared states are not freed by their last release either.

### TaskFuture

Each call of `TaskObject::Run`, `Future::Get` and `PackagedTask::Get` (`Peekers`) is
made by a fiber of its own; each getter has a valid future. `Abandon` is a task
that is destroyed before its run. `SharedState::mtx_` is held only within a
step: `SetValue`, `SetException` and `GetOrWait` are its critical sections, and
the notification (`Notify`) comes after the mutex was given back, as in
`MarkReadyAndNotify`. `SetValue` may fail because the state is ready or because
the value's move constructor throws; both lead into the handler of `Run`.
`Read` and `Clear` are the move in `Future::Get`, which runs without the mutex:
two futures of one task may interleave there. `Future::Get` drops its state when
it has its answer, `PackagedTask::Get` only reads.

A fiber inside `SharedState` keeps its OS thread (`Inside`, `Free`), because the
mutex and the condition variable are those of the standard library. `Home[c]`
is the set of threads that serve the ready queue the fiber is in: one thread
under RoundRobinPolicy, all sharing threads under SharedWorkPolicy. Only in the
task's function may a fiber move to another of them.

## Runs

| Run | Instance | Shows |
|---|---|---|
| `rr_safety` | 3 workers (symmetric), every call but sleep; 41,676 states | a context is in exactly one place, every switch is good, Join tells the truth, `~Scheduler` goes on with no worker and no ended fiber left, the proofs' invariant holds, and the thread implements `FiberLifecycle` |
| `rr_liveness` | 2 workers; 4,630 states | ready contexts get the thread; joiners of an ended fiber return; `~Scheduler` ends, unless an attached fiber waits for ever or the thread halts |
| `rr_sleep` | main and a worker sleep, another worker yields or waits, clock to 2, up to 3 entries in `sleepQueue_`; 478,614 states | `sleepQueue_` is in order while no entry is stale; who is due leaves it, unless entries that are not due stand before it for ever or again and again |
| `task` | 2 runs, 2 futures, a PackagedTask::Get, 3 threads; 8,668 states | one run satisfies the task; `OnceCell` is implemented; the proofs' invariant; no getter's wake-up is lost; calls wait for ever only where nobody can run the task |
| `sw_safety` | 2 threads of either policy, 2 workers (symmetric), every call but Join and YieldOrigin; about 520,000 states | a context is in one place, on one thread; what a ready queue holds can be resumed; a worker is attached to one thread; no scheduler dies under a waiter, except as `rr_find_yield` shows; the proofs' invariant holds; the threads implement `FiberLifecycle` |
| `sw_liveness` | 2 threads, 2 workers, joins across threads and YieldOrigin; 100,920 states | only a join across threads can come late; shared fibers and ready main contexts get their turn, with the exceptions the property names |
| `fiber_context` | 3 fibers, 2 handles and the thread's stack; 305,992 states | a continuation is in one slot; no stack is out of reach; unwinding ends and returns; the proofs' invariant |
| `intrusive` | 2 threads, 3 pointers, 3 objects; 18,252 states | a count is the number of pointers; who destroys is alone; what nobody holds is destroyed |

Bounds. Three workers and the main context are enough for a joiner, a joined
fiber and a third that is notified, yields or ends between; fibers are launched
once each, which bounds every queue by itself. `MaxTime` bounds the clock and
`SleepBound` the entries of `sleepQueue_`, which early returns let grow. Three
entries and two sleepers are what it takes to disturb the order: two entries of
one fiber, the first of which goes stale when the other is taken (or both when
`WaitUntil` changes their time in place), and one of the other sleeper behind. With two entries
the multiset is always in order. For any number of entries `SleepersInOrder` is
proved.
Two runs and two futures give each race its two sides. Two threads under every
pairing of the policies have each race and hand-over between two threads; a third
would only repeat them. Two workers are what a launcher, a notifier and a
waiter on two threads take, with the main contexts as fibers of their own. Three
stacks and two handles suffice for a stack that unwinds another which unwinds a
third, while a handle moves. Three pointers on two threads suffice for a copy
that races the last release.

The runs allow TLC to stop (`CHECK_DEADLOCK FALSE`), since a thread may end, halt
or have every fiber wait, and a task's calls may all have ended.

Fairness. `FairSpec` of the thread is weak fairness of the thread's step and of
the clock: one OS thread is never stopped for ever, and fibers' own code between
two calls ends. Nothing is assumed of which call a fiber makes, so the liveness
properties hold for programs that yield or notify for ever. `FairSpec` of the
task is weak fairness of each run and getter: the OS runs each thread, a thread
that is free serves its queue (which `StarvationFree` shows for RoundRobin), and a
task's function ends. `FairSpec` of `SharedWork` is weak fairness of each thread's
step and strong fairness of `GiveUp`: the OS runs every thread, and a fiber that
makes calls without end makes one that lets go of its thread again and again
(without that a fiber may notify for ever). `FairSpec` of `FiberContext` and
`IntrusivePtr` are weak fairness of what a thread does inside a destructor or a
call that has begun. Spurious wake-ups may happen and are never assumed.

## What the code does that its own text denies

Each of these has a run that TLC must find violated (`findings` in PROJECT.json).

- `rr_find_terminate`: `Terminate` leaves `mtx_` locked; with two fibers the
  second to end blocks its thread (`src/Scheduler.cpp:118`), against "all work is
  processed before shutdown" (`:82`).
- `rr_find_yield`: a fiber that yields leaves `workerQueue_` for good, and Dispatch
  ends without it (`src/Scheduler.cpp:137`, against `:82`).
- `rr_find_sleep_wake`: a sleeper is put into `sleepQueue_` and scheduled at once
  (`src/Scheduler.cpp:171`), so it is scheduled again when its time comes and
  resumed without a continuation, against `src/schedule/RoundRobinPolicy.cpp:22`.
  `:53` asserts that only the main context sleeps, though `:166` admits workers.
- `sw_find_origin`: `YieldOrigin` gives the fiber that runs to the policy of the
  thread that launched it and goes on (`src/Scheduler.cpp:153`), against the
  assertion of `src/schedule/RoundRobinPolicy.cpp:10`; it is what
  `example/shared_work.cpp` does.

Without a run:

- An early sleeper's entry stays in `sleepQueue_`, which `~Scheduler` asserts to
  be empty (`src/Scheduler.cpp:25`). A main context that slept may be scheduled
  by its stale entry while it is suspended in `~Scheduler`, which then goes on
  before Dispatch has left its loop, and the assertions before it (`:23`, `:24`)
  fail too: `DestructorFindsQueuesEmpty` is about programs whose main context
  does not sleep.
- A sleeper with two entries that is woken for the first gets `tp_ = max`, and
  when the second one stands at the head, `ProcSleepToReady` stops there in
  every turn (`:55-64`), as long as that fiber does not sleep again: sleepers
  behind it stay in the queue though they are due, and the dispatcher suspends
  itself without a time. `DueSleepersAreScheduled` excepts them
  (`BehindTheUndue`); without the exception TLC finds it violated in `rr_sleep`'s
  instance. Since `WaitUntil` schedules its caller at once, the sleeper
  itself has long gone on: what it misses is the second wake-up.
- An Async fiber keeps `scheduler_` when it goes back to the shared queue
  (`Context::Detach` returns early for it), and fails the assertion of
  `src/Scheduler.cpp:204` when a thread takes it from there again. The model goes on
  as a build without assertions does (`TakeShared`).
- A task's future can be retrieved twice, though there is an error for it
  (`src/Exceptions.cpp:35`), and then the second may read a moved-from value,
  which `OnceCell` allows (`Spent`).
- Wake-ups are lost where a thread suspended under RoundRobinPolicy gets a context
  from another thread (`MainServed` excepts it), and where a join from another
  thread comes too late (`LateJoinsCrossThreads` says that no other does).

The properties that hold are stated around these: `GoesOn` in the safety
properties and `halted # "no"`, `loop = "left"` in the liveness ones name the
places where the thread stops.

## Proofs

`RoundRobinProofs`, from `ContextsDistinct` and `ProgramAssumption`:

- For every program, sleepers included: `TypeCorrect`, `NothingIsLost` and
  `NoLateJoiners`. The last two are nearly inductive (`EveryProgram`): a switch
  makes ready or runs whatever it takes from a queue (`SwitchCarries`), and the
  context that asked for it is in some queue by then. Stale sleepers can make a
  context ready twice or too early, never make it vanish.
- For every program, `SleepersInOrder`. `OrderedUnlessStale` is inductive with the
  types alone. Who has no stale entry after `WaitUntil` had no entry before it, so
  the search for its place met a sorted queue and no changed key
  (`InsertOrdered`); and whom `ProcSleepToReady` woke has no entry left, or a
  stale one (`WakeOrdered`).
- For programs whose main context does not sleep, whatever other fibers do:
  `QueuesEndEmpty`. That `~Scheduler` goes on only after Dispatch left its loop
  needs that nobody schedules the main context meanwhile, and so that it was
  nowhere else when it suspended itself: `MainInOnePlace` says of this one
  context what `OnePlaceEach` says of all, and sleepers, which may break the
  latter, do not touch it, since only sleepers are woken by the clock
  (`SleepersOnly`).
- For programs that do not sleep (`Sleepers = {}`, an assumption of each theorem
  that needs it): `Invariance`, that `Inv` is inductive, and from it
  `SwitchesAreSafe`, `QueuesAreDisjoint` and `JoinIsTrue`. With
  sleepers `rr_find_sleep_wake` shows that a switch may go to a context without
  a continuation.

The argument for the last group: `NeverResumesBadContext` is not inductive. That the head of the
ready queue can be resumed needs that the ready queue holds only live contexts
other than the active one (`ReadyIsApart`), and that those are exactly the ones
with a continuation (`OthersAreSaved`). Moving a context from a wait list to
the ready queue keeps this only if the queues are disjoint and repeat nothing
(`CondIsApart`, `WaitListsAreApart`). That `PickNext` never finds the queue
empty needs the dispatcher to be ready, running or gone (`DispatcherIsNear`),
and Main to be parked once it has shut down (`MainIsParked`). The preservation
proof has one lemma per action.

`SharedWorkProofs`, from `ThreadsAssumption`, for any number of threads of either
policy and any number of fibers:

- `SharedTypes` holds for every program.
- `SharedInvariance`: `SharedInv` is inductive for programs without YieldOrigin
  (`NoOrigins`; `sw_find_origin` shows why not for others). `SchedulerUnique`,
  `WaitersHaveThreads`, `LateJoinsCross` and `JoinersHeld` follow, joins across
  threads included. `JoinersHeld` is the truth of `Join` on several threads: until
  the joined fiber has ended its joiner stays in the wait list, where no thread
  resumes it.
- `QueuedResumable`, `BadContextNever` and `OnePlaceEach` need that nobody joins
  (`NoJoins`): the wake-up of a joiner may come from another thread before the
  joiner has left its stack, and puts a context without a continuation into a
  queue.

The argument: `kept[c]` is the set of spots (queues, wait lists, "chosen by
thread t") that hold c. Each context has one spot at most and is there once
(`OneSpotEach`, `QueuesRepeatNothing`), and every live context runs, is kept or is
parked (`LiveAreSomewhere`). A running context is kept only while it waits, on its
way to its switch (`RunningIsFree`, `WaitersAreKept`). That another thread does not
take it in this gap is what `m_` is for: the waiter's thread holds it up to the
lambda of the switch (`CondLockHeld`), so a notifier finds only waiters that are
saved. Where a wake-up puts a context depends on its `scheduler_`, so the
invariant says which thread `home` names in each spot (`RunningAtHome`,
`KeptAtHome`, `AttachedAtHome`). `MainIsParked` and `SharersAttach` are needed for the
end of a thread: its dispatcher leaves only with an empty `workerQueue_`, and then
no fiber of a sharing thread is bound to it. There is one lemma per action.

`RoundRobinRefinement` and `SharedWorkRefinement`: `LivesAsPromised` (from `Inv`
and `CondIsAName`, programs that do not sleep) and `ThreadsLiveAsPromised` (from
`SharedInv` and `LifeNames`, programs without joins and YieldOrigin). `Look` says
what a fiber in each place shows; lemmas named `...Shown` say, for one action of
`FiberLifecycle` each, which change of what is shown is that action, and lemmas
named `...Lives` that a step of the threads makes this change. A switch is a Run, a
Yield, an Await or an End of the abstract module, or a stutter where the
dispatcher goes back to a main context that has shut down; launches and notifications are
themselves; all else shows nothing.

`TaskFutureProofs`, from `CallsAssumption`:

- `TaskInvariance`: `TaskInv` is inductive. `OneRunSatisfies` alone is not: it needs
  that the task is ready exactly when a run satisfied it (`ReadyBySatisfier`).
- `OneWinner` and `TaskTypes` follow.
- `TaskIsOnceCell`: the refinement, step by step. A run's successful `SetValue` or
  `SetException` is the `Put`; a getter's rethrow or `Read` is the `See`, for which
  the invariant gives that the result is there (`ReadersSeeAValue`, `OneResult`),
  that this getter has none yet (`AnsweredAtTheEnd`), and that a value was moved
  away only by a getter that has its answer (`MovedByAReader`). Everything else
  stutters.

`FiberContextProofs`, from `StacksAssumption`, for any number of stacks and handles:

- `StacksInvariance`: `StacksInv` is inductive. `EachParkedOnce` alone is not: a
  jump overwrites slots of a stack that does not run, and would lose what they
  name. So the invariant says that only the running stack has a dying temporary,
  only an ending one a `t.fctx`, only an entered one a parameter, and that a
  stack parked inside a destructor is named by the `t.fctx` of what it destroys
  (`EndingIsAwaited`), where no handle can resume it. Each jump then takes one
  slot from a stack and gives one to another (`Deliver`).
- `StackTypes`, `OneJumpEach` and `DestructorsDoReturn` follow.
- `NoneOutOfReach`: `NothingOutOfReach` says of every set of parked stacks that some
  slot outside the set names a member, which for finitely many stacks is that each
  is reached from the running stack or a variable. A set parked after a step
  was parked before, but for the stack left by a jump, which the slot that took it
  names; and the slot that named a member before still does, or its stack
  is the one that runs now.

`IntrusivePtrProofs`, from `ObjectsAssumption`, for any number of threads:

- `CountTypes`, `CountsAreHolders` and `DiesAlone` are the three parts of one
  inductive invariant (lemma `CountInvariance`): that a count does not fall below
  zero needs that it is the number of holders, and that nobody revives a dead
  object needs that it has none. The lemmas at the top say what assigning to
  slots does to the number of holders.

Only model-checked: every liveness property (fairness and ENABLED are out of the
prover's reach). The theorems leave to TLC, or to the findings, what the
hypotheses above exclude: round-robin programs that sleep (but for the first
three groups of theorems), and programs that call YieldOrigin (but for `SharedTypes`).
`sw_liveness` checks `LateJoinsCrossThreads` for a program with YieldOrigin, too.

## Not modelled, and why

- The 91 assembler files (vendored from Boost.Context), stack allocators and error
  codes have no control state; Resume says what jump and ontop do.
- `ThreadPool.h`, `new/TaskManager.h` and `include/lutask/TaskObject.h` are commented
  out, empty or included by nothing.
- `Async` is a composition without state of its own: `GetFuture`, `Move` and `Pass`
  of `IntrusivePtr`, the `Async` launch of `SharedWork`, and `TaskFuture`. No module
  composes the three.
- Sleepers on several threads, and a joinable `Fiber` that is destroyed
  (`std::terminate`).
- `SharedState::IsReady`, which reads `ready_` without a lock: its only way in is a
  cast to IFuture, and the model has no stale reads of a bool.
- `TaskObject<void>`, `SetValue(R const&)` and the move assignment of `Future<R>`
  do not compile when they are used; the other void specialisations have the
  control of the general ones.

## Plan

Done: `RoundRobinScheduler`, `SharedWork`, `TaskFuture`, `FiberContext` and
`IntrusivePtr`, with their abstract modules, and proofs of all their safety
properties and refinements under the hypotheses named above. Next, in this order:

1. What `SharedWork` keeps for the fibers that no thread launched by Async, in
   programs that call YieldOrigin.
2. A composition for `Async`: the task, its future and the shared fiber that runs it.
