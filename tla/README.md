# TLA+ models of omni-fiber

omni-fiber is a C++23 library of stackless fibers: trees of coroutines that one
thread runs cooperatively, with primitives (events, pipes, queues, a mutex,
remote calls, select) that suspend a fiber and wake it. This directory models it
in TLA+. TLC checks the models on small instances; TLAPS proves the main safety
properties for every instance.

## 1. The system

| Component | State | Operations | What makes it correct |
|---|---|---|---|
| Fiber states (`Fiber.cpp:91-151`) | `_State`, `_Continuation` | `Schedule`, `Suspend`, `OmniYield`, `Starting`, `Resume` | a fiber is queued once, exactly when it is to run; one is on the stack; the parked ones hold a continuation |
| `Manager`, `Runner`, `Executor` | `_ReadyQueue`, `_YieldQueue`, `Posted`, `Executing`, `_RootFiber` | `SpawnRoot`, `Schedule`, `YieldSchedule`, `Run`, the life of a `Runner` | one Runner at a time, and always one for a queued fiber |
| Fiber tree | `_Children`, `_FinishedChildren`, `_Exception` | `Spawn`, `Join`, `TryJoin`, `WaitFor`, `TryWait`, `WaitAll`, `SetException`, `Finishing`, `OnChildFinished` | structured concurrency: a child is joined once, by its parent, before the parent ends; its exception is thrown there |
| Await contexts (`SharedAwaiter`, `SharedAwaitContext`) | `_PendingSet`, a weak pointer at the source | `OnAwaitSuspend`, `Fire`, `~SharedAwaiter` | no wake-up lost, none given twice |
| `Mutex` | `_LockOwner`, `_WaitList` | `Wait`, `LockGuard`, `ScheduleNext` | exclusion; a free lock with waiters has a waiter on its way |
| `Pipe` | `_Data` (Empty, Closed or a value), two contexts | `Put`, `Shutdown`, `co_await consumer`, `DiscardAndClose` | each value is read once, in order; close wakes both sides |
| `Event`, `EventQueue` | `_Data`, `_Queue`, a context | `Fire`, `Push`, `PopFront`, `co_await` | a waiter sees the value; nobody pops an empty queue |
| `ExternalQueue` | `_Queue` and context under a `std::mutex` | `Push` from any thread, `Notify`, `PopFront` | a push wakes the consumer whatever the interleaving of the threads |
| `RemoteCall` | a pipe of closures | `Call`, `Serve`, `Shutdown`, `DiscardAndClose` | one reply per call, `CallFailed` if it was dropped |
| `Select`, `SelectPairList`, `SelectPairDynamicList` | one awaiter per source | `await_ready`, `OnAwaitSuspend`, `await_resume`, `RunCallback` | the fiber wakes once, and only callbacks of ready sources run |
| Coroutine frames | `_CallerPromise`, `_RetState`, `_SuspendedPromise` | call, return and throw of nested coroutines, `StackTrace`, `StackTraceAllFibers` | results and exceptions reach the caller, once; a dump walks frames that live |
| Asio, symbol resolution, utilities | - | - | plumbing |

**How they interact.** An executor (asio) carries a `Runner` to its thread, which
loops over the manager's queues and calls `Fiber::Resume`. The fiber's code runs
until it awaits something: the awaiter registers itself in the source's
`SharedAwaitContext` and the fiber's state becomes Suspending until the stack has
unwound to `Resume`. A source that fires, from a fiber or from a handler of the
executor, calls `Fiber::Schedule` on each waiter, which pushes it on the ready queue
and posts a `Runner` if none is about. A finishing fiber calls its parent's
`OnChildFinished`, which fires the context that the parent's joins wait on.

**What is hard.** There is one thread (apart from `ExternalQueue`), so the
difficulty is in order: who fires whom in which state, between the test of a
condition and the suspension, between being notified and running, between the
finish of a child and its join; and in partial failure: exceptions through
`WaitAll`, through the root, and with children still alive. The primitives built on
others add their own: a closure that refers to the frame of a caller far away, a
wake-up that was sent for an element already taken, sources that are ready when
they fire and empty when the fiber runs, a dump that walks the frames of fibers that
have moved on. `PROJECT.json` lists these hazards with their lines.

## 2. The modules

| Module | What it is |
|---|---|
| `Scheduler` | The variables and operators every component builds on: fiber states, continuations, the two queues, and `Schedule`, `Suspend`, `OmniYield`, `Resume`. |
| `Fibers` | The fiber tree under its Manager, for any program: Fiber.cpp, Manager.cpp, the Runner and the await contexts. |
| `TaskTree` | The abstract specification of `Fibers`: tasks that start, spawn, end with an outcome when they have no child left, and are collected by their owner. |
| `Program` | What the module of one primitive needs of the rest: fibers that start, sleep, are fired, yield and end, over the loop of the Manager, without the fiber tree. |
| `Mutex` | `Mutex.hpp` over `Program`: the loop of `Wait`, the wait list, the guard, `ScheduleNext`. |
| `Pipe` | `Pipe.hpp` over `Program`: any number of producers, one consumer, `Shutdown` and `DiscardAndClose`. |
| `Channel` | The abstract specification of `Pipe`: a slot for one value, and calls that take effect at one moment. |
| `RemoteCall` | `RemoteCall.hpp` over `Pipe`: callers, closures with their guards and events, the server, closing and discarding. |
| `Service` | The abstract specification of `RemoteCall`: a request is taken up at most once and answered once. |
| `Queues` | `EventQueue.hpp` and `ExternalQueue.hpp` over `Program`, used by the worker pool of `tools/example.cpp`. |
| `Select` | `Select.hpp`, `SelectPair.hpp`, `SelectPairList.hpp` and `SelectPairDynamicList.hpp` over `Program`. |
| `Frames` | `Coroutine.hpp`, the promises of `Fiber.hpp` and the dumps of `StackTrace.hpp` over `Program`. |
| `CallStack` | The abstract specification of `Frames`: a call stack per fiber. |
| `MCFibers`, `MCFrames` | The addresses of fibers, and the symmetry of frames, for model checking. |
| `SchedulerProofs` | Lemmas about queues without repetition, and that each operator of `Scheduler` keeps `QueueOK` and `StackOK`. Any component that extends `Scheduler` can cite them. |
| `FibersProofs` | Types, the Runner, queues, stack, tree, the refinement of `TaskTree`, wake-ups, delivery of exceptions, which assertions can fail and for whom, absence of stranded fibers, and that all fibers hang on the root. |
| `ProgramProofs` | That each operator of `Program` keeps the scheduler's invariant, and that whoever waits for a context stays asleep until it is fired. |
| `MutexProofs` | Exclusion, the wait list, and no free lock left to sleepers. |
| `RemoteCallProofs` | Of the pipe: no sleeper without a reason, a woken reader finds something, and `Pipe` implements `Channel`. Of the calls: closures and their callers, and `RemoteCall` implements `Service`. |
| `QueuesProofs` | No push lost on sleepers, no pop of an empty queue. |
| `SelectProofs` | Who sleeps in a select, and when awaiters end with their await. |
| `FramesProofs` | What the walk of a dump returns, dumps over live frames only, frames and their scopes, the fiber of a frame, and `Frames` implements `CallStack`. |

Mutants of the definitions, used to show that each property can fail, stand before
the definitions they replace (`KeepsHandle`, `NotifiesSuspended`, `LooksNot`...). No
specification refers to them.

### Fibers: state and actions against the code

`state`, `continuation`, `readyQueue` and `yieldQueue` are the members of the same
names; `running` is the fiber whose `Resume` is on the stack. `children`,
`finished`, `exception` and `parent` are the members of each fiber (`parent` is
where its `_FinishNotifier` leads). `pending[f][k]` is the entry of fiber f's
awaiter in the `_PendingSet` of source k: none, Waiting or Notified; a Select gives
a fiber several. `Listed` are the sources that the program awaits through a
`SelectPairDynamicList`: the awaiters of all others go when their fiber is resumed, but a list keeps
its own in its pairs (SelectPairDynamicList.hpp:43), so `RunFiber` takes away any part of the
`Listed` ones. The key `ChildDone` stands for the fiber's own
`_JoinAwaitContext`. `posted`, `executing`, `runners` and `looping` are the Manager's
flags, the Runners alive, and whether the thread is inside one.

A step is an uninterrupted stretch of the one thread between two points where the
program has a choice. `op[f]` says what the fiber's code is inside of: its own code
("user"), a `Join`, `WaitFor` or `WaitAll` whose loop is under way, or the
propagation of an exception ("throw"). Each iteration of the loop of `Fiber::Wait`
is one step that tests and suspends, or takes. `WaitAllTakes` is `WaitFor`
followed by the loop test of `WaitAll`. `UserStep` holds the calls that the program
may make, in any order; `LibraryStep` what the library does without a choice.
`FireSource` is any source of the program firing, from a handler while no fiber is
on the stack or from the running fiber.

The build is a debug one. A failed assertion stops everything: `failed` names it.
Only assertions that a program can reach are branches: that the name of a new child
is none of a living child's (`SpawnFails`, Fiber.hpp:104), that `TryJoin` and `WaitFor` are
asked for children (Fiber.cpp:43, 59, 77), that a fired fiber may be scheduled (92), that a
finishing child is known (27), and that a fiber has no child left when it throws or returns
(149, 155). The others are what `QueueOK`, `StackOK` and `TreeOK` state. With `Careless` false the
program keeps the rules for clients: the README's two (it joins its own children only,
once, and ends when they are all joined), and one that only the assertion states, different names for
living siblings. With `Careless` true it keeps none. `NoFailure` is about careful programs
without dynamic lists, as awaiters that a list leaves behind make Fiber.cpp:92 fail for programs
that keep all these rules. `BookkeepingHolds` is about all programs: which assertions never
fail, and that 92 fails only on such an awaiter.

Addresses of fibers are naturals, reused after `Release`, because `WaitFor` takes
the lowest. `Respawn` says after which ends of the root the program spawns
another. Names of fibers (but that a new one may be taken), results of coroutines and the frames below
the outermost are left out: a fiber's code is one nondeterministic process.

The model has two limits beside those. A fiber's code calls only its own Fiber: code
that got hold of another fiber's object and called `WaitFor` on it, say, is left out, and with it
the assertion that nobody waits already (Fiber.cpp:36). And a dynamic list lives in the fiber that
awaits it, so its awaiters are gone when that fiber ends.

### Program, Mutex and Pipe

`Program` is for primitives that have no business with the tree. `running`,
`readyQueue` and the other variables are those of `Scheduler`; the thread is always
able to run `Manager::Run`, which `OneRunner` and `NoStrandedFiber` of `Fibers`
justify. `awaiting[f]` is the context in which f has a Waiting entry: a fiber awaits
one context at a time here, so a Notified entry has no effect before its awaiter
goes. The context "elsewhere" stands for all that a fiber may sleep on besides, and
`Elsewhere` fires it, from a handler or another fiber. A fiber that ended does not
start again.

In `Mutex`, `guards` is the set of fibers that hold a `LockGuard`, `lockOwner` the
pointer in the mutex, `waitList` the list of awaiters. `CallWait` enters
the loop; each iteration is `WaitSuspends` or `WaitReturns`; `Resumes` takes the
resumed fiber's awaiter out of the list, as its destructor does; `Unlock` is
`~LockGuard` with `ScheduleNext`. A fiber does not lock twice, keeps its guard to
itself, and does not end with it; none of these is checked by the code.

In `Pipe`, `data` is `_Data`, where a value is known by the fiber that put it, and
`result[f]` what the last call of f returned. `PutSuspends`, `PutStores` and
`PutRefused` are the ways through an iteration of `PutData`, which `Put` and
`Shutdown` share. The consumer tests once: `op[f] = "woken"` is a read that suspended,
which takes what it finds when it runs. `FireBoth` has the two `Fire` calls of
`DiscardAndClose` in their order. Pipe.hpp says one producer and one consumer; `RemoteCall`
gives its pipe as many producers as there are callers, so any fiber may put, and
only `Reader` reads. `DiscardAndClose` may be called by any code, also a handler. `Channel` maps
`data` to its slot and a woken read to a read.

### RemoteCall

`RemoteCall` extends `Pipe`, whose calls it uses as they are. A closure is known by its
caller, and so is the context of the caller's `Event`; a caller has one call at a
time, and the event, the guard's reply and the future live in its frame. `stage[f]`
is how far `RemoteCall::Call` is: the put, sent, waiting for the event. `reply[f]` is
what the event holds: nothing, "ok" or "failed". The closure is in the pipe (`data`), or
in the server's hand (`serving`, what its last read returned), and `Held` is either.

`Call` creates the event and begins the put; `Sends` and `Fails` are its ends, the
second with the guard that fires unheard; `AwaitReply` and `CallReturns` are
`co_await event`, before and after. `Serve` is the server's call of `Serve`, and `inServe` says that
it is inside: then `Reads` is the loop, which reads whenever it has nothing in hand. A server may
also read outside of it, through `GetServiceAwaitor` and `HandleRequest`, or not at all. `ReadStep` that
finds the pipe closed ends the loop. `Completes` is a function that returned. `Drops` is one that
threw: the exception leaves `HandleRequest` (RemoteCall.hpp:85) and `Serve` (78), which ends with the pipe
open, and the guard answers this one call. Or it is a closure that the server read itself and
destroyed without calling it. `Discards` is
`DiscardAndClose`: the closure in the pipe dies first, then the pipe wakes its
producers, then its reader, which `FireInTurn` keeps in the order of the ready queue.
`Besides` is all else that fibers do: start, sleep (the functions of closures do too),
yield, end. The server may end, pipe open or closed, when it is outside of `Serve` with nothing in hand.
So after a throw the closure that is left in the pipe, and every later one, waits until
somebody serves again or calls `DiscardAndClose`; the code neither prevents this nor
promises anything about it. The safety properties hold all the same; the liveness of `ImplementsService`
assumes a program that enters `Serve` again (section 3). A service that calls itself waits for ever and is
left out.

### Queues

`external` says which of the two queues the pool uses. `queue` is `_Queue`. A pill is an
element of its own, `unpushed` what the producer has not pushed yet; tasks come
before pills, as in the example. The EventQueue's `Push` is one step of the fibers'
thread. The ExternalQueue's is two steps of any thread: `ExternalPush` under the first lock
and, at any later moment, `Notify` under the second, which copies the weak pointer
to the await context and posts a handler; `Delivers` is that handler. `posted` has the
elements whose handler holds the context that lives now: the context goes with the last
awaiter that shares it (`Holders`), and the handler then fires nothing. `Awaits`, `Tests` and `Suspends` are
`co_await queue` (the awaiter is created, tests under the lock, and suspends), with the
other threads' steps between them. `Looks` is the worker's `IsEmpty` after the await,
left out when `Rechecks` is false; `PopFront` follows. `Clear` is a step of any thread, between any
two of these but `Looks` and `PopFront`: the lock is free there, so a Clear then makes the pop
one of an empty queue, and keeping it away is left to the program. For an EventQueue nothing can
happen between these steps but other threads, and there are none. The worker works
by sleeping on a timer, which stands for `AsioResult`.

### Select

A source holds something or nothing (`full`), as a pipe, a queue or an event does. A fiber
selects on the sources `Direct`, one per pair, and on the list `Dynamic`, which is
one more pair and comes last. A `SelectPairList` behaves as its members do and differs in the
shape of results only. `waiting[f]` has the sources with a Waiting entry for one of f's
awaiters, `todo[f]` the pairs whose callbacks are to come. `Selects` is `await_ready` and,
if nothing is ready, the registration with each source in one stretch of the thread;
`SelectResumes` is `await_resume`: what is ready *now* is taken and the awaiters go.
`RunCallback`, `DoSelect`, `ListResumes` and `RunPair` are the loop over the callbacks, in
which the list awaits its own sources once more, with awaiters that live in the pairs
(`SelectPairDynamicList.hpp:43`) and stay there. A callback is the fiber's own code:
it may sleep, yield, fill and drain sources, return, or throw. Any source may be filled and drained at
any moment at which code runs.

### Frames and CallStack

A fiber stands for its outermost frame (`SpawnFiber`), and `Frame` is the memory for
the others, reused when they are destroyed. `caller` is `_CallerPromise`, `ret` is `_RetState`,
`suspended` is `_SuspendedPromise`, `at[f]` the frame that runs or is parked.
`holder` is the frame in whose scope the `Coroutine` object stands: `Return` and `Throw` destroy what the
ending frame holds. `Create` calls a coroutine, which suspends at once; `CoAwait` runs it;
`Takes` is `await_resume`, which rethrows. `Traces` stands for `StackTrace` and
`StackTraceAllFibers`, which clear the fiber's own `_SuspendedPromise`; the walk is
`Backtrace`, and may happen at any state, so it is an invariant and not an action. (`Walk`
stops after as many steps as there are frames; the code would go on for ever in a circle of
callers, which no state has.) `GetFiber` goes the same way. Memory is kept back for
the one coroutine each `SpawnFiber` calls (`Unstarted`), or an instance could
run out of frames where a program does not. `CallStack` maps the chain of callers to a
sequence and the result that the frame below has not taken yet to `result`.

## 3. The runs

| Run | Instance | What it shows |
|---|---|---|
| `fibers` | 3 fibers, 1 source, no dynamic list, rules kept, fairness | the queues, the stack, no stranded fiber, wake-ups, the tree, no failed assertion, exceptions delivered; a scheduled fiber runs, a Join of a finished child returns |
| `fibers_careless` | 3 fibers, 2 sources, one of them awaited through dynamic lists, rules broken | the structures and the one Runner stay sound, `Fibers` refines `TaskTree`, a root that ended leaves nothing behind a dump from the root finds every fiber, and the assertions of `OnChildFinished` and, but for dynamic lists, of `Schedule` hold, whatever the program does |
| `mutex` | 4 fibers, fairness | exclusion, a sound wait list, no free lock left to sleepers, and a free lock is taken in the end |
| `pipe` | 3 fibers, fairness | nobody sleeps at the pipe without a reason, a woken reader finds something, `Pipe` implements `Channel` with its fairness |
| `remote_call` | 2 callers and a server, fairness | no closure outlives the frame it refers to, who waits has a closure and who was woken an answer, and the calls implement `Service`, with its liveness if the server serves again after a throw |
| `worker_pool` | 2 workers, 2 tasks, 2 pills, both queues, fairness | nobody pops an empty queue, no push is lost on sleepers, every worker gets its pill |
| `select` | 2 fibers, 2 pairs and a list of one, fairness | awaiters end with their await, who sleeps sleeps on all sources and none is ready, a source that becomes ready ends the await |
| `frames` | 2 fibers, 4 frames, symmetry | a dump walks live frames down to the outermost, frames go with their scope, a frame finds its one fiber, the links implement `CallStack` |
| `foreign_join` (violation) | 3 fibers | a Join of a fiber of another family sleeps for ever, where README.md:56 promises an assertion |
| `root_threw` (violation) | 3 fibers | after a failed root the Manager never runs anything again |
| `stale_notify` (violation) | 1 worker that does not look again | the notification of an element that was taken wakes the consumer on an empty ExternalQueue, and it pops |
| `select_dynamic` (violation) | 1 fiber, 1 pair and a list of two | a list's awaiters stay registered while its callbacks run and after the select |

**Bounds.** Three fibers are a root with two children, or a chain; addresses are
reused, so runs are unbounded in length. One source beside the children's own contexts
gives selects of two sources, a source that fires while its waiter is Suspended, Ready or
Running, and several waiters of one source. `fibers_careless` has a second source: a fiber
that it wakes while another is queued already is a second push before the Runner
starts. That source is awaited through dynamic lists, the other is not. In `mutex` four fibers are a holder, two that wait and one that barges in; in
`pipe` three are two producers and a reader, with a producer that finds the slot free
before one that was woken for it. In `remote_call` one closure is at the server while
another is in the pipe, and a caller sleeps at the full pipe while the third party
closes. In `worker_pool` one push wakes both workers and one of them finds nothing, and
two notifications are under way at once. In `select` the second fiber drains what woke
the first; a list of one is the longest for which the awaiters end with the await, and
a list of two is `select_dynamic`. In `frames` four frames are a call of depth
three with a finished coroutine beside it, or two fibers with a call of depth two each.
There is no other bound: every variable is finite once these sets are. Queues
begins with a finite number of elements, as the example does.

**Fairness.** In `fibers`: weak fairness of `RunnerStart`, `RunFiber` and `RunEnd`, as
the executor runs what is posted and `Manager::Run` is a loop of the thread; weak
fairness of `LibraryStep`, as code of the library that is running goes on; strong
fairness of `Parks`, as cooperative scheduling asks of a fiber's code that it suspends or
returns in the end (without it one fiber that never awaits keeps the thread). The
program may still never fire a source, so nothing is claimed of fibers that wait for one,
and a yielded fiber has no guarantee against ready ones. `mutex`, `pipe` and `select`
assume the same of their fibers. They claim no more than the code gives: some waiter or
barger takes a free mutex, some producer a free slot. A particular one may starve.

A remote call is answered only if the program does its part, and `CallFairness` states
it: again and again some `Serve` is under way, or the service is closed (`[]<>(inServe \/ data =
"Closed")`; a function that throws ends its `Serve`, and without this TLC shows callers that wait for
ever); what its functions sleep on happens and they end, and the ready queue runs empty now and then, without which a
function that yields is never resumed (Manager.cpp:47). `worker_pool` assumes of the program that
producers push, workers start, work and end, timers expire and posted handlers
run (`Goes`). Each of these happens a finite number of times, so strong fairness of their union is
enough, and says nothing of their order.

**Deadlock** is checked in every passing run but one: the library always has a step
until all has ended (a program that waits for something can always be fired).
`fibers_careless` switches it off: there an assertion stops the program, and a foreign Join
sleeps for ever.

**What the models allow beyond the code.** Handlers and other fibers may do their
part whenever no fiber is inside the library; a source may be filled by anyone; a fiber
may yield between any two calls. These are over-approximations: what holds of them
holds of programs that do less. The liveness properties assume only the
fairness above, never an order.

## 4. The proofs

All theorems but one are of the form `Spec => []P`, `Spec => [][A]_vars` or `Spec => AbstractSpec`,
for every finite set of fibers, every set of sources, tasks, pairs or contexts, and every
finite memory for frames; `WalkFinds` is about an operator. They assume what the modules' named ASSUMEs say, which every run evaluates, and nothing else but
where this section says so.

1. `TypeOK` and `OneRunner` together are inductive (`TypeStep`, `RunnerStep`): that
   `runners` stays a natural number needs the one Runner.
2. `SchedInv`, the queues and the stack with their types, is inductive given the
   types. The lemmas of `SchedulerProofs` treat the queues as lists of a set:
   pushing the sleeping fibers in any order appends exactly the newly Ready ones.
3. `TreeOK` is inductive given `SchedInv`: only a running fiber spawns, joins or
   ends, so no step touches the sets of a fiber that is not running, except a
   finishing child those of its parent.
4. `FibersAreTasks`, `Spec => ImplementsTaskTree`, follows from the types and `TreeOK`. A
   step that changes no fiber's phase and no link is a stutter (`QuietMaps`); the
   switch to Finished and the end of a joined object are too. Each of the others
   changes the view of one fiber (`OthersStay`): a spawned, finishing or taken one.
5. `NoLostWakeup` is not inductive: that a suspending `WaitFor` has a child left
   comes from the assertion at its start. `WakeInv` adds `WaitForHasChild`. What it says of
   notified awaiters leaves out those of dynamic lists, which stay notified.
6. `ExceptionsDelivered` follows from the types: `Take` is the only step that takes a
   child out of both sets.
7. `NoFailure`, for careful programs without dynamic lists (`~Careless`, `Listed = {}`), combines
   them: a Waiting entry belongs to a
   fiber that is Suspended or Ready unless it is on the stack, so `Schedule`'s
   assertion holds, and `TreeOK` has the finishing child among its parent's children.
   `BookkeepingHolds`, for all programs, is what remains without the two assumptions: `StepFails`
   says for each assertion which misuse, or which awaiter of a list, it takes to fail it.
8. `NoStrandedFiber`, for programs that do not spawn again after a failed root
   (`"threw" \notin Respawn`; the run `root_threw` shows why), rests on
   `StaleAfterFailure`: outside the loop Executing is true only after a root
   that failed. And then nobody is left to be queued: `Rooted` says that there is no
   set of fibers without the root of which each is a child of another in the set, so
   with the root finished no fiber lives.
9. `Mutex`: `MutexInv` is the three properties with the types, `SchedInv` and
   `LockStates`: a fiber inside `Wait` is running, suspending, suspended or ready. Without it
   a fiber that starts or yields could be one the wait list holds. `NoSleeperAtFreeLock`
   is inductive because the resumed first waiter is inside `Wait` and sees a
   free lock, or leaves the list of a lock that was taken before its turn.
10. `Pipe`: `PipeInv` adds `OneReader` to the types, `SchedInv` and the two properties:
   who takes the value of the pipe is the one fiber that a put may have woken, so
   no other woken reader is left with an Empty slot.
11. `PipeIsChannel`, `Spec => AsChannel!Spec`, is the refinement without
   fairness. It needs the types only: each step that touches `data` or `result`
   is the channel's step, the others change nothing that the channel sees.
12. `RemoteCall`: on top of `PipeInv`, `CallInv` has where each caller is (`Positions`: the
   stage goes with the pipe's operation and the context awaited), that a closure is in the pipe
   or at the server but never both (`OnePlace`), and that only its caller awaits an
   event (`OwnEvent`). With `OnePlace` the answer of one call cannot be another's.
   `CallIsService` is the refinement of `Service` without fairness.
13. `Queues`: `PushReachesSleepers` is not inductive because a worker that has tested an
   empty queue and not yet suspended sleeps on it the next moment: `MissedIsReached`
   says that a push which came between is still to be notified, or posted with the context
   this worker holds. `InsideAwait` says that one fiber is between the steps of an
   await. `NoEmptyPop` assumes `Rechecks`; `stale_notify` shows why.
14. `Select`: `SelectInv` gives that a sleeping fiber is registered with all of its
   sources and none is ready. `AwaitersEndWithAwait` is proved for lists of at
   most one pair (`ShortList`; `select_dynamic` shows why): `NoneLeft` says what may be left
   at each point of the loop, and that a list's single source is no longer registered once
   it has woken the fiber.
   For lists of any length `OnlyListLeaves` confines what that run shows: the awaiters of
   fixed pairs always end with the await.
15. `RootLast` and `DumpReachesAll`, for every program, careless or not, come from `Rooted` as
    well: the live fibers outside a set that holds the root and is closed under
    `children` would each be a child of another, so there are none; `NoLostWakeup` and
    `QueueOK` then leave no awaiter and nothing queued. They need no assumption on `Respawn`.
16. `Frames`: `Walk` is a recursive function, so what it returns has to be shown before
    anything else can be. `WalkFinds` does that: given a sequence that begins with a fiber and is
    linked by callers, the function of its suffixes obeys the recursion, and no
    other does (`WalkIsUnique`), because of two that differ there would be a least step
    at which they do. `Least` gets that from the library's fact that the subsets of a finite
    set are well-founded, and `StackIsShort` bounds the sequence by the number of
    frames. No induction theorem with an operator parameter is needed.
17. `FramesInv` makes those sequences: `Stacks` says that the links from where each
    fiber is are one (of live frames whose calls have not ended, each held by the one below),
    `Apart` that two fibers share no frame. `FramesGoWithScope` alone is not inductive:
    a frame that ends destroys what it holds, and only `Scopes` (a call that ended holds
    nothing, `SpawnFiber` holds one coroutine) shows that nothing hangs on those. `Printed`
    says when `_SuspendedPromise` is set and `Results` what a fiber between two frames
    takes. The dumps, `FrameHasOneFiber` and the refinement follow: each step changes the
    stack of one fiber at its end (`OneStackChanges`, `SameStack` for the rest), so `Begin`
    is `Enter`, `CoAwait` a call, `Return` and `Throw` the end of one, `Takes` the taking of
    its result, `End` the leaving, and all other steps stutter.

So every invariant and every action property that a passing run checks is proved, under the
hypotheses named above, and the safety part of every refinement. Only model-checked are the liveness properties
(`ReadyRuns`, `JoinReturns`, `FreeLockTaken`, `PoolWindsUp`, `ReadySourceEndsAwait`), the fairness
halves of `Channel` and `Service`, and the absence of deadlock: liveness under
fairness and ENABLED are outside what the proof system does.

## 5. Findings

The violation runs show four:

- `foreign_join`: a Join of a fiber that is not one's own child hangs (Fiber.cpp:57), where the
  README promises a failed assertion.
- `root_threw`: `Executing` stays true after a failed root (Manager.hpp:63).
- `stale_notify`: a consumer that pops after `co_await` of an ExternalQueue, as the documents and
  the library's test have it, may pop an empty queue (ExternalQueue.hpp:85).
- `select_dynamic`: the awaiters of a dynamic list outlive their await
  (SelectPairDynamicList.hpp:149), against the rule of SharedAwaiter.hpp:9.

Smaller differences between the documents and the code, which no run is about:
`WaitAll` leaves with children unjoined when one failed (README.md:51, Fiber.cpp:86);
`TryWait` takes the lowest address, not the first completed (DESIGN.md:109, Fiber.cpp:67); the mutex
is not FIFO, as a fiber that finds it free overtakes the one that was woken (DESIGN.md:210,
Mutex.hpp:88); `Put` returns before its value is read (Pipe.hpp:72); a select whose source was
emptied before the fiber ran returns without having run a callback (DESIGN.md:215-216,
Select.hpp:39-60); and README.md:117 documents a `Signal` that the repository does
not contain. `Serve` says that it serves "until closed" (RemoteCall.hpp:79), but an exception of a
served function ends it first. The assertion that living siblings have different names
(Fiber.hpp:104) is in no document.

## 6. Not modelled

- Symbol resolution turns addresses into names through platform libraries, and the vendored
  function wrapper holds a callable: neither has a state that a fiber's behaviour
  depends on. Of the asio adaptors only the timer and the executor appear, as what
  fires and what runs; the rest is template plumbing of signatures.
- Data: values are known by who sent them, results by "value" or "error". So an Event fired
  twice, or awaited by several fibers for a value that moves, is left out.
- Callbacks that select themselves, an `Add` to a dynamic list while it is selected on
  (the loop's iterator dangles), and `co_await` of a list outside a select.
- Coroutines awaited twice, or outside the frame that holds them.
- A service that calls itself; a `Clear` between a worker's look and its pop.
- A mutex locked twice, a guard handed to another fiber, a pipe destroyed while it is open.
- The members of one primitive are checked against the rest of the library through
  `Program`, not in one module with the fiber tree: `Fibers` covers selects and
  sources of any kind as contexts that fire.

Left to do if the project grows: a `Fibers` whose sources are the modelled primitives, and
callbacks that select.
