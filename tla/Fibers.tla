------------------------------- MODULE Fibers -------------------------------
(***************************************************************************
Fibers (Fiber.hpp, Fiber.cpp) under their Manager (Manager.hpp, Manager.cpp):
spawning, suspending on shared await contexts, yielding, joining, finishing
with or without an exception, and the Runner that an Executor carries to the
thread that runs them.

The program that uses the library is nondeterministic: whenever a fiber's own
code runs, it may make any call on its own Fiber that the rules for clients
allow, or (Careless) any call at all with any fiber as its argument.  The rules
are the two of README.md:56-57, and one that it leaves unsaid: the living
children of a fiber have different names (Fiber.hpp:104).  The build is a debug
one: an assertion that fails stops the program, and `failed` names it.
***************************************************************************)
EXTENDS Scheduler

CONSTANTS
    Root,       \* the address of the root fiber
    Source,     \* the await contexts of the program's events, pipes, timers...
    ChildDone,  \* stands for the fiber's own _JoinAwaitContext
    Listed,     \* those awaited by the pairs of a SelectPairDynamicList
    Careless,   \* may the program break the rules for clients?
    Respawn     \* outcomes of a root after which the program spawns another

ASSUME FibersAssumption ==
    /\ Fiber \subseteq Nat
    /\ Root \in Fiber
    /\ ChildDone \notin Source
    /\ Listed \subseteq Source
    /\ Careless \in BOOLEAN
    /\ Respawn \subseteq {"returned", "threw"}

VARIABLES
    exception,  \* the fibers whose _Exception holds a value
    parent,     \* behind _FinishNotifier: the parent, or None for the Manager
    children,   \* _Children
    finished,   \* _FinishedChildren
    pending,    \* each fiber's awaiters: the entries it has in _PendingSet
    op,         \* what the fiber's code is inside of
    target,     \* the child that Join waits for, or whose exception is thrown
    looping,    \* the thread is in the call of a Runner
    posted,     \* Manager::Posted
    executing,  \* Manager::Executing
    runners,    \* the Runners handed to the executor and not destroyed
    failed      \* the assertion that stopped the program

treeVars == <<exception, parent, children, finished>>
codeVars == <<pending, op, target>>
runVars == <<posted, executing, runners, looping>>
vars == <<schedVars, treeVars, codeVars, runVars, failed>>

Key == Source \cup {ChildDone}
Pending == [Key -> {"none", "Waiting", "Notified"}]
NoAwaiter == [k \in Key |-> "none"]
Op == {"user", "join", "waitFor", "waitAll", "throw"}
Assertion == {"Spawn", "Schedule", "TryJoin", "WaitFor", "OnChildFinished", "SetException",
              "Finishing"}

(* No step is taken once an assertion has failed. *)
Alive == failed = "nothing"

(***************************************************************************
The Manager.  Post is the end of Manager::Schedule and YieldSchedule: the
first push while no Runner is about hands one to the executor.
***************************************************************************)
PostsAgain(pushed) ==
    /\ LET now == pushed /\ ~executing IN
          /\ posted' = (posted \/ now)
          /\ runners' = IF now THEN runners + 1 ELSE runners
    /\ UNCHANGED <<executing, looping>>

Post(pushed) ==
    /\ LET now == pushed /\ ~executing /\ ~posted IN
          /\ posted' = (posted \/ now)
          /\ runners' = IF now THEN runners + 1 ELSE runners
    /\ UNCHANGED <<executing, looping>>

(* Manager::SpawnRoot, called from outside any fiber.                      *)
RootOutcome == IF Root \in exception THEN "threw" ELSE "returned"

SpawnRoot ==
    /\ Alive /\ ~looping
    /\ state[Root] = "Absent" \/ (state[Root] = "Finished" /\ RootOutcome \in Respawn)
    /\ Schedule([state EXCEPT ![Root] = "Suspended"], {Root})
    /\ continuation' = continuation \cup {Root}
    /\ exception' = exception \ {Root}
    /\ Post(TRUE)
    /\ UNCHANGED <<yieldQueue, running, parent, children, finished, codeVars, failed>>

(* Runner::operator() up to the loop of Manager::Run ...                   *)
RunnerStart ==
    /\ Alive /\ ~looping
    /\ runners > 0
    /\ looping' = TRUE
    /\ executing' = TRUE
    /\ UNCHANGED <<schedVars, treeVars, codeVars, posted, runners, failed>>

(* ... the two branches of the loop; the resumed code starts by taking the *)
(* awaiter's value and destroying the awaiter, which leaves _PendingSet.    *)
(* Those of a dynamic list stay for as long as the list keeps them ...      *)
KeepsAwaiters ==
    /\ Alive /\ looping
    /\ RunReady \/ RunYielded
    /\ UNCHANGED <<pending, treeVars, op, target, runVars, failed>>

RunFiber ==
    /\ Alive /\ looping
    /\ RunReady \/ RunYielded
    /\ \E left \in SUBSET Listed :
          pending' = [pending EXCEPT ![running'] =
                         [k \in Key |-> IF k \in left THEN @[k] ELSE "none"]]
    /\ UNCHANGED <<treeVars, op, target, runVars, failed>>

(* ... and the end of it, with ~Runner.  When the root has failed Run       *)
(* throws, and the Executing = false that follows the call is skipped.      *)
Ends(destroyed, stillPosted) ==
    /\ Alive /\ looping
    /\ running = None
    /\ readyQueue = <<>> /\ yieldQueue = <<>>
    /\ looping' = FALSE
    /\ runners' = runners - destroyed
    /\ posted' = stillPosted
    /\ executing' = FALSE
    /\ UNCHANGED <<schedVars, treeVars, codeVars, failed>>

DestroysMovedRunner == Ends(2, FALSE)
ForgetsPosted == Ends(1, posted)

RunEnd ==
    /\ Alive /\ looping
    /\ running = None
    /\ readyQueue = <<>> /\ yieldQueue = <<>>
    /\ looping' = FALSE
    /\ runners' = runners - 1
    /\ posted' = FALSE
    /\ executing' = (executing /\ state[Root] = "Finished" /\ Root \in exception)
    /\ UNCHANGED <<schedVars, treeVars, codeVars, failed>>

(***************************************************************************
Failing an assertion, and firing an await context: SharedAwaitContext::Fire
turns the Waiting entries of the fibers fs into Notified ones and schedules
them, st being the fibers' states at that moment.
***************************************************************************)
Fail(assertion) ==
    /\ failed' = assertion
    /\ UNCHANGED <<schedVars, treeVars, codeVars, runVars>>

Waiters(k) == {f \in Fiber : pending[f][k] = "Waiting"}

Fire(st, k, fs) ==
    /\ pending' = [f \in Fiber |-> IF f \in fs THEN [pending[f] EXCEPT ![k] = "Notified"]
                                               ELSE pending[f]]
    /\ Schedule(st, fs)
    /\ Post(Sleeping(st, fs) # {})

(* An event, a pipe, a queue... of the program fires: a handler of the     *)
(* executor does it, or a fiber.                                           *)
FireSource(k) ==
    /\ Alive
    /\ running = None => ~looping
    /\ running # None => state[running] = "Running" /\ op[running] = "user"
    /\ Waiters(k) # {}
    /\ IF Schedulable(state, Waiters(k))
          THEN /\ Fire(state, k, Waiters(k))
               /\ UNCHANGED <<continuation, yieldQueue, running, treeVars, op, target, failed>>
          ELSE Fail("Schedule")


(***************************************************************************
What the code of the running fiber f calls.
***************************************************************************)
Runs(f, o) == Alive /\ running = f /\ state[f] = "Running" /\ op[f] = o
Unjoined(f) == children[f] \cup finished[f]

(* Fiber::Spawn.  The constructor runs the child's coroutine up to its      *)
(* initial_suspend, where Starting parks it: Suspended, then scheduled.     *)
ForgetsChild(f, c) ==
    /\ Runs(f, "user")
    /\ state[c] = "Absent" /\ c # Root
    /\ parent' = [parent EXCEPT ![c] = f]
    /\ Schedule([state EXCEPT ![c] = "Suspended"], {c})
    /\ continuation' = continuation \cup {c}
    /\ Post(TRUE)
    /\ UNCHANGED <<yieldQueue, running, exception, children, finished, codeVars, failed>>

Spawn(f, c) ==
    /\ Runs(f, "user")
    /\ state[c] = "Absent" /\ c # Root
    /\ children' = [children EXCEPT ![f] = @ \cup {c}]
    /\ parent' = [parent EXCEPT ![c] = f]
    /\ Schedule([state EXCEPT ![c] = "Suspended"], {c})
    /\ continuation' = continuation \cup {c}
    /\ Post(TRUE)
    /\ UNCHANGED <<yieldQueue, running, exception, finished, codeVars, failed>>

(* The name of the new child is that of a living one. *)
SpawnFails(f) ==
    /\ Runs(f, "user")
    /\ children[f] # {} /\ Careless
    /\ Fail("Spawn")

(* AwaiterBase::DoAwaitSuspend and SharedAwaiter::OnAwaitSuspend for each   *)
(* of the sources that f awaits, several in a Select.                       *)
SuspendOn(f, keys) ==
    /\ Suspend(f)
    /\ pending' = [pending EXCEPT ![f] = [k \in Key |-> IF k \in keys THEN "Waiting"
                                                                      ELSE @[k]]]
    /\ UNCHANGED <<readyQueue, yieldQueue, running, treeVars, runVars, failed>>

Await(f, keys) ==
    /\ Runs(f, "user")
    /\ keys = {ChildDone} => Careless \/ children[f] # {}
    /\ SuspendOn(f, keys)
    /\ UNCHANGED <<op, target>>

(* co_await OmniYield() *)
Yield(f) ==
    /\ Runs(f, "user")
    /\ OmniYield(f)
    /\ Post(TRUE)
    /\ UNCHANGED <<readyQueue, running, treeVars, codeVars, failed>>

(* Taking the finished child c out of _FinishedChildren: the end of TryJoin *)
(* and TryWait.  A child that failed makes the call throw.                  *)
WaitAllSwallows(f, c, then) ==
    /\ finished' = [finished EXCEPT ![f] = @ \ {c}]
    /\ LET throws == c \in exception /\ then = "user" IN
          /\ op' = [op EXCEPT ![f] = IF throws THEN "throw" ELSE then]
          /\ target' = [target EXCEPT ![f] = IF throws THEN c ELSE None]
    /\ UNCHANGED <<schedVars, exception, parent, children, pending, runVars, failed>>

Take(f, c, then) ==
    /\ finished' = [finished EXCEPT ![f] = @ \ {c}]
    /\ op' = [op EXCEPT ![f] = IF c \in exception THEN "throw" ELSE then]
    /\ target' = [target EXCEPT ![f] = IF c \in exception THEN c ELSE None]
    /\ UNCHANGED <<schedVars, exception, parent, children, pending, runVars, failed>>

(* The end of Fiber::Join, once the child has finished.  The program may    *)
(* call TryJoin itself; where that returns false it changes nothing.        *)
JoinTakes(f) ==
    /\ Runs(f, "join")
    /\ target[f] \in finished[f]
    /\ Take(f, target[f], "user")

TryJoin(f, c) ==
    /\ Runs(f, "user")
    /\ IF c \in Unjoined(f)
          THEN c \in finished[f] /\ Take(f, c, "user")
          ELSE Careless /\ state[c] # "Absent" /\ Fail("TryJoin")

(* TryWait pops the first of the set, which is ordered by address.          *)
TakeFirst(f, then) ==
    \E c \in finished[f] :
        /\ \A d \in finished[f] : c <= d
        /\ Take(f, c, then)

TryWait(f) ==
    /\ Runs(f, "user")
    /\ TakeFirst(f, "user")

(* Calling Fiber::Join, WaitFor and WaitAll, up to the first test of a loop. *)
Call(f, o, c) ==
    /\ op' = [op EXCEPT ![f] = o]
    /\ target' = [target EXCEPT ![f] = c]
    /\ UNCHANGED <<schedVars, treeVars, pending, runVars, failed>>

CallJoin(f, c) ==
    /\ Runs(f, "user")
    /\ IF Careless THEN state[c] # "Absent" /\ c # f ELSE c \in Unjoined(f)
    /\ Call(f, "join", c)

CallWaitFor(f) ==
    /\ Runs(f, "user")
    /\ IF Unjoined(f) # {}
          THEN Call(f, "waitFor", None)
          ELSE Careless /\ Fail("WaitFor")

CallWaitAll(f) ==
    /\ Runs(f, "user")
    /\ Call(f, "waitAll", None)

(* The loop of Fiber::Wait: the condition does not hold, so the fiber       *)
(* suspends on its own _JoinAwaitContext.                                   *)
SuspendsFirst(f) ==
    /\ Runs(f, "join")
    /\ SuspendOn(f, {ChildDone})
    /\ UNCHANGED <<op, target>>

JoinSuspends(f) ==
    /\ Runs(f, "join")
    /\ target[f] \notin finished[f]
    /\ SuspendOn(f, {ChildDone})
    /\ UNCHANGED <<op, target>>

WaitSuspends(f) ==
    /\ Runs(f, "waitFor") \/ (Runs(f, "waitAll") /\ children[f] # {})
    /\ finished[f] = {}
    /\ SuspendOn(f, {ChildDone})
    /\ UNCHANGED <<op, target>>

(* WaitFor returns a child, to the program or to the loop of WaitAll.       *)
WaitForTakes(f) ==
    /\ Runs(f, "waitFor")
    /\ TakeFirst(f, "user")

WaitAllTakes(f) ==
    /\ Runs(f, "waitAll")
    /\ TakeFirst(f, "waitAll")

WaitAllReturns(f) ==
    /\ Runs(f, "waitAll")
    /\ Unjoined(f) = {}
    /\ Call(f, "user", None)

(***************************************************************************
Exceptions, and the end of a fiber.
***************************************************************************)
Raise(f) ==
    /\ Runs(f, "user")
    /\ Call(f, "throw", None)

Catch(f) ==
    /\ Runs(f, "throw")
    /\ Call(f, "user", None)

(* final_suspend of the fiber's outermost frame: Fiber::Finishing.  Its     *)
(* frames have gone by then, and the lists and awaiters in them.            *)
FinishesUnjoined(f, exceptions) ==
    /\ finished[f] = {}
    /\ state' = [state EXCEPT ![f] = "Finishing"]
    /\ exception' = exceptions
    /\ op' = [op EXCEPT ![f] = "user"]
    /\ target' = [target EXCEPT ![f] = None]
    /\ pending' = [pending EXCEPT ![f] = NoAwaiter]
    /\ UNCHANGED <<continuation, readyQueue, yieldQueue, running, parent,
                   children, finished, runVars, failed>>

Finishing(f, exceptions) ==
    IF Unjoined(f) = {}
       THEN /\ state' = [state EXCEPT ![f] = "Finishing"]
            /\ exception' = exceptions
            /\ op' = [op EXCEPT ![f] = "user"]
            /\ target' = [target EXCEPT ![f] = None]
            /\ pending' = [pending EXCEPT ![f] = NoAwaiter]
            /\ UNCHANGED <<continuation, readyQueue, yieldQueue, running, parent,
                           children, finished, runVars, failed>>
       ELSE Careless /\ Fail("Finishing")

Return(f) ==
    /\ Runs(f, "user")
    /\ Finishing(f, exception)

(* unhandled_exception: Fiber::SetException, then final_suspend             *)
Unhandled(f) ==
    /\ Runs(f, "throw")
    /\ IF children[f] = {}
          THEN Finishing(f, exception \cup {f})
          ELSE Careless /\ Fail("SetException")

(* The switch at the end of Fiber::Resume, for a fiber that parked ...      *)
ResumeParks(f) ==
    /\ Alive
    /\ Parked(f)
    /\ UNCHANGED <<treeVars, codeVars, runVars, failed>>

(* ... and for one that finished.  The notifier of the root, the Manager,   *)
(* only logs; a child's calls OnChildFinished of the parent.                *)
Over(f) == [state EXCEPT ![f] = "Finished"]

RootFinishes(f) ==
    /\ Alive
    /\ running = f /\ state[f] = "Finishing"
    /\ parent[f] = None
    /\ state' = Over(f)
    /\ running' = None
    /\ UNCHANGED <<continuation, readyQueue, yieldQueue, treeVars, codeVars, runVars, failed>>

MovesChild(f, p, left, woken) ==
    /\ children' = [children EXCEPT ![p] = left]
    /\ finished' = [finished EXCEPT ![p] = @ \cup {f}]
    /\ Fire(Over(f), ChildDone, woken)
    /\ running' = None
    /\ UNCHANGED <<continuation, yieldQueue, exception, parent, op, target, failed>>

KeepsChild(f, p) == MovesChild(f, p, children[p], {p} \cap Waiters(ChildDone))
FiresNobody(f, p) == MovesChild(f, p, children[p] \ {f}, {})

OnChildFinished(f, p) ==
    IF ~(f \in children[p]) THEN Fail("OnChildFinished")
    ELSE LET woken == {p} \cap Waiters(ChildDone) IN
         IF ~Schedulable(state, woken) THEN Fail("Schedule")
         ELSE MovesChild(f, p, children[p] \ {f}, woken)

ChildFinishes(f) ==
    /\ Alive
    /\ running = f /\ state[f] = "Finishing"
    /\ \E p \in Fiber : parent[f] = p /\ OnChildFinished(f, p)

(* The last shared_ptr to a joined fiber goes, and its address is free for  *)
(* another.                                                                 *)
Release(c) ==
    /\ Alive
    /\ state[c] = "Finished" /\ c # Root
    /\ \A f \in Fiber : c \notin finished[f] /\ target[f] # c
    /\ state' = [state EXCEPT ![c] = "Absent"]
    /\ exception' = exception \ {c}
    /\ parent' = [parent EXCEPT ![c] = None]
    /\ UNCHANGED <<continuation, readyQueue, yieldQueue, running, children, finished,
                   codeVars, runVars, failed>>

(* The program has run: the Manager has nothing left and the thread is out. *)
ProgramOver == state[Root] = "Finished" /\ ~looping /\ runners = 0

Idle == ProgramOver /\ UNCHANGED vars

-----------------------------------------------------------------------------
Init ==
    /\ state = [f \in Fiber |-> "Absent"]
    /\ continuation = {}
    /\ readyQueue = <<>> /\ yieldQueue = <<>>
    /\ running = None
    /\ exception = {}
    /\ parent = [f \in Fiber |-> None]
    /\ children = [f \in Fiber |-> {}] /\ finished = [f \in Fiber |-> {}]
    /\ pending = [f \in Fiber |-> NoAwaiter]
    /\ op = [f \in Fiber |-> "user"] /\ target = [f \in Fiber |-> None]
    /\ posted = FALSE /\ executing = FALSE
    /\ runners = 0
    /\ looping = FALSE
    /\ failed = "nothing"

(* Where the program has a choice: its own calls. *)
UserStep(f) ==
    \/ \E c \in Fiber : Spawn(f, c) \/ TryJoin(f, c) \/ CallJoin(f, c)
    \/ SpawnFails(f)
    \/ \E keys \in (SUBSET Key) \ {{}} : Await(f, keys)
    \/ Yield(f)
    \/ TryWait(f) \/ CallWaitFor(f) \/ CallWaitAll(f)
    \/ Raise(f) \/ Catch(f) \/ Unhandled(f)
    \/ Return(f)

(* Where it has none: the library's code on behalf of f. *)
LibraryStep(f) ==
    \/ JoinTakes(f) \/ JoinSuspends(f)
    \/ WaitSuspends(f) \/ WaitForTakes(f) \/ WaitAllTakes(f) \/ WaitAllReturns(f)
    \/ ResumeParks(f) \/ RootFinishes(f) \/ ChildFinishes(f)

Next ==
    \/ SpawnRoot \/ RunnerStart \/ RunFiber \/ RunEnd
    \/ \E f \in Fiber : UserStep(f) \/ LibraryStep(f) \/ Release(f)
    \/ \E k \in Source : FireSource(k)
    \/ Idle

Spec == Init /\ [][Next]_vars

(***************************************************************************
Fairness.  The executor runs the handlers posted to it, and a thread inside
the Manager or the library goes on.  Of the program it asks what cooperative
scheduling asks: code that runs again and again without suspending suspends
or returns in the end, and an exception is caught or not.
***************************************************************************)
Parks(f) == Yield(f) \/ Return(f) \/ \E keys \in (SUBSET Key) \ {{}} : Await(f, keys)

Fairness ==
    /\ WF_vars(RunnerStart) /\ WF_vars(RunFiber) /\ WF_vars(RunEnd)
    /\ \A f \in Fiber :
          /\ WF_vars(LibraryStep(f))
          /\ WF_vars(Catch(f) \/ Unhandled(f))
          /\ SF_vars(Parks(f))

FairSpec == Spec /\ Fairness

-----------------------------------------------------------------------------
(* Every variable has its type. *)
TypeOK ==
    /\ SchedTypeOK
    /\ exception \subseteq Fiber
    /\ parent \in [Fiber -> Fiber \cup {None}]
    /\ children \in [Fiber -> SUBSET Fiber] /\ finished \in [Fiber -> SUBSET Fiber]
    /\ pending \in [Fiber -> Pending]
    /\ op \in [Fiber -> Op] /\ target \in [Fiber -> Fiber \cup {None}]
    /\ posted \in BOOLEAN /\ executing \in BOOLEAN /\ looping \in BOOLEAN
    /\ runners \in Nat
    /\ failed \in Assertion \cup {"nothing"}

(* At most one Runner is about, and it is what Posted says; a fiber is on  *)
(* the stack only below Runner::operator() (Manager.cpp:33, Manager.hpp:47).*)
OneRunner ==
    /\ runners = IF posted THEN 1 ELSE 0
    /\ looping => posted /\ executing
    /\ running # None => looping

(* A fiber that the Manager has queued has a Runner that will look at the   *)
(* queues, or is doing so (Manager.cpp:33, 40; Manager.hpp:60-64).          *)
NoStrandedFiber == Len(readyQueue) + Len(yieldQueue) > 0 => runners > 0

(* No wake-up is lost between the test of a condition and the suspension,   *)
(* nor between a Fire and the next await: a fiber has awaiters only while it *)
(* lives, and but for those of a dynamic list only while it is parked or on *)
(* its way back; one that sleeps awaits something and has not been notified. *)
(* A sleeping Join or WaitFor has a child left to wait for (Fiber.cpp:37).  *)
Live(f) == state[f] \notin {"Absent", "Finished"}

SleepsSoundly(f) ==
    /\ pending[f] # NoAwaiter => Live(f) /\ state[f] # "Finishing"
    /\ \A k \in Key \ Listed :
          pending[f][k] # "none" => state[f] \in {"Suspending", "Suspended", "Ready"}
    /\ state[f] \in {"Suspending", "Suspended"} =>
          /\ \E k \in Key : pending[f][k] = "Waiting"
          /\ \A k \in Key \ Listed : pending[f][k] # "Notified"
          /\ op[f] = "join" => target[f] \notin finished[f]
          /\ op[f] \in {"waitFor", "waitAll"} => finished[f] = {} /\ children[f] # {}
          /\ op[f] \in {"join", "waitFor", "waitAll"} => pending[f][ChildDone] = "Waiting"

NoLostWakeup == \A f \in Fiber : SleepsSoundly(f)

(* The tree of fibers: a live fiber is in the _Children of its parent and   *)
(* nowhere else, a finished one in _FinishedChildren until it is joined,    *)
(* and a parent outlives its children (Fiber.cpp:25-31, 149).               *)
TreeOK ==
    /\ \A p, c \in Fiber :
          /\ c \in children[p] <=> Live(c) /\ parent[c] = p
          /\ c \in finished[p] => state[c] = "Finished" /\ parent[c] = p
    /\ \A p \in Fiber : Unjoined(p) # {} => Live(p) /\ state[p] # "Finishing"
    /\ \A c \in Fiber : parent[c] = None <=> c = Root \/ state[c] = "Absent"

(* Structured concurrency down the whole tree, whatever the program does:   *)
(* once the root has returned or failed, no fiber at any depth is left to   *)
(* run, none is queued, and no awaiter is left at any source (Fiber.cpp:149,*)
(* 155).                                                                    *)
RootLast ==
    ~Live(Root) =>
       /\ \A f \in Fiber : ~Live(f) /\ pending[f] = NoAwaiter
       /\ readyQueue = <<>> /\ yieldQueue = <<>>

(* A dump of all fibers that goes from the root to children, and on from    *)
(* those, finds every fiber that is alive: nothing lives outside the tree,  *)
(* nor in a cycle of its own (Fiber.cpp:160-167).                           *)
DumpReachesAll ==
    \A S \in SUBSET Fiber :
       Root \in S /\ (\A p \in S : children[p] \subseteq S) => \A f \in Fiber : Live(f) => f \in S

(* A program that keeps the rules for clients, the names of living siblings *)
(* included, and awaits no dynamic list meets none of the assertions that   *)
(* Assertion names: Fiber.hpp:104, Fiber.cpp:27, 43, 59, 77, 92, 149, 155.  *)
NoFailure == failed = "nothing"

(* An awaiter of a dynamic list waits on while its fiber does not. *)
LeftBehind ==
    \E f \in Fiber, k \in Listed :
       pending[f][k] = "Waiting" /\ state[f] \notin {"Suspended", "Ready"}

(* Whatever the program does, the library's own bookkeeping never trips an  *)
(* assertion: a fiber that ends is a child of its parent (Fiber.cpp:27), and *)
(* whoever fires a context meets parked fibers (Fiber.cpp:92), unless an    *)
(* awaiter of a dynamic list was left behind.                               *)
BookkeepingHolds ==
    /\ failed # "OnChildFinished"
    /\ failed = "Schedule" => LeftBehind

(* A child leaves its parent's care only by a join that the parent runs, and *)
(* its exception leaves with it: the join throws if and only if the child   *)
(* failed, so no failure is swallowed or delivered twice (Fiber.cpp:46-48). *)
ExceptionsDelivered ==
    [][\A p, c \in Fiber : c \in Unjoined(p) /\ c \notin Unjoined(p)' =>
          /\ c \in finished[p]
          /\ running = p
          /\ op'[p] = "throw" <=> c \in exception
          /\ op'[p] = "throw" => target'[p] = c]_vars

(* A fiber that was scheduled runs: whatever else the program does, a Ready *)
(* fiber is resumed (Manager.cpp:45-58).                                    *)
ReadyRuns == \A f \in Fiber : state[f] = "Ready" ~> state[f] = "Running"

(* A Join whose child has finished returns or throws. *)
JoinReturns ==
    \A f, c \in Fiber : op[f] = "join" /\ target[f] = c /\ c \in finished[f] ~> op[f] # "join"

(* README.md:56, rule 1: joining a fiber that is not one's own child fails  *)
(* an assertion, so no fiber ever sleeps in such a Join.                    *)
ForeignJoinFails ==
    \A f \in Fiber : op[f] = "join" /\ state[f] = "Suspended" => target[f] \in children[f]

(***************************************************************************
The task tree that the fibers implement.  A fiber that has been joined is no
task any more, though its object may live on.
***************************************************************************)
Uncollected(c) == c = Root \/ \E p \in Fiber : c \in Unjoined(p)
Ended(c) == state[c] \in {"Finishing", "Finished"} /\ Uncollected(c)

Tree == INSTANCE TaskTree WITH
    Task <- Fiber,
    task <- [c \in Fiber |-> IF Ended(c) THEN "done" ELSE IF Live(c) THEN "live" ELSE "absent"],
    owner <- [c \in Fiber |-> IF c # Root /\ Uncollected(c) THEN parent[c] ELSE None],
    outcome <- [c \in Fiber |-> IF ~Ended(c) THEN None
                                ELSE IF c \in exception THEN "exception" ELSE "value"]

(* Whatever the program does, a debug build keeps the tree of fibers: no   *)
(* fiber ends before its children are joined, each child is joined once, by *)
(* its parent, and its outcome stays what it was until then.                *)
ImplementsTaskTree == Tree!Spec

=============================================================================
