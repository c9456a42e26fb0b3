------------------------------ MODULE Program ------------------------------
(***************************************************************************)
(* What the module of one primitive (a mutex, a pipe, a queue...) needs of  *)
(* the rest of the library: fibers that start, suspend on await contexts,   *)
(* are fired, yield and end, over the Manager's loop.  Fibers has the whole *)
(* of the fiber tree and of the Runner; here a thread is always inside      *)
(* Manager::Run or ready to be, which OneRunner and NoStrandedFiber of that *)
(* module justify.                                                          *)
(*                                                                         *)
(* A fiber awaits one context at a time (no Select), so its entry in a      *)
(* _PendingSet matters only until it is notified, and awaiting[f] is the    *)
(* context in which f has a Waiting entry.                                  *)
(***************************************************************************)
EXTENDS Scheduler

CONSTANT Context    \* the await contexts; "elsewhere" is none of the primitive's

VARIABLES
    op,         \* what the fiber's code is inside of, "user" for its own
    awaiting    \* the context in which the fiber waits to be notified, or None

progVars == <<schedVars, op, awaiting>>

ASSUME ProgramAssumption == "elsewhere" \in Context /\ None \notin Context

Code(f, o) == running = f /\ state[f] = "Running" /\ op[f] = o

(* The thread is where a handler of the executor, or a fiber's own code,    *)
(* may call the library.                                                    *)
Outside == running # None => Code(running, "user")

Waiters(k) == {f \in Fiber : awaiting[f] = k}

(* Fiber::Spawn or Manager::SpawnRoot, up to its Schedule. *)
Start(f) ==
    /\ Outside
    /\ state[f] = "Absent"
    /\ Schedule([state EXCEPT ![f] = "Suspended"], {f})
    /\ continuation' = continuation \cup {f}
    /\ UNCHANGED <<yieldQueue, running, op, awaiting>>

(* co_await on a source that is not ready: the awaiter's await_suspend.     *)
AwaitOn(f, k) ==
    /\ Suspend(f)
    /\ awaiting' = [awaiting EXCEPT ![f] = k]
    /\ UNCHANGED <<readyQueue, yieldQueue, running>>

Sleep(f) ==
    /\ Code(f, "user")
    /\ AwaitOn(f, "elsewhere")
    /\ UNCHANGED op

(* SharedAwaitContext::Fire wakes those that wait for the context k. *)
Wake(fs) ==
    /\ Schedulable(state, fs)
    /\ Schedule(state, fs)
    /\ awaiting' = [f \in Fiber |-> IF f \in fs THEN None ELSE awaiting[f]]
    /\ UNCHANGED <<continuation, yieldQueue, running>>

Fire(k) == Wake(Waiters(k))

Elsewhere ==
    /\ Outside
    /\ Waiters("elsewhere") # {}
    /\ Fire("elsewhere")
    /\ UNCHANGED op

(* co_await OmniYield() *)
Yield(f) ==
    /\ Code(f, "user")
    /\ OmniYield(f)
    /\ UNCHANGED <<readyQueue, running, op, awaiting>>

(* The loop of Manager::Run, and the end of Fiber::Resume. *)
Run == RunReady \/ RunYielded

Unwind(f) ==
    /\ Parked(f)
    /\ UNCHANGED <<op, awaiting>>

Finish(f) ==
    /\ Code(f, "user")
    /\ state' = [state EXCEPT ![f] = "Finished"]
    /\ running' = None
    /\ UNCHANGED <<continuation, readyQueue, yieldQueue, op, awaiting>>

ProgramInit ==
    /\ state = [f \in Fiber |-> "Absent"]
    /\ continuation = {}
    /\ readyQueue = <<>> /\ yieldQueue = <<>>
    /\ running = None
    /\ op = [f \in Fiber |-> "user"]
    /\ awaiting = [f \in Fiber |-> None]

(* What a fiber's code does that is none of the primitive's business; a     *)
(* primitive may forbid it to end.                                          *)
OwnBusiness(f) == Start(f) \/ Sleep(f) \/ Yield(f) \/ Unwind(f)

(* Cooperative code parks in the end. *)
Parks(f) == Sleep(f) \/ Yield(f)

ProgramTypeOK ==
    /\ SchedTypeOK
    /\ awaiting \in [Fiber -> Context \cup {None}]

(* A fiber that waits to be notified is asleep or about to be: so whoever   *)
(* fires its context may schedule it (Fiber.cpp:92).                        *)
WaitersAsleep ==
    \A f \in Fiber : awaiting[f] # None => state[f] \in {"Suspending", "Suspended"}

=============================================================================
