----------------------------- MODULE Scheduler -----------------------------
(***************************************************************************)
(* The part of Fiber.cpp and Manager.cpp that every other component stands  *)
(* on: the state of each fiber, the continuation it parks in itself, and    *)
(* the Manager's two queues.  The operators below are the bodies of         *)
(* Fiber::Schedule, Suspend, OmniYield, Starting and Resume; a module that  *)
(* models a component EXTENDS this one and builds its actions from them.    *)
(*                                                                         *)
(* Everything runs on the one thread that drives the executor, so a step is *)
(* an uninterrupted stretch of that thread between two points at which the  *)
(* choice of what happens next is the program's.                            *)
(***************************************************************************)
EXTENDS Naturals, Sequences, FiniteSets, Functions

CONSTANTS
    Fiber,      \* the addresses fibers may live at
    None        \* not a fiber

ASSUME FiberAssumption == IsFiniteSet(Fiber) /\ None \notin Fiber

VARIABLES
    state,          \* Fiber::_State; "Absent" where no Fiber object lives
    continuation,   \* the fibers whose _Continuation holds a handle
    readyQueue,     \* Manager::_ReadyQueue
    yieldQueue,     \* Manager::_YieldQueue
    running         \* the fiber whose Resume() is on the stack, or None

schedVars == <<state, continuation, readyQueue, yieldQueue, running>>

(* NotStart never survives the constructor: initial_suspend calls Starting. *)
State == {"Absent", "Running", "Suspending", "Suspended", "Yielding",
          "Yielded", "Ready", "Finishing", "Finished"}

(* A set is walked in the order of the addresses of its members (awaiters   *)
(* live in coroutine frames), which the allocator chooses: any order.       *)
Orderings(S) == Bijection(1 .. Cardinality(S), S)

Members(q) == {q[i] : i \in 1 .. Len(q)}

(* Fiber::Schedule on every fiber of fs, st being the state of the fibers   *)
(* when it is called.  A fiber that is Ready already is left alone: two     *)
(* sources may wake one that selects on both.                               *)
ReadyToo(st, fs) == {f \in fs : st[f] \in {"Suspended", "Ready"}}
Sleeping(st, fs) == {f \in fs : st[f] = "Suspended"}
Schedulable(st, fs) == \A f \in fs : st[f] \in {"Suspended", "Ready"}

Schedule(st, fs) ==
    /\ state' = [f \in Fiber |-> IF f \in Sleeping(st, fs) THEN "Ready" ELSE st[f]]
    /\ \E order \in Orderings(Sleeping(st, fs)) : readyQueue' = readyQueue \o order

(* Fiber::Suspend: the awaiter has parked its caller's handle; the fiber is *)
(* Suspending until the stack unwinds to Resume.                            *)
Suspend(f) ==
    /\ state[f] = "Running"
    /\ f \notin continuation
    /\ continuation' = continuation \cup {f}
    /\ state' = [state EXCEPT ![f] = "Suspending"]

(* Fiber::OmniYield *)
OmniYield(f) ==
    /\ state[f] = "Running"
    /\ f \notin continuation
    /\ continuation' = continuation \cup {f}
    /\ state' = [state EXCEPT ![f] = "Yielding"]
    /\ yieldQueue' = Append(yieldQueue, f)

(* The first half of Fiber::Resume, up to the call of the continuation, and *)
(* the two branches of Manager::Run that make it.                           *)
KeepsHandle(f) ==
    /\ state[f] \in {"Ready", "Yielded"}
    /\ f \in continuation
    /\ state' = [state EXCEPT ![f] = "Running"]
    /\ running' = f
    /\ UNCHANGED continuation

Resume(f) ==
    /\ state[f] \in {"Ready", "Yielded"}
    /\ f \in continuation
    /\ state' = [state EXCEPT ![f] = "Running"]
    /\ continuation' = continuation \ {f}
    /\ running' = f

RunReady ==
    /\ running = None
    /\ readyQueue # <<>>
    /\ readyQueue' = Tail(readyQueue)
    /\ Resume(Head(readyQueue))
    /\ UNCHANGED yieldQueue

YieldedFirst ==
    /\ running = None
    /\ yieldQueue # <<>>
    /\ yieldQueue' = Tail(yieldQueue)
    /\ Resume(Head(yieldQueue))
    /\ UNCHANGED readyQueue

RunYielded ==
    /\ running = None
    /\ readyQueue = <<>>
    /\ yieldQueue # <<>>
    /\ yieldQueue' = Tail(yieldQueue)
    /\ Resume(Head(yieldQueue))
    /\ UNCHANGED readyQueue

(* The switch at the end of Fiber::Resume, for a fiber that has parked.     *)
Parked(f) ==
    /\ f = running
    /\ state[f] \in {"Suspending", "Yielding"}
    /\ f \in continuation
    /\ state' = [state EXCEPT ![f] = IF state[f] = "Suspending" THEN "Suspended"
                                                                ELSE "Yielded"]
    /\ running' = None
    /\ UNCHANGED <<continuation, readyQueue, yieldQueue>>

(***************************************************************************)
(* What the queues must mean, for every component built on them.            *)
(***************************************************************************)
NoRepeats(q) == \A i, j \in 1 .. Len(q) : q[i] = q[j] => i = j

SchedTypeOK ==
    /\ state \in [Fiber -> State]
    /\ continuation \subseteq Fiber
    /\ readyQueue \in Seq(Fiber)
    /\ yieldQueue \in Seq(Fiber)
    /\ running \in Fiber \cup {None}

(* A fiber waits in the ready queue exactly while it is Ready and in the    *)
(* yield queue exactly while it yields, once, so Resume never meets a fiber *)
(* in another state (Fiber.cpp:122).                                        *)
QueueOK ==
    /\ NoRepeats(readyQueue) /\ NoRepeats(yieldQueue)
    /\ \A f \in Fiber : f \in Members(readyQueue) <=> state[f] = "Ready"
    /\ \A f \in Fiber : f \in Members(yieldQueue) <=> state[f] \in {"Yielding", "Yielded"}

(* One fiber is on the stack at a time, and exactly the others that can     *)
(* still run hold a continuation (the asserts of Suspend and Resume).       *)
StackOK ==
    \A f \in Fiber :
        /\ f = running <=> state[f] \in {"Running", "Suspending", "Yielding", "Finishing"}
        /\ f \in continuation <=>
              state[f] \in {"Suspending", "Suspended", "Yielding", "Yielded", "Ready"}

=============================================================================
