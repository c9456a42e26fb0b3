------------------------------- MODULE Mutex -------------------------------
(***************************************************************************)
(* Mutex.hpp: fibers that lock a mutex with co_await mutex.Wait(), hold the *)
(* LockGuard while they do other things, and destroy it.                    *)
(***************************************************************************)
EXTENDS Program, SequencesExt

VARIABLES
    guards,     \* the fibers that hold a LockGuard
    lockOwner,  \* Mutex::_LockOwner
    waitList    \* Mutex::_WaitList, each Awaiter by its fiber

vars == <<progVars, guards, lockOwner, waitList>>

IsLocked == lockOwner # None

(* Mutex::Wait, up to its loop.  A fiber does not lock twice. *)
CallWait(f) ==
    /\ Code(f, "user")
    /\ f \notin guards
    /\ op' = [op EXCEPT ![f] = "lock"]
    /\ UNCHANGED <<schedVars, awaiting, guards, lockOwner, waitList>>

(* The loop finds the mutex locked: the Awaiter puts itself at the end of   *)
(* the list and suspends its fiber.                                         *)
WaitSuspends(f) ==
    /\ Code(f, "lock")
    /\ IsLocked
    /\ Suspend(f)
    /\ waitList' = Append(waitList, f)
    /\ UNCHANGED <<readyQueue, yieldQueue, running, op, awaiting, guards, lockOwner>>

(* It finds it free: the constructor of LockGuard. *)
IfInsteadOfWhile(f) ==
    /\ Code(f, "lock")
    /\ lockOwner' = f
    /\ guards' = guards \cup {f}
    /\ op' = [op EXCEPT ![f] = "user"]
    /\ UNCHANGED <<schedVars, awaiting, waitList>>

WaitReturns(f) ==
    /\ Code(f, "lock")
    /\ ~IsLocked
    /\ lockOwner' = f
    /\ guards' = guards \cup {f}
    /\ op' = [op EXCEPT ![f] = "user"]
    /\ UNCHANGED <<schedVars, awaiting, waitList>>

(* ~LockGuard and Mutex::ScheduleNext.                                      *)
WakesNobody(f) ==
    /\ Code(f, "user") /\ f \in guards
    /\ guards' = guards \ {f}
    /\ lockOwner' = None
    /\ UNCHANGED <<schedVars, op, awaiting, waitList>>

Unlock(f) ==
    /\ Code(f, "user") /\ f \in guards
    /\ guards' = guards \ {f}
    /\ lockOwner' = None
    /\ LET next == IF waitList = <<>> THEN {} ELSE {Head(waitList)} IN
          /\ Schedulable(state, next)
          /\ Schedule(state, next)
    /\ UNCHANGED <<continuation, yieldQueue, running, op, awaiting, waitList>>

(* Manager::Run resumes a fiber: an Awaiter leaves the list it is in.       *)
Without(q, f) ==
    IF f \in Members(q) THEN RemoveAt(q, CHOOSE i \in 1 .. Len(q) : q[i] = f) ELSE q

KeepsAwaiter ==
    /\ Run
    /\ UNCHANGED <<op, awaiting, guards, lockOwner, waitList>>

Resumes ==
    /\ Run
    /\ waitList' = Without(waitList, running')
    /\ UNCHANGED <<op, awaiting, guards, lockOwner>>

(* What fibers do besides; one that holds the lock does not end.            *)
Otherwise(f) ==
    /\ OwnBusiness(f) \/ (f \notin guards /\ Finish(f))
    /\ UNCHANGED <<guards, lockOwner, waitList>>

Handler ==
    /\ Elsewhere
    /\ UNCHANGED <<guards, lockOwner, waitList>>

Over ==
    /\ \A f \in Fiber : state[f] = "Finished"
    /\ UNCHANGED vars

-----------------------------------------------------------------------------
Init ==
    /\ ProgramInit
    /\ guards = {} /\ lockOwner = None /\ waitList = <<>>

Next ==
    \/ Resumes
    \/ \E f \in Fiber : \/ CallWait(f) \/ WaitSuspends(f) \/ WaitReturns(f)
                        \/ Unlock(f) \/ Otherwise(f)
    \/ Handler
    \/ Over

Spec == Init /\ [][Next]_vars

(* The thread goes on, and the code of a fiber parks or ends in the end.    *)
Fairness ==
    /\ WF_vars(Resumes)
    /\ \A f \in Fiber :
          /\ WF_vars(WaitSuspends(f)) /\ WF_vars(WaitReturns(f))
          /\ WF_vars(Unwind(f) /\ UNCHANGED <<guards, lockOwner, waitList>>)
          /\ SF_vars((Parks(f) \/ (f \notin guards /\ Finish(f)))
                        /\ UNCHANGED <<guards, lockOwner, waitList>>)

FairSpec == Spec /\ Fairness

-----------------------------------------------------------------------------
TypeOK ==
    /\ ProgramTypeOK
    /\ op \in [Fiber -> {"user", "lock"}]
    /\ guards \subseteq Fiber
    /\ lockOwner \in Fiber \cup {None}
    /\ waitList \in Seq(Fiber)

(* Exclusion: at most one LockGuard lives, and it is the one the mutex      *)
(* knows, whoever was woken or came first (Mutex.hpp:67, 72).               *)
Exclusion == guards = IF IsLocked THEN {lockOwner} ELSE {}

(* Exactly the fibers that sleep in Wait, or are on their way back, are in  *)
(* the list, once, in a state in which ScheduleNext may wake them           *)
(* (Fiber.cpp:92, Mutex.hpp:99).                                            *)
WaitersListed ==
    /\ NoRepeats(waitList)
    /\ \A f \in Fiber :
          f \in Members(waitList) <=>
             op[f] = "lock" /\ state[f] \in {"Suspending", "Suspended", "Ready"}

(* A free mutex is never left to sleeping waiters: its first waiter has     *)
(* been woken, or a fiber that is about to take it runs (Mutex.hpp:94).     *)
NoSleeperAtFreeLock ==
    ~IsLocked /\ waitList # <<>> =>
        \/ state[Head(waitList)] = "Ready"
        \/ running # None /\ Code(running, "lock")

(* Somebody takes a free mutex that fibers wait for. *)
FreeLockTaken == ~IsLocked /\ waitList # <<>> ~> IsLocked

=============================================================================
