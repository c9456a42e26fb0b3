------------------------------- MODULE Queues -------------------------------
(***************************************************************************)
(* EventQueue.hpp and ExternalQueue.hpp in the worker pool of               *)
(* tools/example.cpp: workers await the queue, take tasks from it, work on  *)
(* a timer, and end with a pill; somebody pushes the tasks and then a pill  *)
(* for every worker.  An EventQueue is pushed to on the fibers' thread, an  *)
(* ExternalQueue by threads of which each takes its steps at any moment.    *)
(***************************************************************************)
EXTENDS Program

CONSTANTS
    Task,
    Rechecks    \* do workers ask IsEmpty before they pop, as the example's?

VARIABLES
    external,   \* is it an ExternalQueue?
    queue,      \* _Queue; a pill is known by one of the workers
    unpushed,   \* the tasks and pills that will be pushed
    notifying,  \* those whose thread is between Push's two locks
    posted,     \* those whose posted Fire holds the context that lives now
    got         \* what each worker has in hand

queueVars == <<external, queue, unpushed, notifying, posted, got>>
vars == <<progVars, queueVars>>

Pill == Fiber
Element == Task \cup Pill

ASSUME QueuesAssumption ==
    /\ "queue" \in Context /\ Rechecks \in BOOLEAN
    /\ IsFiniteSet(Task) /\ Task \cap Pill = {} /\ None \notin Task

(* The awaiters that live share one context, which goes with the last.      *)
Holders(ops) == {f \in Fiber : ops[f] \in {"await", "missed", "resumed"}}

(* Push under the lock, or all of an EventQueue's Push. *)
Pushes(e) ==
    /\ e \in unpushed
    /\ e \in Pill => unpushed \subseteq Pill
    /\ queue' = Append(queue, e)
    /\ unpushed' = unpushed \ {e}
    /\ UNCHANGED <<external, posted, got>>

EventPush(e) ==
    /\ ~external
    /\ Outside
    /\ Pushes(e)
    /\ Fire("queue")
    /\ UNCHANGED <<op, notifying>>

ExternalPush(e) ==
    /\ external
    /\ Pushes(e)
    /\ notifying' = notifying \cup {e}
    /\ UNCHANGED progVars

(* ExternalQueue::Notify copies the weak pointer to the context and posts a *)
(* handler, which does nothing when the context has gone.                   *)
NotifiesSuspended(e) ==
    /\ e \in notifying
    /\ notifying' = notifying \ {e}
    /\ posted' = IF Waiters("queue") # {} THEN posted \cup {e} ELSE posted
    /\ UNCHANGED <<progVars, external, queue, unpushed, got>>

Notify(e) ==
    /\ e \in notifying
    /\ notifying' = notifying \ {e}
    /\ posted' = IF Holders(op) # {} THEN posted \cup {e} ELSE posted
    /\ UNCHANGED <<progVars, external, queue, unpushed, got>>

Delivers(e) ==
    /\ running = None
    /\ e \in posted
    /\ posted' = posted \ {e}
    /\ Fire("queue")
    /\ UNCHANGED <<op, external, queue, unpushed, notifying, got>>

(* The worker's co_await creates the awaiter, tests, and suspends. *)
At(f, from, to) == Code(f, from) /\ op' = [op EXCEPT ![f] = to]

Awaits(f) ==
    /\ At(f, "user", "await")
    /\ got[f] = None
    /\ UNCHANGED <<schedVars, awaiting, queueVars>>

Tests(f) ==
    /\ At(f, "await", IF queue = <<>> THEN "missed" ELSE "resumed")
    /\ UNCHANGED <<schedVars, awaiting, queueVars>>

Suspends(f) ==
    /\ At(f, "missed", "resumed")
    /\ AwaitOn(f, "queue")
    /\ UNCHANGED queueVars

(* The awaiter goes, and the worker looks whether others have been here.    *)
LooksNot(f) ==
    /\ At(f, "resumed", "pop")
    /\ posted' = IF Holders(op') = {} THEN {} ELSE posted
    /\ UNCHANGED <<schedVars, awaiting, external, queue, unpushed, notifying, got>>

Looks(f) ==
    /\ At(f, "resumed", IF Rechecks /\ queue = <<>> THEN "user" ELSE "pop")
    /\ posted' = IF Holders(op') = {} THEN {} ELSE posted
    /\ UNCHANGED <<schedVars, awaiting, external, queue, unpushed, notifying, got>>

FrontOnly(f) ==
    /\ At(f, "pop", "user")
    /\ queue # <<>>
    /\ got' = [got EXCEPT ![f] = Head(queue)]
    /\ UNCHANGED <<schedVars, awaiting, external, queue, unpushed, notifying, posted>>

PopFront(f) ==
    /\ At(f, "pop", "user")
    /\ queue # <<>>
    /\ queue' = Tail(queue)
    /\ got' = [got EXCEPT ![f] = Head(queue)]
    /\ UNCHANGED <<schedVars, awaiting, external, unpushed, notifying, posted>>

(* ExternalQueue::Clear by any thread, before the pills, where workers look *)
(* again.  The program must keep it from between a worker's look and its    *)
(* pop: the lock is free there, and the pop would find the queue empty.     *)
Clear ==
    /\ external /\ Rechecks
    /\ \A f \in Fiber : op[f] # "pop"
    /\ Pill \subseteq unpushed
    /\ queue' = <<>>
    /\ UNCHANGED <<progVars, external, unpushed, notifying, posted, got>>

(* A worker starts, works, and ends with its pill.                          *)
Works(f) ==
    /\ got[f] \in Task
    /\ Sleep(f)
    /\ got' = [got EXCEPT ![f] = None]
    /\ UNCHANGED <<external, queue, unpushed, notifying, posted>>

Moves(f) ==
    /\ Start(f) \/ Yield(f) \/ Unwind(f) \/ (got[f] \in Pill /\ Finish(f))
    /\ UNCHANGED queueVars

TimerExpires == Elsewhere /\ UNCHANGED queueVars

Resumes == Run /\ UNCHANGED <<op, awaiting, queueVars>>

Over ==
    /\ \A f \in Fiber : state[f] = "Finished"
    /\ UNCHANGED vars

-----------------------------------------------------------------------------
Init ==
    /\ ProgramInit
    /\ external \in BOOLEAN
    /\ queue = <<>> /\ unpushed = Element
    /\ notifying = {} /\ posted = {}
    /\ got = [f \in Fiber |-> None]

AwaitStep(f) == Tests(f) \/ Suspends(f) \/ Looks(f) \/ PopFront(f)

Next ==
    \/ \E e \in Element : EventPush(e) \/ ExternalPush(e) \/ Notify(e) \/ Delivers(e)
    \/ \E f \in Fiber : Awaits(f) \/ AwaitStep(f) \/ Works(f) \/ Moves(f)
    \/ Clear \/ TimerExpires \/ Resumes \/ Over

Spec == Init /\ [][Next]_vars

(* The thread goes on; producers push, workers start, await, work and    *)
(* end, what was posted and timers come, all of it a finite number of times.*)
Goes ==
    \/ \E e \in Element : EventPush(e) \/ ExternalPush(e) \/ Delivers(e)
    \/ \E f \in Fiber : Awaits(f) \/ Works(f) \/ ((Start(f) \/ Finish(f)) /\ Moves(f))
    \/ TimerExpires

Fairness ==
    /\ WF_vars(Resumes) /\ WF_vars(\E e \in Element : Notify(e))
    /\ WF_vars(\E f \in Fiber : AwaitStep(f) \/ (Unwind(f) /\ Moves(f)))
    /\ SF_vars(Goes)

FairSpec == Spec /\ Fairness

-----------------------------------------------------------------------------
(* Nobody pops an empty queue, which is undefined in std::queue and an      *)
(* assertion of ExternalQueue.hpp:71, though every push wakes all workers.  *)
NoEmptyPop == \A f \in Fiber : op[f] = "pop" => queue # <<>>

(* No push is lost on the workers that sleep: while there is something in   *)
(* the queue a Fire that reaches them is posted or about to be, whatever    *)
(* context it was captured from (ExternalQueue.hpp:82-85, EventQueue.hpp:36).*)
PushReachesSleepers ==
    queue # <<>> /\ Waiters("queue") # {} => notifying \cup posted # {}

(* The pool winds up: every worker gets its pill (tools/example.cpp:32-36). *)
PoolWindsUp == <>(\A f \in Fiber : state[f] = "Finished")

=============================================================================
