------------------------------ MODULE TaskTree ------------------------------
(***************************************************************************
What the fibers promise, without a scheduler: structured concurrency.  Tasks
form a tree below a root; a task ends only when every task it has spawned has
been collected, and only its owner collects it, once, after it has ended and
with the outcome it ended with.
***************************************************************************)
CONSTANTS Task, Root, None

VARIABLES
    task,       \* "absent", "live" or "done"
    owner,      \* who must collect the task, None for the root
    outcome     \* how a task that is done has ended: "value" or "exception"

vars == <<task, owner, outcome>>

Init ==
    /\ task = [t \in Task |-> "absent"]
    /\ owner = [t \in Task |-> None]
    /\ outcome = [t \in Task |-> None]

(* The root starts, or starts again once it is done. *)
Start ==
    /\ task[Root] \in {"absent", "done"}
    /\ task' = [task EXCEPT ![Root] = "live"]
    /\ outcome' = [outcome EXCEPT ![Root] = None]
    /\ UNCHANGED owner

Spawn(p, c) ==
    /\ task[p] = "live"
    /\ task[c] = "absent" /\ c # Root
    /\ task' = [task EXCEPT ![c] = "live"]
    /\ owner' = [owner EXCEPT ![c] = p]
    /\ UNCHANGED outcome

End(t, o) ==
    /\ task[t] = "live"
    /\ \A c \in Task : owner[c] # t
    /\ task' = [task EXCEPT ![t] = "done"]
    /\ outcome' = [outcome EXCEPT ![t] = o]
    /\ UNCHANGED owner

Collect(p, c) ==
    /\ task[p] = "live"
    /\ task[c] = "done" /\ owner[c] = p
    /\ task' = [task EXCEPT ![c] = "absent"]
    /\ owner' = [owner EXCEPT ![c] = None]
    /\ outcome' = [outcome EXCEPT ![c] = None]

Next ==
    \/ Start
    \/ \E p, c \in Task : Spawn(p, c) \/ Collect(p, c)
    \/ \E t \in Task, o \in {"value", "exception"} : End(t, o)

Spec == Init /\ [][Next]_vars

=============================================================================
