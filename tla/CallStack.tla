----------------------------- MODULE CallStack -----------------------------
(***************************************************************************)
(* What nested coroutines promise each fiber: a call stack of its own.  A   *)
(* call pushes a frame, whose end pops it and hands its result, once, to    *)
(* the frame below.                                                         *)
(***************************************************************************)
EXTENDS Naturals, Sequences

CONSTANTS Fiber, Frame

VARIABLES
    stack,      \* of each fiber, the outermost frame first
    result      \* of the call that ended, until the frame below takes it

vars == <<stack, result>>

Put(var, f, value) == var' = [var EXCEPT ![f] = value]

Enter(f) ==
    /\ stack[f] = <<>>
    /\ Put(stack, f, <<f>>)
    /\ UNCHANGED result

Call(f, c) ==
    /\ stack[f] # <<>> /\ result[f] = "none"
    /\ \A g \in Fiber : \A i \in DOMAIN stack[g] : stack[g][i] # c
    /\ Put(stack, f, Append(stack[f], c))
    /\ UNCHANGED result

End(f, r) ==
    /\ Len(stack[f]) > 1 /\ result[f] = "none"
    /\ Put(stack, f, SubSeq(stack[f], 1, Len(stack[f]) - 1))
    /\ Put(result, f, r)

Take(f) ==
    /\ result[f] # "none"
    /\ Put(result, f, "none")
    /\ UNCHANGED stack

Leave(f) ==
    /\ Len(stack[f]) = 1 /\ result[f] = "none"
    /\ Put(stack, f, <<>>)
    /\ UNCHANGED result

Init ==
    /\ stack = [f \in Fiber |-> <<>>]
    /\ result = [f \in Fiber |-> "none"]

Next ==
    \E f \in Fiber :
        \/ Enter(f) \/ Take(f) \/ Leave(f)
        \/ \E c \in Frame : Call(f, c)
        \/ \E r \in {"value", "error"} : End(f, r)

Spec == Init /\ [][Next]_vars

=============================================================================
