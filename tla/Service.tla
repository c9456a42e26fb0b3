------------------------------ MODULE Service ------------------------------
(***************************************************************************)
(* What a remote call promises: a request is taken up at most once, is      *)
(* answered once, "ok" exactly if its function ran to the end, and a        *)
(* request that was sent is answered and its caller returns.                *)
(***************************************************************************)
CONSTANT Client

VARIABLES
    phase,      \* where the call of each client is, or "out"
    reply       \* the answer to its last call

vars == <<phase, reply>>

Phase == {"out", "put", "sent", "served", "answered"}

Moves(c, from, to) == phase[c] \in from /\ phase' = [phase EXCEPT ![c] = to]
Answers(c, r) == reply' = [reply EXCEPT ![c] = r]

Begin(c) == Moves(c, {"out"}, "put") /\ Answers(c, "none")
Refuse(c) == Moves(c, {"put"}, "out") /\ Answers(c, "failed")
Send(c) == Moves(c, {"put"}, "sent") /\ UNCHANGED reply

(* There is one server. *)
TakeUp(c) ==
    /\ \A d \in Client : phase[d] # "served"
    /\ Moves(c, {"sent"}, "served")
    /\ UNCHANGED reply

Complete(c) == Moves(c, {"served"}, "answered") /\ Answers(c, "ok")
Drop(c) == Moves(c, {"sent", "served"}, "answered") /\ Answers(c, "failed")
Return(c) == Moves(c, {"answered"}, "out") /\ UNCHANGED reply

Init ==
    /\ phase = [c \in Client |-> "out"]
    /\ reply = [c \in Client |-> "none"]

Serve(c) == TakeUp(c) \/ Complete(c) \/ Drop(c) \/ Return(c)

Next == \E c \in Client : Begin(c) \/ Refuse(c) \/ Send(c) \/ Serve(c)

Spec == Init /\ [][Next]_vars

FairSpec == Spec /\ \A c \in Client : SF_vars(Serve(c))

=============================================================================
