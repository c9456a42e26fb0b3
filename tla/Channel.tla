------------------------------ MODULE Channel ------------------------------
(***************************************************************************)
(* What a pipe promises its clients: a slot for one value, in which calls   *)
(* take effect at one moment between their beginning and their return.      *)
(* Nothing here of fibers that sleep or are woken.                          *)
(***************************************************************************)
CONSTANTS
    Client,     \* a client's value is known by the client that puts it
    Reader      \* the one that reads

VARIABLES
    slot,       \* "Empty", "Closed", or the client whose value it holds
    call,       \* the call under way of each client, or "user"
    result      \* what the last call of each client returned

vars == <<slot, call, result>>

Holds == slot \in Client

Begin(c) ==
    /\ call[c] = "user"
    /\ \E o \in {"put", "shutdown"} \cup (IF c = Reader THEN {"read"} ELSE {}) :
          call' = [call EXCEPT ![c] = o]
    /\ result' = [result EXCEPT ![c] = "none"]
    /\ UNCHANGED slot

Returns(c, r) ==
    /\ call' = [call EXCEPT ![c] = "user"]
    /\ result' = [result EXCEPT ![c] = r]

(* A put or a shutdown waits for the slot to be free of a value. *)
Put(c) ==
    /\ call[c] = "put" /\ slot = "Empty"
    /\ slot' = c
    /\ Returns(c, "ok")

Shutdown(c) ==
    /\ call[c] = "shutdown" /\ slot = "Empty"
    /\ slot' = "Closed"
    /\ Returns(c, "ok")

Refuse(c) ==
    /\ call[c] \in {"put", "shutdown"} /\ slot = "Closed"
    /\ Returns(c, "closed")
    /\ UNCHANGED slot

Write(c) == Put(c) \/ Shutdown(c) \/ Refuse(c)

Receive(c) ==
    /\ call[c] = "read" /\ Holds
    /\ slot' = "Empty"
    /\ Returns(c, slot)

EndOfData(c) ==
    /\ call[c] = "read" /\ slot = "Closed"
    /\ Returns(c, "closed")
    /\ UNCHANGED slot

Read(c) == Receive(c) \/ EndOfData(c)

(* Anybody may close the channel and drop what it holds. *)
Discard == slot' = "Closed" /\ UNCHANGED <<call, result>>

Init ==
    /\ slot = "Empty"
    /\ call = [c \in Client |-> "user"]
    /\ result = [c \in Client |-> "none"]

Next == Discard \/ \E c \in Client : Begin(c) \/ Write(c) \/ Read(c)

Spec == Init /\ [][Next]_vars

(* A reader gets what there is, a writer of a closed channel its refusal;   *)
(* of several writers some one gets a free slot.                            *)
Fairness ==
    /\ WF_vars(\E c \in Client : Put(c) \/ Shutdown(c))
    /\ \A c \in Client : WF_vars(Refuse(c)) /\ WF_vars(Read(c))

FairSpec == Spec /\ Fairness

=============================================================================
