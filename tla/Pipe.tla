-------------------------------- MODULE Pipe --------------------------------
(***************************************************************************)
(* Pipe.hpp: fibers that put values into a pipe of one place or shut it     *)
(* down, the fiber that reads it, and whoever discards and closes it.       *)
(* Remote calls are several producers of one pipe, so any fiber may put;    *)
(* one fiber, Reader, consumes.                                             *)
(***************************************************************************)
EXTENDS Program

CONSTANT Reader

VARIABLES
    data,       \* Pipe::_Data; a value is known by the fiber that put it
    result      \* what the last call of each fiber returned

vars == <<progVars, data, result>>

ASSUME PipeAssumption ==
    /\ Reader \in Fiber
    /\ {"read", "write"} \subseteq Context
    /\ {"Empty", "Closed", "none", "ok", "closed"} \cap Fiber = {}

HoldsValue == data \in Fiber
Writing(f) == Code(f, "put") \/ Code(f, "shutdown")
Reading(f) == Code(f, "read") \/ Code(f, "woken")

Calls(f, o) ==
    /\ Code(f, "user")
    /\ op' = [op EXCEPT ![f] = o]
    /\ result' = [result EXCEPT ![f] = "none"]
    /\ UNCHANGED <<schedVars, awaiting, data>>

Returns(f, r) ==
    /\ op' = [op EXCEPT ![f] = "user"]
    /\ result' = [result EXCEPT ![f] = r]

CallPut(f) == Calls(f, "put")
CallShutdown(f) == Calls(f, "shutdown")
CallRead(f) == f = Reader /\ Calls(f, "read")

(* The loop of PutData, and what follows it. *)
PutSuspends(f) ==
    /\ Writing(f)
    /\ HoldsValue
    /\ AwaitOn(f, "write")
    /\ UNCHANGED <<op, data, result>>

PutRefused(f) ==
    /\ Writing(f)
    /\ data = "Closed"
    /\ Returns(f, "closed")
    /\ UNCHANGED <<schedVars, awaiting, data>>

IfInsteadOfWhile(f) ==
    /\ Writing(f)
    /\ data # "Closed"
    /\ data' = IF op[f] = "put" THEN f ELSE "Closed"
    /\ Fire("read")
    /\ Returns(f, "ok")

PutStores(f) ==
    /\ Writing(f)
    /\ data = "Empty"
    /\ data' = IF op[f] = "put" THEN f ELSE "Closed"
    /\ Fire("read")
    /\ Returns(f, "ok")

(* co_await on the consumer: it tests once, suspends, and once woken takes  *)
(* what it finds, which must be something (AwaitValue).                     *)
ReadSuspends(f) ==
    /\ Code(f, "read")
    /\ data = "Empty"
    /\ AwaitOn(f, "read")
    /\ op' = [op EXCEPT ![f] = "woken"]
    /\ UNCHANGED <<data, result>>

WakesNoWriter(f) ==
    /\ Reading(f)
    /\ HoldsValue
    /\ data' = "Empty"
    /\ Returns(f, data)
    /\ UNCHANGED <<schedVars, awaiting>>

ReadTakes(f) ==
    /\ Reading(f)
    /\ HoldsValue
    /\ data' = "Empty"
    /\ Fire("write")
    /\ Returns(f, data)

ReadEnds(f) ==
    /\ Reading(f)
    /\ data = "Closed"
    /\ Returns(f, "closed")
    /\ UNCHANGED <<schedVars, awaiting, data>>

(* Consumer::DiscardAndClose, which any code may call: it wakes the writers *)
(* and after them the reader.                                               *)
Both == Waiters("write") \cup Waiters("read")

FireBoth ==
    /\ Wake(Both)
    /\ \A i, j \in Len(readyQueue) + 1 .. Len(readyQueue') :
          i < j /\ readyQueue'[i] \in Waiters("read") => readyQueue'[j] \in Waiters("read")

DiscardsOnly ==
    /\ Outside
    /\ data' = "Empty"
    /\ FireBoth
    /\ UNCHANGED <<op, result>>

DiscardAndClose ==
    /\ Outside
    /\ data' = "Closed"
    /\ FireBoth
    /\ UNCHANGED <<op, result>>

Otherwise(f) ==
    /\ OwnBusiness(f) \/ Finish(f)
    /\ UNCHANGED <<data, result>>

Resumes == Run /\ UNCHANGED <<op, awaiting, data, result>>

Handler == Elsewhere /\ UNCHANGED <<data, result>>

Over ==
    /\ \A f \in Fiber : state[f] = "Finished"
    /\ UNCHANGED vars

-----------------------------------------------------------------------------
Init ==
    /\ ProgramInit
    /\ data = "Empty"
    /\ result = [f \in Fiber |-> "none"]

WriterStep(f) == PutSuspends(f) \/ PutRefused(f) \/ PutStores(f)
ReaderStep(f) == ReadSuspends(f) \/ ReadTakes(f) \/ ReadEnds(f)

Next ==
    \/ Resumes \/ Handler \/ DiscardAndClose \/ Over
    \/ \E f \in Fiber : \/ CallPut(f) \/ CallShutdown(f) \/ CallRead(f)
                        \/ WriterStep(f) \/ ReaderStep(f) \/ Otherwise(f)

Spec == Init /\ [][Next]_vars

(* The thread goes on, and the code of a fiber parks or ends in the end.    *)
Fairness ==
    /\ WF_vars(Resumes)
    /\ \A f \in Fiber :
          /\ WF_vars(WriterStep(f)) /\ WF_vars(ReaderStep(f))
          /\ WF_vars(Unwind(f) /\ UNCHANGED <<data, result>>)
          /\ SF_vars((Parks(f) \/ Finish(f)) /\ UNCHANGED <<data, result>>)

FairSpec == Spec /\ Fairness

-----------------------------------------------------------------------------
TypeOK ==
    /\ ProgramTypeOK
    /\ op \in [Fiber -> {"user", "put", "shutdown", "read", "woken"}]
    /\ data \in Fiber \cup {"Empty", "Closed"}
    /\ result \in [Fiber -> Fiber \cup {"none", "ok", "closed"}]

(* Those that wait are asleep, and not without a reason: to write while the *)
(* pipe holds a value, to read while it is empty, whatever the other side   *)
(* did since they tested (Pipe.hpp:60, 71, 92, 107).                        *)
SleepersHaveReason ==
    /\ WaitersAsleep
    /\ \A f \in Fiber :
          /\ awaiting[f] = "write" => HoldsValue
          /\ awaiting[f] = "read" => data = "Empty"

(* A reader that was woken finds something, though values are put, dropped  *)
(* and closed over before it runs (the assertion of Pipe.hpp:88).           *)
WokenFindsData ==
    \A f \in Fiber : op[f] = "woken" /\ awaiting[f] = None => data # "Empty"

(* The pipe is a channel of one place: every value put is read once or      *)
(* discarded, calls after the close are refused, a call that the channel    *)
(* allows returns in the end (Pipe.hpp:59-109).                             *)
AsChannel == INSTANCE Channel
    WITH Client <- Fiber, slot <- data,
         call <- [f \in Fiber |-> IF op[f] = "woken" THEN "read" ELSE op[f]]

ImplementsChannel == AsChannel!FairSpec

=============================================================================
