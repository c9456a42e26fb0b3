----------------------------- MODULE RemoteCall -----------------------------
(***************************************************************************)
(* RemoteCall.hpp over Pipe: callers put closures into the pipe of a        *)
(* service and await an Event of their own, which the closure fires when    *)
(* its function has run, and the closure's guard when it has not.  A        *)
(* closure is known by its caller, and so is the context of the event.      *)
(***************************************************************************)
EXTENDS Pipe

VARIABLES
    stage,      \* how far RemoteCall::Call is: "out", "put", "sent", "waits"
    reply,      \* what the Event of the caller's last call holds
    inServe     \* the server is inside RemoteCall::Serve

callVars == <<vars, stage, reply, inServe>>

ASSUME RemoteCallAssumption ==
    /\ Fiber \subseteq Context
    /\ {"elsewhere", "read", "write"} \cap Fiber = {}

(* The closure that the server has taken out of the pipe. *)
serving == IF result[Reader] \in Fiber THEN {result[Reader]} ELSE {}
Held(f) == data = f \/ f \in serving

(* The running fiber's code is not between two steps of a Call, nor between *)
(* two requests of Serve.                                                   *)
Liberty ==
    running # None =>
       /\ stage[running] = "out"
       /\ running = Reader /\ inServe => serving # {}

Goes(f, s) == stage' = [stage EXCEPT ![f] = s]
Fires(f, r) == reply' = [reply EXCEPT ![f] = r]

(* Call begins: a new Event, and the closure with its guard is put. *)
Call(f) ==
    /\ f # Reader
    /\ stage[f] = "out"
    /\ CallPut(f)
    /\ Goes(f, "put") /\ Fires(f, "none")
    /\ UNCHANGED inServe

(* The server does not wait for its own pipe. *)
Shutdown(f) ==
    /\ f # Reader
    /\ stage[f] = "out"
    /\ CallShutdown(f)
    /\ UNCHANGED <<stage, reply, inServe>>

PutWaits(f) == PutSuspends(f) /\ UNCHANGED <<stage, reply, inServe>>

Sends(f) ==
    /\ PutStores(f)
    /\ IF op[f] = "put" THEN Goes(f, "sent") ELSE UNCHANGED stage
    /\ UNCHANGED <<reply, inServe>>

(* A closed pipe: the guard of the closure fires unheard.                   *)
Fails(f) ==
    /\ PutRefused(f)
    /\ IF op[f] = "put" THEN Goes(f, "out") /\ Fires(f, "failed")
                        ELSE UNCHANGED <<stage, reply>>
    /\ UNCHANGED inServe

(* co_await event, in the same stretch as the put.                          *)
NeverAwaits(f) ==
    /\ Code(f, "user") /\ stage[f] = "sent"
    /\ Goes(f, "out")
    /\ UNCHANGED <<vars, reply, inServe>>

AwaitReply(f) ==
    /\ Code(f, "user") /\ stage[f] = "sent"
    /\ reply[f] = "none"
    /\ AwaitOn(f, f)
    /\ Goes(f, "waits")
    /\ UNCHANGED <<op, data, result, reply, inServe>>

(* Event::AwaitValue, which needs a value. *)
CallReturns(f) ==
    /\ Code(f, "user") /\ stage[f] = "waits"
    /\ reply[f] # "none"
    /\ Goes(f, "out")
    /\ UNCHANGED <<vars, reply, inServe>>

(* The server calls Serve, for the first time or after an earlier Serve     *)
(* ended.                                                                   *)
Serve ==
    /\ Code(Reader, "user")
    /\ ~inServe /\ serving = {}
    /\ inServe' = TRUE
    /\ UNCHANGED <<vars, stage, reply>>

(* Serve reads when it has nothing in hand, and holds what it read until    *)
(* the function has run.  A program may do as much without Serve, through   *)
(* GetServiceAwaitor and HandleRequest.                                     *)
Reads ==
    /\ serving = {}
    /\ CallRead(Reader)
    /\ UNCHANGED <<stage, reply, inServe>>

(* HandleRequest of a closed pipe is false, and Serve returns.              *)
ReadStep ==
    /\ ReaderStep(Reader)
    /\ inServe' = (inServe /\ result'[Reader] # "closed")
    /\ UNCHANGED <<stage, reply>>

Answers(r) ==
    /\ Code(Reader, "user")
    /\ \E g \in serving : Fire(g) /\ Fires(g, r)
    /\ result' = [result EXCEPT ![Reader] = "none"]
    /\ UNCHANGED <<op, data, stage>>

(* The function returned: the closure notes it in its guard, fires the      *)
(* event, and is destroyed.                                                 *)
Completes == Answers("ok") /\ UNCHANGED inServe

LeavesCaller ==
    /\ Code(Reader, "user")
    /\ serving # {}
    /\ result' = [result EXCEPT ![Reader] = "none"]
    /\ inServe' = FALSE
    /\ UNCHANGED <<progVars, data, stage, reply>>

(* It threw: the exception leaves HandleRequest and with it Serve, which    *)
(* ends though the pipe is open, and the guard fires as the closure goes.   *)
(* Or the program destroyed a closure that it had read itself.              *)
Drops == Answers("failed") /\ inServe' = FALSE

(* RemoteCall::DiscardAndClose: a closure in the pipe is destroyed, and its *)
(* guard wakes its caller before the pipe wakes both its sides.             *)
Discarded == {f \in Fiber : data = f}
Woken == {f \in Fiber : awaiting[f] \in Discarded} \cup Both
Turn(f) == CASE awaiting[f] = "read" -> 3 [] awaiting[f] = "write" -> 2 [] OTHER -> 1

FireInTurn ==
    /\ Wake(Woken)
    /\ \A i, j \in Len(readyQueue) + 1 .. Len(readyQueue') :
          i < j => Turn(readyQueue'[i]) <= Turn(readyQueue'[j])

ClosesUnheard ==
    /\ Outside /\ Liberty
    /\ DiscardAndClose
    /\ UNCHANGED <<stage, reply, inServe>>

Discards ==
    /\ Outside /\ Liberty
    /\ data' = "Closed"
    /\ FireInTurn
    /\ reply' = [f \in Fiber |-> IF f \in Discarded THEN "failed" ELSE reply[f]]
    /\ UNCHANGED <<op, result, stage, inServe>>

(* What fibers do besides, the functions of the closures included.  A       *)
(* server that is out of Serve may end with the pipe open.                  *)
Besides(f) ==
    /\ \/ Liberty /\ (Start(f) \/ Sleep(f) \/ Yield(f))
       \/ Unwind(f)
       \/ Liberty /\ Finish(f) /\ (f = Reader => serving = {})
    /\ UNCHANGED <<data, result, stage, reply, inServe>>

Loop == Resumes /\ UNCHANGED <<stage, reply, inServe>>

Comes == Liberty /\ Handler /\ UNCHANGED <<stage, reply, inServe>>

Done == Over /\ UNCHANGED <<stage, reply, inServe>>

-----------------------------------------------------------------------------
CallInit ==
    /\ Init
    /\ stage = [f \in Fiber |-> "out"]
    /\ reply = [f \in Fiber |-> "none"]
    /\ inServe = FALSE

CallerStep(f) == PutWaits(f) \/ Sends(f) \/ Fails(f) \/ AwaitReply(f) \/ CallReturns(f)

CallNext ==
    \/ Loop \/ Comes \/ Done
    \/ Serve \/ Reads \/ ReadStep \/ Completes \/ Drops \/ Discards
    \/ \E f \in Fiber : Call(f) \/ Shutdown(f) \/ CallerStep(f) \/ Besides(f)

CallSpec == CallInit /\ [][CallNext]_callVars

(* The one fiber that runs goes on inside a call and inside Serve, and its  *)
(* own code parks or ends in the end.  The promise asks for more of the     *)
(* program: a Serve runs again and again until the service is closed, for a *)
(* function that throws ends it; what its functions sleep on happens and    *)
(* they come to an end; and the ready queue runs empty now and then, or a   *)
(* function that yields would never go on.                                  *)
GoesOn ==
    \/ ReadStep
    \/ inServe /\ Reads
    \/ \E f \in Fiber : CallerStep(f) \/ (Unwind(f) /\ Besides(f))

CallFairness ==
    /\ WF_callVars(Loop) /\ SF_callVars(RunYielded /\ Loop) /\ SF_callVars(Comes)
    /\ WF_callVars(GoesOn) /\ SF_callVars(Completes \/ Drops)
    /\ SF_callVars(\E f \in Fiber : (Parks(f) \/ Finish(f)) /\ Besides(f))
    /\ []<>(inServe \/ data = "Closed")
    /\ []<>(running = None /\ readyQueue = <<>>)

CallFairSpec == CallSpec /\ CallFairness

-----------------------------------------------------------------------------
(* A closure refers to the Event and the guard's reply of its caller, which *)
(* live in the caller's frame: while the closure exists, in the pipe or at  *)
(* the server, its caller is inside Call and unanswered (RemoteCall.hpp:46).*)
EventOutlivesClosure ==
    \A f \in Fiber : Held(f) => stage[f] \in {"sent", "waits"} /\ reply[f] = "none"

(* A caller that waits has its closure in the pipe or at the server, and    *)
(* one that was woken has its answer, though the service was closed, its    *)
(* function threw or another call came between (RemoteCall.hpp:62).  A      *)
(* closure that is left in the pipe when another call's function threw is   *)
(* answered only by a later Serve or by DiscardAndClose.                    *)
CallersAnswered ==
    \A f \in Fiber :
       /\ awaiting[f] = f => Held(f)
       /\ stage[f] = "waits" /\ awaiting[f] = None => reply[f] # "none"

(* Each request is answered once, "ok" if and only if its function ran.     *)
(* While the program enters Serve again whenever a function that threw has  *)
(* ended it, until the service is closed, a request that was sent comes     *)
(* back (RemoteCall.hpp:27-66, 77-86).                                      *)
Phase(f) ==
    IF stage[f] \in {"out", "put"} THEN stage[f]
    ELSE IF reply[f] # "none" THEN "answered"
    ELSE IF f \in serving THEN "served" ELSE "sent"

AsService == INSTANCE Service
    WITH Client <- Fiber \ {Reader}, phase <- [f \in Fiber \ {Reader} |-> Phase(f)],
         reply <- [f \in Fiber \ {Reader} |-> reply[f]]

ImplementsService == AsService!FairSpec

=============================================================================
