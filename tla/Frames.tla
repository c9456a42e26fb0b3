------------------------------- MODULE Frames -------------------------------
(***************************************************************************)
(* Coroutine.hpp, FiberFrame and the call stacks that StackTrace.hpp and an *)
(* escaping exception print in debug builds.  The frames of a fiber are     *)
(* linked by _CallerPromise; awaiters note the innermost in                 *)
(* _SuspendedPromise, and every fiber may walk those of all.  A fiber       *)
(* stands for its outermost frame.  Clients await a coroutine once, in the  *)
(* frame that holds it.                                                     *)
(***************************************************************************)
EXTENDS Program

CONSTANT Frame      \* the memory for the frames of coroutines

ASSUME FramesAssumption ==
    /\ IsFiniteSet(Frame)
    /\ Frame \cap Fiber = {} /\ None \notin Frame
    /\ Cardinality(Fiber) <= Cardinality(Frame)

VARIABLES
    live,       \* the frames that exist
    holder,     \* the frame in whose scope the Coroutine object is
    caller,     \* _CallerPromise
    ret,        \* _RetState
    at,         \* the frame that runs, or whose handle _Continuation is
    callee,     \* the coroutine that a frame's co_await is about
    suspended   \* _SuspendedPromise

frameVars == <<live, holder, caller, ret, at, callee, suspended>>
vars == <<progVars, frameVars>>

Set(var, x, value) == [var EXCEPT ![x] = value]

Held(p) == {c \in live \cap Frame : holder[c] = p}

Begin(f) ==
    /\ Start(f)
    /\ live' = live \cup {f}
    /\ at' = Set(at, f, f)
    /\ UNCHANGED <<holder, caller, ret, callee, suspended>>

(* A coroutine is called and suspends at once.  SpawnFiber calls one, and   *)
(* what memory is left is for it.                                           *)
Unstarted == {g \in Fiber : state[g] # "Finished" /\ Held(g) = {}}

Create(f, c) ==
    /\ Code(f, "user")
    /\ c \in Frame \ live
    /\ IF at[f] = f THEN Held(f) = {} /\ callee[f] = None
                    ELSE Cardinality(Unstarted) < Cardinality(Frame \ live)
    /\ live' = live \cup {c}
    /\ holder' = Set(holder, c, at[f])
    /\ caller' = Set(caller, c, None)
    /\ ret' = Set(ret, c, "none")
    /\ callee' = Set(callee, c, None)
    /\ UNCHANGED <<progVars, at, suspended>>

(* co_await: the caller is noted, and the callee runs. *)
CallsHolder(f, c) ==
    /\ Code(f, "user")
    /\ c \in Held(at[f]) /\ ret[c] = "none"
    /\ caller' = Set(caller, c, f)
    /\ callee' = Set(callee, at[f], c)
    /\ at' = Set(at, f, c)
    /\ UNCHANGED <<progVars, live, holder, ret, suspended>>

AwaitsForeign(f, c) ==
    /\ Code(f, "user")
    /\ c \in Held(at[f]) \cup {at[g] : g \in Fiber \ {f}} /\ ret[c] = "none"
    /\ caller' = Set(caller, c, at[f])
    /\ callee' = Set(callee, at[f], c)
    /\ at' = Set(at, f, c)
    /\ UNCHANGED <<progVars, live, holder, ret, suspended>>

CoAwait(f, c) ==
    /\ Code(f, "user")
    /\ c \in Held(at[f]) /\ ret[c] = "none"
    /\ caller' = Set(caller, c, at[f])
    /\ callee' = Set(callee, at[f], c)
    /\ at' = Set(at, f, c)
    /\ UNCHANGED <<progVars, live, holder, ret, suspended>>

(* It returns, or an exception leaves it and its stack is printed; what it  *)
(* holds goes, and its caller runs.                                         *)
LeavesHeld(f, r) ==
    /\ at[f] \in Frame
    /\ \A c \in Held(at[f]) : ret[c] # "none"
    /\ ret' = Set(ret, at[f], r)
    /\ at' = Set(at, f, caller[at[f]])
    /\ op' = Set(op, f, "resume")
    /\ UNCHANGED <<schedVars, awaiting, live, holder, caller, callee>>

Ends(f, r) ==
    /\ at[f] \in Frame
    /\ \A c \in Held(at[f]) : ret[c] # "none"
    /\ live' = live \ Held(at[f])
    /\ ret' = Set(ret, at[f], r)
    /\ at' = Set(at, f, caller[at[f]])
    /\ op' = Set(op, f, "resume")
    /\ UNCHANGED <<schedVars, awaiting, holder, caller, callee>>

Return(f) ==
    /\ Code(f, "user")
    /\ Ends(f, "value")
    /\ UNCHANGED suspended

Throw(f) ==
    /\ Code(f, "user") \/ Code(f, "unwind")
    /\ Ends(f, "error")
    /\ suspended' = Set(suspended, f, None)

(* await_resume rethrows in the caller, where it is caught or not; the      *)
(* outermost frame hands it to SetException.                                *)
Takes(f) ==
    /\ Code(f, "resume")
    /\ op' = Set(op, f, IF ret[callee[at[f]]] = "error" /\ at[f] # f THEN "unwind" ELSE "user")
    /\ UNCHANGED <<schedVars, awaiting, frameVars>>

Catch(f) ==
    /\ Code(f, "unwind")
    /\ op' = Set(op, f, "user")
    /\ UNCHANGED <<schedVars, awaiting, frameVars>>

(* A Coroutine object goes out of scope. *)
Destroy(f, c) ==
    /\ Code(f, "user") /\ at[f] # f
    /\ c \in Held(at[f]) /\ ret[c] # "none"
    /\ live' = live \ {c}
    /\ UNCHANGED <<progVars, holder, caller, ret, at, callee, suspended>>

(* DoAwaitSuspend, in a coroutine. *)
Park(f) ==
    /\ Parks(f)
    /\ at[f] # f
    /\ suspended' = Set(suspended, f, at[f])
    /\ UNCHANGED <<live, holder, caller, ret, at, callee>>

KeepsPromise ==
    /\ Run
    /\ UNCHANGED <<op, awaiting, frameVars>>

Resumes ==
    /\ Run
    /\ suspended' = Set(suspended, running', None)
    /\ UNCHANGED <<op, awaiting, live, holder, caller, ret, at, callee>>

(* co_await StackTrace(), StackTraceAllFibers() *)
Traces(f) ==
    /\ Code(f, "user")
    /\ suspended' = Set(suspended, f, None)
    /\ UNCHANGED <<progVars, live, holder, caller, ret, at, callee>>

(* SpawnFiber ends; nothing refers to its frame, which goes with the Fiber. *)
End(f) ==
    /\ at[f] = f /\ callee[f] # None
    /\ Finish(f)
    /\ live' = live \ (Held(f) \cup {f})
    /\ UNCHANGED <<holder, caller, ret, at, callee, suspended>>

Unwinds(f) == Unwind(f) /\ UNCHANGED frameVars

Handler == Elsewhere /\ UNCHANGED frameVars

Over ==
    /\ \A f \in Fiber : state[f] = "Finished"
    /\ UNCHANGED vars

-----------------------------------------------------------------------------
AnyFrame == Frame \cup Fiber

Init ==
    /\ ProgramInit
    /\ live = {}
    /\ holder = [c \in Frame |-> None] /\ caller = [c \in Frame |-> None]
    /\ ret = [c \in Frame |-> "none"]
    /\ at = [f \in Fiber |-> None]
    /\ callee = [p \in AnyFrame |-> None]
    /\ suspended = [f \in Fiber |-> None]

Next ==
    \/ Resumes \/ Handler \/ Over
    \/ \E f \in Fiber : \/ Begin(f) \/ Return(f) \/ Throw(f) \/ Takes(f) \/ Catch(f)
                        \/ Park(f) \/ Unwinds(f) \/ Traces(f) \/ End(f)
                        \/ \E c \in Frame : Create(f, c) \/ CoAwait(f, c) \/ Destroy(f, c)

Spec == Init /\ [][Next]_vars

-----------------------------------------------------------------------------
(* The frames from p outwards, the outermost first, as DumpCallStack walks   *)
(* them; a walk that goes in a circle stops after as many steps as there    *)
(* are frames.                                                              *)
Outwards(links, frames) ==
    IF Head(frames) \in Frame THEN <<links[Head(frames)]>> \o frames ELSE frames

Walk(links, p) ==
    LET walk[n \in 0 .. Cardinality(Frame)] ==
            IF n = 0 THEN <<p>> ELSE Outwards(links, walk[n - 1])
    IN  walk[Cardinality(Frame)]

Backtrace(p) == Walk(caller, p)

(* Whenever a fiber prints all fibers, each of them is walked from the      *)
(* frame it is parked in to its outermost one, over frames that live        *)
(* (Fiber.cpp:169-182), or not at all.                                      *)
DumpSeesLiveFrames ==
    \A f \in Fiber : suspended[f] # None =>
       /\ suspended[f] = at[f] /\ state[f] # "Running"
       /\ LET frames == Backtrace(suspended[f])
          IN Members(frames) \subseteq live /\ Head(frames) = f

(* Frames go with the scope that holds them: those that exist are held by   *)
(* one that does, and a fiber that ended leaves none (Coroutine.hpp:102).   *)
FramesGoWithScope ==
    /\ \A c \in live \cap Frame : holder[c] \in live
    /\ live \cap Fiber = {f \in Fiber : state[f] \notin {"Absent", "Finished"}}

(* What the links make of a fiber's calls, and of the last result. *)
Stack == [f \in Fiber |-> IF f \in live THEN Backtrace(at[f]) ELSE <<>>]
Result == [f \in Fiber |-> IF op[f] = "resume" THEN ret[callee[at[f]]] ELSE "none"]

(* A coroutine finds its Fiber by asking its caller, at every await.  From  *)
(* whichever frame of a call, that leads to the fiber that makes the call,  *)
(* so no frame serves two fibers, and none suspends another's               *)
(* (Coroutine.hpp:27).                                                      *)
FrameHasOneFiber ==
    \A f \in live \cap Fiber : \A c \in Members(Stack[f]) : Head(Backtrace(c)) = f

(* The links make a call stack for each fiber, and results go down it       *)
(* (Coroutine.hpp:38, 113-135).                                             *)
AsCallStack == INSTANCE CallStack WITH stack <- Stack, result <- Result

ImplementsCallStack == AsCallStack!Spec

=============================================================================
