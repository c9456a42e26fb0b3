------------------------------- MODULE Select -------------------------------
(***************************************************************************)
(* Select.hpp over sources that hold something or nothing (pipes, queues,   *)
(* events): a fiber selects on the sources of some pairs, Direct, and on a  *)
(* SelectPairDynamicList of others, Dynamic, which comes last.  A           *)
(* SelectPairList differs from as many pairs only in the shape of results.  *)
(* Callbacks are the fiber's own code; they do not select again.            *)
(***************************************************************************)
EXTENDS Program

CONSTANTS Direct, Dynamic, List

Source == Direct \cup Dynamic

ASSUME SelectAssumption ==
    /\ Direct # {} /\ Direct \cap Dynamic = {} /\ List \notin Source
    /\ Context = {"elsewhere"}

VARIABLES
    full,       \* the sources that are ready
    waiting,    \* the sources with a Waiting entry for an awaiter of the fiber
    todo        \* the pairs whose turn is to come, List for the dynamic ones

selectVars == <<full, waiting, todo>>
vars == <<progVars, selectVars>>

Set(var, f, value) == [var EXCEPT ![f] = value]

(* A source becomes ready, by code of a handler or a fiber, and fires.      *)
FiresNobody(s) ==
    /\ Outside
    /\ full' = full \cup {s}
    /\ UNCHANGED <<progVars, waiting, todo>>

Fill(s) ==
    /\ Outside
    /\ full' = full \cup {s}
    /\ Wake({f \in Fiber : s \in waiting[f]})
    /\ waiting' = [f \in Fiber |-> waiting[f] \ {s}]
    /\ UNCHANGED <<op, todo>>

(* Somebody takes what a source holds: another fiber, or a callback.        *)
Drain(s) ==
    /\ Outside
    /\ full' = full \ {s}
    /\ UNCHANGED <<progVars, waiting, todo>>

(* co_await on a select or on the list: ready with one source, or suspended *)
(* on all.                                                                  *)
FindsReady(f, sources) ==
    /\ sources \cap full # {}
    /\ UNCHANGED <<schedVars, waiting>>

SuspendsOnOne(f, sources) ==
    /\ sources \cap full = {}
    /\ Suspend(f)
    /\ \E s \in sources : waiting' = Set(waiting, f, {s})
    /\ UNCHANGED <<readyQueue, yieldQueue, running>>

SuspendsOn(f, sources) ==
    /\ sources \cap full = {}
    /\ Suspend(f)
    /\ waiting' = Set(waiting, f, sources)
    /\ UNCHANGED <<readyQueue, yieldQueue, running>>

Asks(f, from, to, sources) ==
    /\ Code(f, from)
    /\ FindsReady(f, sources) \/ SuspendsOn(f, sources)
    /\ op' = Set(op, f, to)
    /\ UNCHANGED <<awaiting, full, todo>>

Selects(f) == todo[f] = {} /\ Asks(f, "user", "resume", Source)

(* await_resume asks each source again; the callbacks of those that are     *)
(* ready now will have their turn, and the list if any of its is.           *)
Turns == (full \cap Direct) \cup {p \in {List} : full \cap Dynamic # {}}

(* What is ready is taken, and the awaiters go. *)
KeepsAwaiters(f) ==
    /\ Code(f, "resume")
    /\ todo' = Set(todo, f, Turns)
    /\ full' = full \ Direct
    /\ op' = Set(op, f, "loop")
    /\ UNCHANGED <<schedVars, awaiting, waiting>>

SelectResumes(f) ==
    /\ Code(f, "resume")
    /\ todo' = Set(todo, f, Turns)
    /\ full' = full \ Direct
    /\ waiting' = Set(waiting, f, {})
    /\ op' = Set(op, f, "loop")
    /\ UNCHANGED <<schedVars, awaiting>>

RunCallback(f) ==
    /\ Code(f, "loop")
    /\ \E s \in todo[f] \cap Direct : todo' = Set(todo, f, todo[f] \ {s})
    /\ op' = Set(op, f, "user")
    /\ UNCHANGED <<schedVars, awaiting, full, waiting>>

(* SelectPairDynamicList::RunCallback awaits the list once more.            *)
DoSelect(f) == todo[f] = {List} /\ Asks(f, "loop", "again", Dynamic)

(* The awaiters stay in the pairs, which are asked one by one.              *)
ListResumes(f) ==
    /\ Code(f, "again")
    /\ todo' = Set(todo, f, Dynamic)
    /\ op' = Set(op, f, "loop")
    /\ UNCHANGED <<schedVars, awaiting, full, waiting>>

RunPair(f, s) ==
    /\ Code(f, "loop")
    /\ s \in todo[f] \cap Dynamic
    /\ todo' = Set(todo, f, todo[f] \ {s})
    /\ full' = full \ {s}
    /\ op' = Set(op, f, IF s \in full THEN "user" ELSE "loop")
    /\ UNCHANGED <<schedVars, awaiting, waiting>>

(* A callback ends; the last one, and one that throws, end the select.      *)
CallbackEnds(f) ==
    /\ Code(f, "user") /\ todo[f] # {}
    /\ op' = Set(op, f, "loop")
    /\ UNCHANGED <<schedVars, awaiting, selectVars>>

CallbackThrows(f) ==
    /\ Code(f, "user") /\ todo[f] # {}
    /\ todo' = Set(todo, f, {})
    /\ UNCHANGED <<progVars, full, waiting>>

SelectReturns(f) ==
    /\ Code(f, "loop") /\ todo[f] = {}
    /\ op' = Set(op, f, "user")
    /\ UNCHANGED <<schedVars, awaiting, selectVars>>

Otherwise(f) == OwnBusiness(f) /\ UNCHANGED selectVars

(* The fiber ends, and its list with it. *)
Ends(f) ==
    /\ todo[f] = {}
    /\ Finish(f)
    /\ waiting' = Set(waiting, f, {})
    /\ UNCHANGED <<full, todo>>

Handler == Elsewhere /\ UNCHANGED selectVars

Resumes == Run /\ UNCHANGED <<op, awaiting, selectVars>>

Over ==
    /\ \A f \in Fiber : state[f] = "Finished"
    /\ UNCHANGED vars

-----------------------------------------------------------------------------
Init ==
    /\ ProgramInit
    /\ full \in SUBSET Source
    /\ waiting = [f \in Fiber |-> {}]
    /\ todo = [f \in Fiber |-> {}]

SelectStep(f) ==
    \/ SelectResumes(f) \/ RunCallback(f) \/ DoSelect(f) \/ ListResumes(f) \/ SelectReturns(f)
    \/ \E s \in Dynamic : RunPair(f, s)

Next ==
    \/ Resumes \/ Handler \/ Over
    \/ \E s \in Source : Fill(s) \/ Drain(s)
    \/ \E f \in Fiber : \/ Selects(f) \/ SelectStep(f) \/ Otherwise(f) \/ Ends(f)
                        \/ CallbackEnds(f) \/ CallbackThrows(f)

Spec == Init /\ [][Next]_vars

(* The thread goes on, and the code of a fiber parks or ends in the end.    *)
Fairness ==
    /\ WF_vars(Resumes)
    /\ WF_vars(\E f \in Fiber : SelectStep(f) \/ (Unwind(f) /\ UNCHANGED selectVars))
    /\ SF_vars(\E f \in Fiber : (Parks(f) /\ UNCHANGED selectVars) \/ Ends(f))

FairSpec == Spec /\ Fairness

-----------------------------------------------------------------------------
(* What the fiber, inside of an await of a select or of the list, awaits.   *)
Asked(f) == CASE op[f] = "resume" -> Source [] op[f] = "again" -> Dynamic [] OTHER -> {}

TypeOK ==
    /\ ProgramTypeOK
    /\ op \in [Fiber -> {"user", "resume", "loop", "again"}]
    /\ full \in SUBSET Source
    /\ waiting \in [Fiber -> SUBSET Source]
    /\ todo \in [Fiber -> SUBSET (Source \cup {List})]

(* A fiber that has parked has an awaiter in a source's context only inside *)
(* the co_await the awaiter belongs to, not when it parks in a callback or  *)
(* later, where the source would resume it by mistake or stop at the        *)
(* assertion of Fiber.cpp:92 (SharedAwaiter.hpp:9, DESIGN.md:217).          *)
AwaitersEndWithAwait ==
    \A f \in Fiber : state[f] # "Running" => waiting[f] \subseteq Asked(f)

(* Who sleeps in a select sleeps on all of its sources, and none is ready,  *)
(* whatever was filled, taken and filled again since it asked               *)
(* (Select.hpp:25-32).                                                      *)
SelectorsSleepOnAll ==
    \A f \in Fiber : state[f] \in {"Suspending", "Suspended"} /\ Asked(f) # {} =>
       /\ waiting[f] = Asked(f)
       /\ full \cap Asked(f) = {}

(* A source that becomes ready ends the await of a select, also when it is  *)
(* empty again by the time the fiber runs (Select.hpp:39-60).               *)
ReadySourceEndsAwait ==
    \A f \in Fiber : (Asked(f) \cap full # {}) ~> op[f] \notin {"resume", "again"}

=============================================================================
