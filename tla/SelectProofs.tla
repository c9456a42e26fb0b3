---------------------------- MODULE SelectProofs ----------------------------
(***************************************************************************
A fiber that sleeps in a select sleeps on all of its sources, for any pairs
and any list; and no awaiter outlives its await as long as the dynamic list
holds at most one pair, which is where the code keeps the promise.
***************************************************************************)
EXTENDS Select, ProgramProofs

SelectInv == TypeOK /\ SchedInv /\ SelectorsSleepOnAll

Asleep == {"Suspending", "Suspended"}

LEMMA AskedIs ==
    /\ \A f \in Fiber : Asked(f) = IF op[f] = "resume" THEN Source
                                   ELSE IF op[f] = "again" THEN Dynamic ELSE {}
    /\ \A f \in Fiber : Asked(f)' = IF op'[f] = "resume" THEN Source
                                    ELSE IF op'[f] = "again" THEN Dynamic ELSE {}
BY DEF Asked

LEMMA TypesKept ==
    ASSUME TypeOK, SchedInv', awaiting' \in [Fiber -> Context \cup {None}],
           op' \in [Fiber -> {"user", "resume", "loop", "again"}],
           full' \in SUBSET Source, waiting' \in [Fiber -> SUBSET Source],
           todo' \in [Fiber -> SUBSET (Source \cup {List})]
    PROVE  TypeOK'
BY DEF TypeOK, ProgramTypeOK, SchedInv

(* Whoever sleeps afterwards slept before, on the same, or is f. *)
LEMMA SleepersKept ==
    ASSUME SelectInv,
           \A g \in Fiber : state'[g] \in Asleep /\ Asked(g)' # {} =>
              \/ /\ state[g] \in Asleep /\ Asked(g)' = Asked(g) /\ waiting'[g] = waiting[g]
                 /\ full' \cap Asked(g) \subseteq full
              \/ waiting'[g] = Asked(g)' /\ full' \cap Asked(g)' = {}
    PROVE  SelectorsSleepOnAll'
BY DEF SelectInv, SelectorsSleepOnAll, Asleep

(* Steps of the fiber's own code on which it stays awake. *)
LEMMA AwakeStep ==
    ASSUME SelectInv, NEW f \in Fiber,
           running = f, state[f] = "Running", UNCHANGED <<schedVars, awaiting>>,
           op' \in [Fiber -> {"user", "resume", "loop", "again"}],
           waiting' \in [Fiber -> SUBSET Source], todo' \in [Fiber -> SUBSET (Source \cup {List})],
           full' \in SUBSET full,
           \A g \in Fiber \ {f} : op'[g] = op[g] /\ waiting'[g] = waiting[g]
    PROVE  SelectInv'
<1>1. SchedInv'
  BY DEF SelectInv, SchedInv, SchedTypeOK, QueueOK, StackOK, schedVars
<1>2. TypeOK'
  BY <1>1, TypesKept DEF SelectInv, TypeOK, ProgramTypeOK
<1>3. \A g \in Fiber : state'[g] \in Asleep => g # f /\ state'[g] = state[g]
  BY DEF Asleep, schedVars
<1>4. \A g \in Fiber \ {f} : Asked(g)' = Asked(g)
  BY AskedIs
<1>5. SelectorsSleepOnAll'
  BY <1>3, <1>4, SleepersKept
<1> QED
  BY <1>1, <1>2, <1>5 DEF SelectInv

LEMMA AsksKeeps ==
    ASSUME SelectInv, NEW f \in Fiber, NEW sources \in SUBSET Source,
           NEW from, NEW to \in {"resume", "again"}, Asks(f, from, to, sources),
           sources = IF to = "resume" THEN Source ELSE Dynamic
    PROVE  SelectInv'
<1>1. /\ running = f /\ state[f] = "Running" /\ op' = [op EXCEPT ![f] = to]
      /\ UNCHANGED <<awaiting, full, todo>>
  BY DEF Asks, Code, Set
<1>2. CASE FindsReady(f, sources)
  <2>1. /\ UNCHANGED <<schedVars, waiting, todo, full>>
        /\ op' \in [Fiber -> {"user", "resume", "loop", "again"}]
        /\ \A g \in Fiber \ {f} : op'[g] = op[g]
    BY <1>1, <1>2 DEF FindsReady, SelectInv, TypeOK
  <2> QED
    BY <1>1, <2>1, AwakeStep DEF SelectInv, TypeOK
<1>3. CASE SuspendsOn(f, sources)
  <2>1. SchedInv'
    BY <1>3, SuspendKeeps DEF SelectInv, SuspendsOn
  <2>2. /\ waiting' = [waiting EXCEPT ![f] = sources] /\ sources \cap full = {}
        /\ state' = [state EXCEPT ![f] = "Suspending"]
    BY <1>3 DEF SuspendsOn, Suspend, Set
  <2>3. TypeOK'
    BY <1>1, <2>1, <2>2, TypesKept DEF SelectInv, TypeOK, ProgramTypeOK
  <2>4. Asked(f)' = sources
    BY <1>1, AskedIs DEF SelectInv, TypeOK
  <2>5. \A g \in Fiber \ {f} : op'[g] = op[g] /\ waiting'[g] = waiting[g] /\ state'[g] = state[g]
    BY <1>1, <2>2 DEF SelectInv, TypeOK, SchedInv, SchedTypeOK
  <2>6. \A g \in Fiber \ {f} : Asked(g)' = Asked(g)
    BY <2>5, AskedIs
  <2>7. waiting'[f] = sources
    BY <2>2 DEF SelectInv, TypeOK
  <2>8. SelectorsSleepOnAll'
    BY <1>1, <2>2, <2>4, <2>5, <2>6, <2>7, SleepersKept
  <2> QED
    BY <2>1, <2>3, <2>8 DEF SelectInv
<1> QED
  BY <1>2, <1>3 DEF Asks

(* A source that becomes ready wakes those who wait for it. *)
LEMMA FillEffect ==
    ASSUME SelectInv, NEW s \in Source, Fill(s)
    PROVE  /\ SchedInv'
           /\ state' = [f \in Fiber |-> IF s \in waiting[f] /\ state[f] = "Suspended"
                                           THEN "Ready" ELSE state[f]]
           /\ awaiting' = [f \in Fiber |-> IF s \in waiting[f] THEN None ELSE awaiting[f]]
           /\ waiting' = [f \in Fiber |-> waiting[f] \ {s}]
           /\ full' = full \cup {s}
           /\ \A f \in Fiber : s \in waiting[f] => state[f] \in {"Suspended", "Ready"}
           /\ UNCHANGED <<op, todo>>
<1> DEFINE fs == {f \in Fiber : s \in waiting[f]}
<1>1. Wake(fs) /\ fs \in SUBSET Fiber
  BY DEF Fill
<1>2. /\ SchedInv'
      /\ state' = [f \in Fiber |-> IF f \in fs /\ state[f] = "Suspended" THEN "Ready" ELSE state[f]]
  BY <1>1, ScheduledKeeps DEF SelectInv, Wake
<1> QED
  BY <1>1, <1>2 DEF Fill, Wake, Schedulable

LEMMA FillKeeps ==
    ASSUME SelectInv, NEW s \in Source, Fill(s)
    PROVE  SelectInv'
<1>1. TypeOK'
  BY FillEffect, TypesKept DEF SelectInv, TypeOK, ProgramTypeOK
<1>2. \A g \in Fiber : Asked(g)' = Asked(g)
  BY FillEffect, AskedIs
<1>3. ASSUME NEW g \in Fiber, state'[g] \in Asleep, Asked(g) # {}
      PROVE  /\ state[g] \in Asleep /\ waiting'[g] = waiting[g]
             /\ full' \cap Asked(g) \subseteq full
  <2>1. state[g] = state'[g] /\ s \notin waiting[g]
    BY <1>3, FillEffect DEF Asleep
  <2>2. waiting[g] = Asked(g)
    BY <1>3, <2>1 DEF SelectInv, SelectorsSleepOnAll, Asleep
  <2>3. waiting'[g] = waiting[g] \ {s} /\ full' = full \cup {s}
    BY FillEffect
  <2>4. waiting[g] \ {s} = waiting[g]
    BY <2>1
  <2> QED
    BY <1>3, <2>1, <2>2, <2>3, <2>4
<1>4. SelectorsSleepOnAll'
  BY <1>2, <1>3, SleepersKept
<1> QED
  BY <1>1, <1>4, FillEffect DEF SelectInv

LEMMA DrainKeeps ==
    ASSUME SelectInv, NEW s \in Source, Drain(s)
    PROVE  SelectInv'
<1>1. UNCHANGED <<progVars, waiting, todo>> /\ full' = full \ {s}
  BY DEF Drain
<1>2. SchedInv'
  BY <1>1 DEF SelectInv, SchedInv, SchedTypeOK, QueueOK, StackOK, progVars, schedVars
<1>3. TypeOK'
  BY <1>1, <1>2, TypesKept DEF SelectInv, TypeOK, ProgramTypeOK, progVars
<1>4. \A g \in Fiber : Asked(g)' = Asked(g)
  BY <1>1, AskedIs DEF progVars
<1>5. SelectorsSleepOnAll'
  BY <1>1, <1>4, SleepersKept DEF progVars, schedVars
<1> QED
  BY <1>2, <1>3, <1>5 DEF SelectInv

(* What is none of the select's business: whoever it puts to sleep sleeps   *)
(* on something else.                                                       *)
LEMMA ElseKeeps ==
    ASSUME SelectInv, SchedInv', UNCHANGED <<op, full, todo>>,
           awaiting' \in [Fiber -> Context \cup {None}],
           waiting' \in [Fiber -> SUBSET Source],
           \A g \in Fiber : state'[g] \in Asleep =>
              \/ op[g] = "user"
              \/ state[g] \in Asleep /\ waiting'[g] = waiting[g]
    PROVE  SelectInv'
<1>1. TypeOK'
  BY TypesKept DEF SelectInv, TypeOK
<1>2. \A g \in Fiber : Asked(g)' = Asked(g) /\ (op[g] = "user" => Asked(g) = {})
  BY AskedIs
<1>3. SelectorsSleepOnAll'
  BY <1>2, SleepersKept
<1> QED
  BY <1>1, <1>3 DEF SelectInv

LEMMA OtherwiseKeeps ==
    ASSUME SelectInv, NEW f \in Fiber, Otherwise(f) \/ Ends(f)
    PROVE  SelectInv'
<1>1. /\ OwnBusiness(f) \/ Finish(f)
      /\ UNCHANGED <<op, full, todo>>
      /\ UNCHANGED waiting \/ (Finish(f) /\ waiting' = [waiting EXCEPT ![f] = {}])
  BY DEF Otherwise, Ends, OwnBusiness, Start, Sleep, Yield, Unwind, Finish, selectVars, Set
<1>2. SchedInv'
  BY <1>1, ProgramKeepsSched DEF SelectInv
<1>3. ProgramTypeOK'
  BY <1>1, <1>2, ProgramKeepsType DEF SelectInv, TypeOK
<1>4. \A g \in Fiber : state'[g] \in Asleep =>
         \/ op[g] = "user"
         \/ state[g] \in Asleep /\ waiting'[g] = waiting[g]
  <2> USE DEF Asleep, SelectInv, TypeOK, SchedInv, SchedTypeOK
  <2>1. CASE Start(f)
    BY <1>1, <2>1, StartKeeps DEF Start, Finish, Code
  <2>2. CASE Sleep(f) \/ Yield(f)
    BY <1>1, <2>2 DEF Sleep, AwaitOn, Suspend, Yield, OmniYield, Finish, Code
  <2>3. CASE Unwind(f)
    BY <1>1, <2>3 DEF Unwind, Parked, Finish, Code
  <2>4. CASE Finish(f)
    BY <1>1, <2>4 DEF Finish, Code
  <2> QED
    BY <1>1, <2>1, <2>2, <2>3, <2>4 DEF OwnBusiness
<1>5. awaiting' \in [Fiber -> Context \cup {None}] /\ waiting' \in [Fiber -> SUBSET Source]
  BY <1>1, <1>3 DEF ProgramTypeOK, SelectInv, TypeOK
<1> QED
  BY <1>1, <1>2, <1>4, <1>5, ElseKeeps

LEMMA LoopKeeps ==
    ASSUME SelectInv, Resumes \/ Handler
    PROVE  SelectInv'
<1>1. /\ SchedInv'
      /\ \A g \in Fiber : state'[g] \in Asleep => state[g] \in Asleep
  BY RunKeeps, FireKeeps DEF SelectInv, SchedInv, SchedTypeOK, Resumes, Handler, Elsewhere, Asleep
<1>2. UNCHANGED <<op, full, todo, waiting>> /\ awaiting' \in [Fiber -> Context \cup {None}]
  BY DEF Resumes, Handler, Elsewhere, Fire, Wake, selectVars, SelectInv, TypeOK, ProgramTypeOK
<1> QED
  BY <1>1, <1>2, ElseKeeps DEF SelectInv, TypeOK

LEMMA SelectStepKeeps ==
    ASSUME SelectInv, NEW f \in Fiber,
           \/ SelectResumes(f) \/ RunCallback(f) \/ ListResumes(f) \/ SelectReturns(f)
           \/ (\E s \in Dynamic : RunPair(f, s)) \/ CallbackEnds(f) \/ CallbackThrows(f)
    PROVE  SelectInv'
<1>1. running = f /\ state[f] = "Running" /\ UNCHANGED <<schedVars, awaiting>>
  BY DEF SelectResumes, RunCallback, ListResumes, SelectReturns, RunPair, CallbackEnds, CallbackThrows,
         Code, progVars
<1>2. /\ full' \in SUBSET full /\ waiting' \in [Fiber -> SUBSET Source]
      /\ op' \in [Fiber -> {"user", "resume", "loop", "again"}]
      /\ \A g \in Fiber \ {f} : op'[g] = op[g] /\ waiting'[g] = waiting[g]
  BY DEF SelectResumes, RunCallback, ListResumes, SelectReturns, RunPair, CallbackEnds, CallbackThrows,
         progVars, selectVars, Set, SelectInv, TypeOK
<1>3. todo' \in [Fiber -> SUBSET (Source \cup {List})]
  BY DEF SelectResumes, RunCallback, ListResumes, SelectReturns, RunPair, CallbackEnds, CallbackThrows,
         selectVars, Set, SelectInv, TypeOK, Source, Turns
<1> QED
  BY <1>1, <1>2, <1>3, AwakeStep

LEMMA SelectKeeps == SelectInv /\ [Next]_vars => SelectInv'
<1> SUFFICES ASSUME SelectInv, [Next]_vars PROVE SelectInv'
  OBVIOUS
<1>1. CASE UNCHANGED vars
  <2>1. SchedInv'
    BY <1>1 DEF SelectInv, SchedInv, SchedTypeOK, QueueOK, StackOK, vars, progVars, schedVars
  <2> QED
    BY <1>1, <2>1, ElseKeeps DEF SelectInv, TypeOK, ProgramTypeOK, vars, progVars, schedVars, selectVars
<1>2. ASSUME NEW f \in Fiber, Selects(f) \/ DoSelect(f) PROVE SelectInv'
  BY <1>2, AsksKeeps DEF Selects, DoSelect, Source
<1> QED
  BY <1>1, <1>2, FillKeeps, DrainKeeps, OtherwiseKeeps, LoopKeeps, SelectStepKeeps
     DEF Next, SelectStep, Over

LEMMA SelectInit == Init => SelectInv
<1> SUFFICES ASSUME Init PROVE SelectInv
  OBVIOUS
<1>1. SchedInv /\ ProgramTypeOK
  BY ProgramInitKeeps DEF Init
<1> QED
  BY <1>1 DEF Init, ProgramInit, SelectInv, TypeOK, SelectorsSleepOnAll

(* Who sleeps in a select sleeps on all of its sources, and none is ready.  *)
THEOREM SelectorsSleepOnAllCorrect == Spec => []SelectorsSleepOnAll
BY SelectInit, SelectKeeps, PTL DEF Spec, SelectInv

-----------------------------------------------------------------------------
(***************************************************************************
Awaiters that end with their await.  Those of a list stay until the list is
awaited again; with one pair there is none left when the source has fired,
so nothing is left behind in the callbacks.  A fiber that handlers may wake
from elsewhere is in no await of the select.
***************************************************************************)
ShortList == \A s, t \in Dynamic : s = t

NoneLeft ==
    \A f \in Fiber :
        /\ op[f] \in {"user", "loop"} => waiting[f] = {}
        /\ op[f] = "again" => /\ waiting[f] \subseteq Dynamic
                              /\ state[f] \notin Asleep => waiting[f] = {}

SleepsElsewhere == WaitersAsleep /\ \A f \in Fiber : awaiting[f] # None => op[f] = "user"

ListInv == SelectInv /\ NoneLeft /\ SleepsElsewhere

LEMMA OneLeft ==
    ASSUME ShortList, NEW s \in Source, NEW W \in SUBSET Dynamic, s \in W
    PROVE  W \ {s} = {}
BY DEF ShortList

(* The fiber that runs moves on inside of the select. *)
LEMMA RunnerMoves ==
    ASSUME ListInv, NEW f \in Fiber, running = f, state[f] = "Running",
           \A g \in Fiber \ {f} : /\ op'[g] = op[g] /\ waiting'[g] = waiting[g]
                                  /\ state'[g] = state[g],
           UNCHANGED awaiting,
           op'[f] \in {"user", "loop"} => waiting'[f] = {},
           op'[f] = "again" => waiting'[f] \subseteq Dynamic /\ (state'[f] \notin Asleep => waiting'[f] = {})
    PROVE  NoneLeft' /\ SleepsElsewhere'
<1>1. awaiting[f] = None
  BY DEF ListInv, SleepsElsewhere, WaitersAsleep
<1> QED
  BY <1>1 DEF ListInv, NoneLeft, SleepsElsewhere, WaitersAsleep

LEMMA AsksListKeeps ==
    ASSUME ListInv, NEW f \in Fiber, Selects(f) \/ DoSelect(f)
    PROVE  NoneLeft' /\ SleepsElsewhere'
<1>1. /\ state \in [Fiber -> State] /\ op \in [Fiber -> {"user", "resume", "loop", "again"}]
      /\ waiting \in [Fiber -> SUBSET Source]
  BY DEF ListInv, SelectInv, TypeOK, SchedInv, SchedTypeOK
<1>2. PICK sources \in SUBSET Source, to \in {"resume", "again"} :
         /\ running = f /\ state[f] = "Running" /\ op' = [op EXCEPT ![f] = to] /\ UNCHANGED awaiting
         /\ FindsReady(f, sources) \/ SuspendsOn(f, sources)
         /\ to = "again" => sources = Dynamic /\ op[f] = "loop"
  BY DEF Selects, DoSelect, Asks, Code, Set, Source
<1>3. CASE FindsReady(f, sources)
  <2>1. op[f] = "loop" => waiting[f] = {}
    BY DEF ListInv, NoneLeft
  <2> QED
    BY <1>1, <1>2, <1>3, <2>1, RunnerMoves DEF FindsReady, schedVars
<1>4. CASE SuspendsOn(f, sources)
  <2>1. state' = [state EXCEPT ![f] = "Suspending"] /\ waiting' = [waiting EXCEPT ![f] = sources]
    BY <1>4 DEF SuspendsOn, Suspend, Set
  <2> QED
    BY <1>1, <1>2, <2>1, RunnerMoves DEF Asleep
<1> QED
  BY <1>2, <1>3, <1>4

LEMMA StepsListKeeps ==
    ASSUME ListInv, NEW f \in Fiber,
           \/ SelectResumes(f) \/ RunCallback(f) \/ ListResumes(f) \/ SelectReturns(f)
           \/ (\E s \in Dynamic : RunPair(f, s)) \/ CallbackEnds(f) \/ CallbackThrows(f)
    PROVE  NoneLeft' /\ SleepsElsewhere'
<1>1. /\ op \in [Fiber -> {"user", "resume", "loop", "again"}] /\ waiting \in [Fiber -> SUBSET Source]
  BY DEF ListInv, SelectInv, TypeOK
<1>2. running = f /\ state[f] = "Running" /\ UNCHANGED <<schedVars, awaiting>>
  BY DEF SelectResumes, RunCallback, ListResumes, SelectReturns, RunPair, CallbackEnds, CallbackThrows,
         Code, progVars
<1>3. /\ \A g \in Fiber \ {f} : op'[g] = op[g] /\ waiting'[g] = waiting[g]
      /\ op'[f] \in {"user", "loop"}
      /\ waiting'[f] = {} \/ (UNCHANGED waiting /\ op[f] \in {"user", "loop", "again"})
  BY <1>1 DEF SelectResumes, RunCallback, ListResumes, SelectReturns, RunPair, CallbackEnds, CallbackThrows,
              Code, Set, progVars, selectVars
<1>4. op[f] \in {"user", "loop", "again"} => waiting[f] = {}
  BY <1>2 DEF ListInv, NoneLeft, Asleep
<1> QED
  BY <1>2, <1>3, <1>4, RunnerMoves DEF schedVars

(* The source of the only pair takes its awaiter as it wakes the fiber.     *)
LEMMA FillListKeeps ==
    ASSUME ShortList, ListInv, NEW s \in Source, Fill(s)
    PROVE  NoneLeft' /\ SleepsElsewhere'
<1>1. SelectInv
  BY DEF ListInv
<1>2. /\ state' = [f \in Fiber |-> IF s \in waiting[f] /\ state[f] = "Suspended" THEN "Ready" ELSE state[f]]
      /\ awaiting' = [f \in Fiber |-> IF s \in waiting[f] THEN None ELSE awaiting[f]]
      /\ waiting' = [f \in Fiber |-> waiting[f] \ {s}]
      /\ UNCHANGED op
  BY <1>1, FillEffect
<1>3. SleepsElsewhere'
  BY <1>2 DEF ListInv, SleepsElsewhere, WaitersAsleep
<1>4. ASSUME NEW f \in Fiber, op[f] = "again"
      PROVE  waiting'[f] \subseteq Dynamic /\ (state'[f] \notin Asleep => waiting'[f] = {})
  <2>1. waiting[f] \in SUBSET Dynamic
    BY <1>4 DEF ListInv, NoneLeft
  <2>2. CASE s \in waiting[f]
    BY <1>2, <2>1, <2>2, OneLeft
  <2>3. CASE s \notin waiting[f]
    <3>1. state'[f] = state[f] /\ waiting'[f] = waiting[f] \ {s} /\ waiting[f] \ {s} = waiting[f]
      BY <1>2, <2>3
    <3> QED
      BY <1>4, <2>1, <3>1 DEF ListInv, NoneLeft
  <2> QED
    BY <2>2, <2>3
<1>5. ASSUME NEW f \in Fiber, op[f] \in {"user", "loop"} PROVE waiting'[f] = {}
  BY <1>2, <1>5 DEF ListInv, NoneLeft
<1>6. NoneLeft'
  BY <1>2, <1>4, <1>5 DEF NoneLeft
<1> QED
  BY <1>3, <1>6

LEMMA ElseListKeeps ==
    ASSUME ListInv, NEW f \in Fiber, Otherwise(f) \/ Ends(f) \/ Resumes \/ Handler
    PROVE  NoneLeft' /\ SleepsElsewhere'
<1>1. state \in [Fiber -> State] /\ awaiting \in [Fiber -> Context \cup {None}]
      /\ waiting \in [Fiber -> SUBSET Source]
  BY DEF ListInv, SelectInv, TypeOK, ProgramTypeOK, SchedTypeOK
<1>2. SchedInv /\ WaitersAsleep
  BY DEF ListInv, SelectInv, SleepsElsewhere
<1>3. CASE OwnBusiness(f) \/ Finish(f)
  <2>1. WaitersAsleep' /\ UNCHANGED op
    BY <1>2, <1>3, ProgramKeepsWaiters DEF OwnBusiness, Start, Sleep, Yield, Unwind, Finish
  <2>2. UNCHANGED awaiting \/ (op[f] = "user" /\ awaiting' = [awaiting EXCEPT ![f] = "elsewhere"])
    BY <1>3 DEF OwnBusiness, Start, Sleep, AwaitOn, Yield, Unwind, Finish, Code
  <2>3. SleepsElsewhere'
    BY <1>1, <2>1, <2>2 DEF ListInv, SleepsElsewhere
  <2>4. /\ UNCHANGED waiting \/ waiting' = [waiting EXCEPT ![f] = {}]
    BY <1>3 DEF Otherwise, Ends, Resumes, Handler, selectVars, Set
  <2>5. \A g \in Fiber : op[g] = "again" /\ state'[g] \notin Asleep => state[g] \notin Asleep
    <3>1. CASE Start(f)
      BY <1>1, <1>2, <3>1, StartKeeps DEF Asleep
    <3>2. CASE Sleep(f) \/ Yield(f) \/ Unwind(f) \/ Finish(f)
      BY <1>1, <3>2 DEF Sleep, AwaitOn, Suspend, Yield, OmniYield, Unwind, Parked, Finish, Code, Asleep
    <3> QED
      BY <1>3, <3>1, <3>2 DEF OwnBusiness
  <2>6. NoneLeft'
    BY <1>1, <2>1, <2>4, <2>5 DEF ListInv, NoneLeft
  <2> QED
    BY <2>3, <2>6
<1>4. CASE Resumes
  <2>1. WaitersAsleep' /\ UNCHANGED <<op, awaiting, waiting>>
    BY <1>2, <1>4, RunKeepsWaiters DEF Resumes, selectVars
  <2>2. \A g \in Fiber : state'[g] \notin Asleep => state[g] \notin Asleep
    BY <1>1, <1>2, <1>4, RunKeeps DEF Resumes, Asleep
  <2> QED
    BY <2>1, <2>2 DEF ListInv, NoneLeft, SleepsElsewhere
<1>5. CASE Handler
  <2>1. /\ WaitersAsleep' /\ UNCHANGED <<op, waiting>>
        /\ awaiting' = [g \in Fiber |-> IF awaiting[g] = "elsewhere" THEN None ELSE awaiting[g]]
        /\ state' = [g \in Fiber |-> IF awaiting[g] = "elsewhere" /\ state[g] = "Suspended"
                                        THEN "Ready" ELSE state[g]]
    BY <1>2, <1>5, FireKeeps, FireKeepsWaiters DEF Handler, Elsewhere, Fire, Wake, Waiters, selectVars
  <2>2. \A g \in Fiber : op[g] # "user" => state'[g] = state[g]
    BY <2>1, ProgramAssumption DEF ListInv, SleepsElsewhere
  <2> QED
    BY <2>1, <2>2 DEF ListInv, NoneLeft, SleepsElsewhere
<1> QED
  BY <1>3, <1>4, <1>5 DEF Otherwise, Ends

LEMMA ListStep == ShortList /\ ListInv /\ [Next]_vars => ListInv'
<1> SUFFICES ASSUME ShortList, ListInv, [Next]_vars PROVE NoneLeft' /\ SleepsElsewhere'
  BY SelectKeeps DEF ListInv
<1>1. CASE UNCHANGED vars
  BY <1>1 DEF vars, progVars, schedVars, selectVars, ListInv, NoneLeft, SleepsElsewhere, WaitersAsleep
<1>2. ASSUME NEW s \in Source, Drain(s) PROVE NoneLeft' /\ SleepsElsewhere'
  BY <1>2 DEF Drain, progVars, schedVars, ListInv, NoneLeft, SleepsElsewhere, WaitersAsleep
<1>3. ASSUME Resumes \/ Handler PROVE NoneLeft' /\ SleepsElsewhere'
  <2>1. PICK f \in Fiber : TRUE
    BY <1>3, RunKeeps DEF Resumes, Handler, Elsewhere, Waiters, ListInv, SelectInv
  <2> QED
    BY <1>3, <2>1, ElseListKeeps
<1> QED
  BY <1>1, <1>2, <1>3, AsksListKeeps, StepsListKeeps, FillListKeeps, ElseListKeeps
     DEF Next, SelectStep, Over

(* With one pair in the list, or none, no awaiter is left where its fiber   *)
(* parks for another reason.                                                *)
THEOREM AwaitersEndCorrect ==
    ASSUME ShortList
    PROVE  Spec => []AwaitersEndWithAwait
<1>1. Init => ListInv
  BY SelectInit DEF Init, ProgramInit, ListInv, NoneLeft, SleepsElsewhere, WaitersAsleep
<1>2. ListInv => AwaitersEndWithAwait
  <2> SUFFICES ASSUME ListInv, NEW f \in Fiber PROVE waiting[f] \subseteq Asked(f)
    BY DEF AwaitersEndWithAwait
  <2>1. waiting[f] \subseteq Source /\ op[f] \in {"user", "resume", "loop", "again"}
    BY DEF ListInv, SelectInv, TypeOK
  <2> QED
    BY <2>1, AskedIs DEF ListInv, NoneLeft
<1> QED
  BY <1>1, <1>2, ListStep, PTL DEF Spec

-----------------------------------------------------------------------------
(* Longer lists leave awaiters behind, but of their own sources only: those  *)
(* of the fixed pairs end with the await of the select, whatever the list.  *)
OnlyListLeaves == \A f \in Fiber : op[f] # "resume" => waiting[f] \subseteq Dynamic

LEMMA OnlyListLeavesStep == TypeOK /\ OnlyListLeaves /\ [Next]_vars => OnlyListLeaves'
<1> SUFFICES ASSUME TypeOK, OnlyListLeaves, [Next]_vars PROVE OnlyListLeaves'
  OBVIOUS
<1>1. ASSUME \A g \in Fiber : op'[g] # "resume" =>
                waiting'[g] \subseteq Dynamic \/ (op[g] # "resume" /\ waiting'[g] \subseteq waiting[g])
      PROVE  OnlyListLeaves'
  BY <1>1 DEF OnlyListLeaves
<1>2. CASE Resumes \/ Handler \/ Over \/ UNCHANGED vars
  BY <1>1, <1>2 DEF Resumes, Handler, Elsewhere, Fire, Over, vars, progVars, selectVars
<1>3. ASSUME NEW s \in Source, Fill(s) \/ Drain(s) PROVE OnlyListLeaves'
  BY <1>1, <1>3 DEF Fill, Drain, progVars
<1>4. ASSUME NEW f \in Fiber, NEW from, NEW to, NEW sources, Asks(f, from, to, sources),
             from # "resume", to = "resume" \/ sources = Dynamic
      PROVE  OnlyListLeaves'
  BY <1>1, <1>4 DEF Asks, FindsReady, SuspendsOn, Code, Set, TypeOK
<1>5. ASSUME NEW f \in Fiber, SelectResumes(f) PROVE OnlyListLeaves'
  BY <1>1, <1>5 DEF SelectResumes, Set, TypeOK
<1>6. ASSUME NEW f \in Fiber,
             \/ RunCallback(f) \/ ListResumes(f) \/ SelectReturns(f) \/ CallbackEnds(f)
             \/ CallbackThrows(f) \/ \E s \in Dynamic : RunPair(f, s)
      PROVE  OnlyListLeaves'
  BY <1>1, <1>6
     DEF RunCallback, ListResumes, SelectReturns, CallbackEnds, CallbackThrows, RunPair, Code, Set,
         progVars, selectVars, TypeOK
<1>7. ASSUME NEW f \in Fiber, Otherwise(f) PROVE OnlyListLeaves'
  <2>1. UNCHANGED waiting
    BY <1>7 DEF Otherwise, selectVars
  <2>2. UNCHANGED op
    BY <1>7 DEF Otherwise, OwnBusiness, Start, Sleep, Yield, AwaitOn, Unwind
  <2> QED
    BY <1>1, <2>1, <2>2
<1>8. ASSUME NEW f \in Fiber, Ends(f) PROVE OnlyListLeaves'
  BY <1>1, <1>8 DEF Ends, Finish, Set, TypeOK
<1> QED
  BY <1>2, <1>3, <1>4, <1>5, <1>6, <1>7, <1>8 DEF Next, SelectStep, Selects, DoSelect

(* The awaiters of a select's fixed pairs never outlive its await: what a   *)
(* list of any length may leave behind are awaiters of its own sources.     *)
THEOREM OnlyListLeavesCorrect == Spec => []OnlyListLeaves
<1>1. Init => OnlyListLeaves
  BY DEF Init, ProgramInit, OnlyListLeaves
<1>2. SelectInv => TypeOK
  BY DEF SelectInv
<1> QED
  BY <1>1, <1>2, SelectInit, SelectKeeps, OnlyListLeavesStep, PTL DEF Spec

=============================================================================
