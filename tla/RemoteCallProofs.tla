-------------------------- MODULE RemoteCallProofs --------------------------
(***************************************************************************
Pipe keeps the scheduler's queues and stack, lets nobody sleep without a
reason, wakes its reader only for something to read, and implements Channel.

In a remote call a closure never outlives the Event it refers to, the closure
of a caller that waits is in the pipe or at the server, and the whole
implements Service.
The pipe's own invariant holds of the larger system too; what it lacks is
where each caller stands (Positions), that a closure is in one place
(OnePlace), and that only its caller awaits an Event (OwnEvent).
***************************************************************************)
EXTENDS RemoteCall, ProgramProofs

(* Only Reader reads, and while it is suspended in a read it waits for      *)
(* nothing else.                                                            *)
OneReader ==
    \A f \in Fiber :
        /\ op[f] \in {"read", "woken"} => f = Reader
        /\ op[f] = "woken" => awaiting[f] \in {None, "read"}

PipeInv == TypeOK /\ SchedInv /\ OneReader /\ SleepersHaveReason /\ WokenFindsData

LEMMA Names ==
    /\ \A f \in Fiber : f \notin {"Empty", "Closed", "none", "ok", "closed"}
    /\ "read" \in Context /\ "write" \in Context /\ "elsewhere" \in Context
    /\ \A k \in Context : k # None
BY PipeAssumption, ProgramAssumption

-----------------------------------------------------------------------------
LEMMA CallsKeepsPipe ==
    ASSUME PipeInv, NEW f \in Fiber, NEW o \in {"put", "shutdown", "read"}, Calls(f, o),
           o = "read" => f = Reader
    PROVE  PipeInv'
<1>1. SchedInv' /\ ProgramTypeOK' /\ WaitersAsleep'
  BY DEF PipeInv, TypeOK, ProgramTypeOK, SchedInv, SchedTypeOK, QueueOK, StackOK, SleepersHaveReason,
         WaitersAsleep, Calls, schedVars
<1>2. TypeOK'
  BY <1>1 DEF PipeInv, TypeOK, Calls
<1> QED
  BY <1>1, <1>2 DEF PipeInv, TypeOK, OneReader, SleepersHaveReason, WokenFindsData, HoldsValue, Calls, Code

LEMMA ReturnsKeepsPipe ==
    ASSUME PipeInv, NEW f \in Fiber, PutRefused(f) \/ ReadEnds(f)
    PROVE  PipeInv'
<1>1. SchedInv' /\ ProgramTypeOK' /\ WaitersAsleep'
  BY DEF PipeInv, TypeOK, ProgramTypeOK, SchedInv, SchedTypeOK, QueueOK, StackOK, SleepersHaveReason,
         WaitersAsleep, PutRefused, ReadEnds, schedVars
<1>2. TypeOK'
  BY <1>1 DEF PipeInv, TypeOK, PutRefused, ReadEnds, Returns
<1> QED
  BY <1>1, <1>2 DEF PipeInv, TypeOK, OneReader, SleepersHaveReason, WokenFindsData, HoldsValue, PutRefused,
                    ReadEnds, Returns

LEMMA PutSuspendsKeepsPipe ==
    ASSUME PipeInv, NEW f \in Fiber, PutSuspends(f)
    PROVE  PipeInv'
<1>1. SchedInv' /\ WaitersAsleep'
  BY SuspendKeeps, AwaitOnKeepsWaiters DEF PipeInv, SleepersHaveReason, PutSuspends, AwaitOn
<1>2. TypeOK'
  BY <1>1, Names DEF PipeInv, TypeOK, ProgramTypeOK, SchedInv, PutSuspends, AwaitOn
<1>3. op[f] \in {"put", "shutdown"}
  BY DEF PutSuspends, Writing, Code
<1> QED
  BY <1>1, <1>2, <1>3, Names
     DEF PipeInv, TypeOK, ProgramTypeOK, OneReader, SleepersHaveReason, WokenFindsData, HoldsValue, PutSuspends,
         AwaitOn

LEMMA ReadSuspendsKeepsPipe ==
    ASSUME PipeInv, NEW f \in Fiber, ReadSuspends(f)
    PROVE  PipeInv'
<1>1. SchedInv' /\ WaitersAsleep'
  BY SuspendKeeps, AwaitOnKeepsWaiters DEF PipeInv, SleepersHaveReason, ReadSuspends, AwaitOn
<1>2. TypeOK'
  BY <1>1, Names DEF PipeInv, TypeOK, ProgramTypeOK, SchedInv, ReadSuspends, AwaitOn
<1>3. f = Reader
  BY DEF PipeInv, OneReader, ReadSuspends, Code
<1> QED
  BY <1>1, <1>2, <1>3, Names
     DEF PipeInv, TypeOK, ProgramTypeOK, OneReader, SleepersHaveReason, WokenFindsData, HoldsValue, ReadSuspends,
         AwaitOn

(* The pipe was empty, so no fiber waits to write; the reader is fired. *)
LEMMA PutStoresKeepsPipe ==
    ASSUME PipeInv, NEW f \in Fiber, PutStores(f)
    PROVE  PipeInv'
<1>1. SchedInv' /\ WaitersAsleep'
  BY FireKeeps, FireKeepsWaiters DEF PipeInv, SleepersHaveReason, PutStores
<1>2. TypeOK'
  BY <1>1 DEF PipeInv, TypeOK, ProgramTypeOK, SchedInv, PutStores, Fire, Wake, Waiters, Returns
<1>3. \A g \in Fiber : awaiting'[g] \notin {"read", "write"}
  BY Names DEF PipeInv, SleepersHaveReason, HoldsValue, PutStores, Fire, Wake, Waiters
<1>4. data' # "Empty"
  BY Names DEF PutStores
<1> QED
  BY <1>1, <1>2, <1>3, <1>4
     DEF PipeInv, TypeOK, OneReader, SleepersHaveReason, WokenFindsData, PutStores, Fire, Wake, Waiters, Returns

(* The pipe held a value, so the reader does not wait; the writers are fired. *)
LEMMA ReadTakesKeepsPipe ==
    ASSUME PipeInv, NEW f \in Fiber, ReadTakes(f)
    PROVE  PipeInv'
<1>1. SchedInv' /\ WaitersAsleep'
  BY FireKeeps, FireKeepsWaiters DEF PipeInv, SleepersHaveReason, ReadTakes
<1>2. TypeOK'
  BY <1>1 DEF PipeInv, TypeOK, ProgramTypeOK, SchedInv, ReadTakes, Fire, Wake, Waiters, Returns, HoldsValue
<1>3. \A g \in Fiber : awaiting'[g] \notin {"read", "write"}
  BY Names DEF PipeInv, SleepersHaveReason, HoldsValue, ReadTakes, Fire, Wake, Waiters
<1>4. \A g \in Fiber : op'[g] # "woken"
  BY DEF PipeInv, TypeOK, OneReader, ReadTakes, Reading, Code, Returns
<1> QED
  BY <1>1, <1>2, <1>3, <1>4
     DEF PipeInv, TypeOK, OneReader, SleepersHaveReason, WokenFindsData, ReadTakes, Fire, Wake, Waiters, Returns

LEMMA DiscardKeepsPipe ==
    ASSUME PipeInv, DiscardAndClose
    PROVE  PipeInv'
<1>1. Both \in SUBSET Fiber
  BY DEF Both, Waiters
<1>2. /\ SchedInv'
      /\ state' = [f \in Fiber |-> IF f \in Both /\ state[f] = "Suspended" THEN "Ready" ELSE state[f]]
  BY <1>1, ScheduledKeeps DEF PipeInv, DiscardAndClose, FireBoth, Wake
<1>3. /\ awaiting' = [f \in Fiber |-> IF f \in Both THEN None ELSE awaiting[f]]
      /\ data' = "Closed" /\ UNCHANGED <<op, result>>
  BY DEF DiscardAndClose, FireBoth, Wake
<1>4. TypeOK' /\ WaitersAsleep'
  BY <1>2, <1>3 DEF PipeInv, TypeOK, ProgramTypeOK, SchedInv, SleepersHaveReason, WaitersAsleep
<1>5. \A f \in Fiber : awaiting'[f] \notin {"read", "write"}
  BY <1>3, Names DEF Both, Waiters
<1> QED
  BY <1>2, <1>3, <1>4, <1>5 DEF PipeInv, OneReader, SleepersHaveReason, WokenFindsData

LEMMA OtherwiseKeepsPipe ==
    ASSUME PipeInv, NEW f \in Fiber, Otherwise(f)
    PROVE  PipeInv'
<1>1. SchedInv' /\ ProgramTypeOK' /\ WaitersAsleep'
  BY ProgramKeepsSched, ProgramKeepsType, ProgramKeepsWaiters DEF PipeInv, TypeOK, SleepersHaveReason, Otherwise
<1>2. UNCHANGED <<op, data, result>>
  BY DEF Otherwise, OwnBusiness, Start, Sleep, Yield, Unwind, Finish
<1>3. \/ UNCHANGED awaiting
      \/ op[f] = "user" /\ awaiting' = [awaiting EXCEPT ![f] = "elsewhere"]
  BY DEF Otherwise, OwnBusiness, Start, Sleep, AwaitOn, Code, Yield, Unwind, Finish
<1> QED
  BY <1>1, <1>2, <1>3, Names
     DEF PipeInv, TypeOK, ProgramTypeOK, OneReader, SleepersHaveReason, WokenFindsData, HoldsValue

LEMMA ResumesKeepsPipe ==
    ASSUME PipeInv, Resumes
    PROVE  PipeInv'
<1>1. SchedInv' /\ WaitersAsleep'
  BY RunKeeps, RunKeepsWaiters DEF PipeInv, SleepersHaveReason, Resumes
<1> QED
  BY <1>1 DEF PipeInv, TypeOK, ProgramTypeOK, SchedInv, OneReader, SleepersHaveReason, WokenFindsData, HoldsValue,
              Resumes

LEMMA HandlerKeepsPipe ==
    ASSUME PipeInv, Handler
    PROVE  PipeInv'
<1>1. SchedInv' /\ WaitersAsleep'
  BY FireKeeps, FireKeepsWaiters DEF PipeInv, SleepersHaveReason, Handler, Elsewhere
<1>2. TypeOK'
  BY <1>1 DEF PipeInv, TypeOK, ProgramTypeOK, SchedInv, Handler, Elsewhere, Fire, Wake, Waiters
<1>3. /\ awaiting' = [f \in Fiber |-> IF awaiting[f] = "elsewhere" THEN None ELSE awaiting[f]]
      /\ UNCHANGED <<op, data, result>>
  BY DEF Handler, Elsewhere, Fire, Wake, Waiters
<1> QED
  BY <1>1, <1>2, <1>3, Names DEF PipeInv, OneReader, SleepersHaveReason, WokenFindsData, HoldsValue

LEMMA PipeStep == PipeInv /\ [Next]_vars => PipeInv'
<1> SUFFICES ASSUME PipeInv, [Next]_vars PROVE PipeInv'
  OBVIOUS
<1>1. CASE UNCHANGED vars
  BY <1>1 DEF vars, progVars, schedVars, PipeInv, TypeOK, ProgramTypeOK, SchedInv, SchedTypeOK, QueueOK,
              StackOK, OneReader, SleepersHaveReason, WaitersAsleep, WokenFindsData, HoldsValue
<1>2. ASSUME NEW f \in Fiber, CallPut(f) \/ CallShutdown(f) \/ CallRead(f) PROVE PipeInv'
  BY <1>2, CallsKeepsPipe DEF CallPut, CallShutdown, CallRead
<1>3. ASSUME NEW f \in Fiber, WriterStep(f) \/ ReaderStep(f) PROVE PipeInv'
  BY <1>3, PutSuspendsKeepsPipe, ReturnsKeepsPipe, PutStoresKeepsPipe, ReadSuspendsKeepsPipe, ReadTakesKeepsPipe
     DEF WriterStep, ReaderStep
<1> QED
  BY <1>1, <1>2, <1>3, ResumesKeepsPipe, HandlerKeepsPipe, DiscardKeepsPipe, OtherwiseKeepsPipe DEF Next, Over

LEMMA PipeInit == Init => PipeInv
<1> SUFFICES ASSUME Init PROVE PipeInv
  OBVIOUS
<1>1. SchedInv /\ ProgramTypeOK
  BY ProgramInitKeeps DEF Init
<1> QED
  BY <1>1, Names DEF Init, ProgramInit, PipeInv, TypeOK, OneReader, SleepersHaveReason, WaitersAsleep, WokenFindsData

(* Nobody sleeps at the pipe without a reason. *)
THEOREM SleepersHaveReasonCorrect == Spec => []SleepersHaveReason
BY PipeInit, PipeStep, PTL DEF Spec, PipeInv

(* A reader that was woken finds something to read. *)
THEOREM WokenFindsDataCorrect == Spec => []WokenFindsData
BY PipeInit, PipeStep, PTL DEF Spec, PipeInv

-----------------------------------------------------------------------------
(***************************************************************************
Every step of the pipe is a step of the channel or leaves it alone: of the
scheduler it needs nothing but that the fiber that acts is inside the call.
***************************************************************************)
Mapped == [f \in Fiber |-> IF op[f] = "woken" THEN "read" ELSE op[f]]

LEMMA ReturnMaps ==
    ASSUME TypeOK, NEW f \in Fiber, NEW r, Returns(f, r)
    PROVE  AsChannel!Returns(f, r)
BY DEF TypeOK, Returns, AsChannel!Returns

LEMMA CallMaps ==
    ASSUME TypeOK, NEW f \in Fiber, CallPut(f) \/ CallShutdown(f) \/ CallRead(f)
    PROVE  AsChannel!Begin(f)
<1>1. PICK o \in {"put", "shutdown"} \cup (IF f = Reader THEN {"read"} ELSE {}) : Calls(f, o)
  BY DEF CallPut, CallShutdown, CallRead
<1>2. Mapped' = [Mapped EXCEPT ![f] = o] /\ Mapped[f] = "user"
  BY <1>1 DEF TypeOK, Calls, Code, Mapped
<1> QED
  BY <1>1, <1>2 DEF Calls, Mapped, AsChannel!Begin

LEMMA WriterMaps ==
    ASSUME TypeOK, NEW f \in Fiber, PutRefused(f) \/ PutStores(f)
    PROVE  AsChannel!Write(f)
<1>1. op[f] \in {"put", "shutdown"}
  BY DEF PutRefused, PutStores, Writing, Code
<1>2. CASE PutRefused(f)
  BY <1>1, <1>2, ReturnMaps DEF PutRefused, AsChannel!Write, AsChannel!Refuse
<1>3. CASE PutStores(f)
  BY <1>1, <1>3, ReturnMaps DEF PutStores, AsChannel!Write, AsChannel!Put, AsChannel!Shutdown
<1> QED
  BY <1>2, <1>3

LEMMA ReaderMaps ==
    ASSUME TypeOK, NEW f \in Fiber, ReadTakes(f) \/ ReadEnds(f)
    PROVE  AsChannel!Read(f)
<1>1. op[f] \in {"read", "woken"}
  BY DEF ReadTakes, ReadEnds, Reading, Code
<1>2. CASE ReadTakes(f)
  <2>1. AsChannel!Returns(f, data)
    BY <1>2 DEF TypeOK, ReadTakes, Returns, AsChannel!Returns
  <2> QED
    BY <1>1, <1>2, <2>1 DEF ReadTakes, HoldsValue, AsChannel!Holds, AsChannel!Read, AsChannel!Receive
<1>3. CASE ReadEnds(f)
  BY <1>1, <1>3, ReturnMaps DEF ReadEnds, AsChannel!Read, AsChannel!EndOfData
<1> QED
  BY <1>2, <1>3

LEMMA SuspendsMaps ==
    ASSUME TypeOK, NEW f \in Fiber, PutSuspends(f) \/ ReadSuspends(f)
    PROVE  UNCHANGED AsChannel!vars
<1>1. Mapped' = Mapped
  BY DEF TypeOK, PutSuspends, ReadSuspends, Code, Mapped
<1> QED
  BY <1>1 DEF PutSuspends, ReadSuspends, Mapped, AsChannel!vars

LEMMA StepMaps == TypeOK /\ [Next]_vars => [AsChannel!Next]_(AsChannel!vars)
<1> SUFFICES ASSUME TypeOK, [Next]_vars PROVE [AsChannel!Next]_(AsChannel!vars)
  OBVIOUS
<1>1. CASE UNCHANGED <<op, data, result>>
  BY <1>1 DEF AsChannel!vars
<1>2. CASE DiscardAndClose
  BY <1>2 DEF DiscardAndClose, AsChannel!Next, AsChannel!Discard
<1>3. ASSUME NEW f \in Fiber, CallPut(f) \/ CallShutdown(f) \/ CallRead(f) PROVE AsChannel!Next
  BY <1>3, CallMaps DEF AsChannel!Next
<1>4. ASSUME NEW f \in Fiber, WriterStep(f) \/ ReaderStep(f)
      PROVE  [AsChannel!Next]_(AsChannel!vars)
  BY <1>4, WriterMaps, ReaderMaps, SuspendsMaps DEF WriterStep, ReaderStep, AsChannel!Next
<1>5. ASSUME NEW f \in Fiber, Otherwise(f) PROVE UNCHANGED <<op, data, result>>
  BY <1>5 DEF Otherwise, OwnBusiness, Start, Sleep, Yield, Unwind, Finish
<1>6. Resumes \/ Handler \/ Over \/ UNCHANGED vars => UNCHANGED <<op, data, result>>
  BY DEF Resumes, Handler, Elsewhere, Over, vars, progVars
<1> QED
  BY <1>1, <1>2, <1>3, <1>4, <1>5, <1>6 DEF Next

LEMMA InitMaps == Init => AsChannel!Init
BY DEF Init, ProgramInit, AsChannel!Init

(* The pipe implements the channel: whatever sleeps and wake-ups happen, each *)
(* value is read once or discarded, and a closed pipe stays closed.         *)
THEOREM PipeIsChannel == Spec => AsChannel!Spec
<1>1. Spec => []TypeOK
  BY PipeInit, PipeStep, PTL DEF Spec, PipeInv
<1> QED
  BY <1>1, InitMaps, StepMaps, PTL DEF Spec, AsChannel!Spec

-----------------------------------------------------------------------------
(***************************************************************************
The remote call: its invariant.
***************************************************************************)
CallTypeOK ==
    /\ stage \in [Fiber -> {"out", "put", "sent", "waits"}]
    /\ reply \in [Fiber -> {"none", "ok", "failed"}]

Positions ==
    \A f \in Fiber :
        /\ stage[f] = "put" <=> op[f] = "put"
        /\ stage[f] = "put" => reply[f] = "none"
        /\ stage[f] = "sent" => Code(f, "user") /\ Held(f) /\ reply[f] = "none"
        /\ stage[f] = "waits" => op[f] = "user"
        /\ stage[f] # "out" \/ op[f] = "shutdown" => f # Reader
        /\ op[f] \in {"read", "woken"} => result[f] = "none"

OnePlace == HoldsValue => result[Reader] # data

OwnEvent ==
    \A f \in Fiber :
        /\ awaiting[f] \in Fiber => awaiting[f] = f /\ stage[f] = "waits"
        /\ stage[f] = "waits" => awaiting[f] \in {None, f}

CallInv ==
    /\ CallTypeOK /\ Positions /\ OnePlace /\ OwnEvent
    /\ EventOutlivesClosure /\ CallersAnswered

LEMMA CallNames ==
    /\ Reader \in Fiber
    /\ \A f \in Fiber :
          f \notin {"Empty", "Closed", "none", "ok", "closed", "elsewhere", "read", "write", None}
    /\ \A f \in Fiber : f \in Context
BY PipeAssumption, RemoteCallAssumption, FiberAssumption

LEMMA HeldIs ==
    /\ \A f \in Fiber : f \in serving <=> result[Reader] = f
    /\ \A f \in Fiber : Held(f) <=> data = f \/ result[Reader] = f
    /\ \A f \in Fiber : f \in serving' <=> result'[Reader] = f
    /\ \A f \in Fiber : Held(f)' <=> data' = f \/ result'[Reader] = f
BY DEF Held, serving

-----------------------------------------------------------------------------
(***************************************************************************
The pipe's invariant holds in the steps that calls add to its own.
***************************************************************************)
LEMMA AwaitReplyKeepsPipe ==
    ASSUME PipeInv, NEW f \in Fiber, AwaitReply(f)
    PROVE  PipeInv'
<1>1. SchedInv' /\ WaitersAsleep'
  BY SuspendKeeps, AwaitOnKeepsWaiters DEF PipeInv, SleepersHaveReason, AwaitReply, AwaitOn
<1>2. TypeOK'
  BY <1>1, CallNames DEF PipeInv, TypeOK, ProgramTypeOK, SchedInv, AwaitReply, AwaitOn
<1>3. op[f] = "user" /\ awaiting' = [awaiting EXCEPT ![f] = f] /\ UNCHANGED <<op, data, result>>
  BY DEF AwaitReply, AwaitOn, Code
<1> QED
  BY <1>1, <1>2, <1>3, CallNames
     DEF PipeInv, TypeOK, ProgramTypeOK, OneReader, SleepersHaveReason, WokenFindsData, HoldsValue

LEMMA AnswersEffect ==
    ASSUME PipeInv, NEW r, Answers(r)
    PROVE  \E g \in serving :
              /\ g \in Fiber /\ result[Reader] = g
              /\ SchedInv' /\ WaitersAsleep'
              /\ state' = [f \in Fiber |-> IF awaiting[f] = g /\ state[f] = "Suspended"
                                              THEN "Ready" ELSE state[f]]
              /\ awaiting' = [f \in Fiber |-> IF awaiting[f] = g THEN None ELSE awaiting[f]]
              /\ reply' = [reply EXCEPT ![g] = r]
              /\ result' = [result EXCEPT ![Reader] = "none"]
              /\ Code(Reader, "user")
              /\ UNCHANGED <<op, data, stage, running>>
<1>1. PICK g \in serving : Fire(g) /\ Fires(g, r)
  BY DEF Answers
<1>2. g \in Fiber /\ result[Reader] = g
  BY <1>1 DEF serving
<1>3. /\ SchedInv' /\ WaitersAsleep'
      /\ state' = [f \in Fiber |-> IF awaiting[f] = g /\ state[f] = "Suspended"
                                      THEN "Ready" ELSE state[f]]
  BY <1>1, FireKeeps, FireKeepsWaiters DEF PipeInv, SleepersHaveReason
<1>4. awaiting' = [f \in Fiber |-> IF awaiting[f] = g THEN None ELSE awaiting[f]]
  BY <1>1 DEF Fire, Wake, Waiters
<1> QED
  BY <1>1, <1>2, <1>3, <1>4 DEF Answers, Fires, Fire, Wake

LEMMA AnswersKeepsPipe ==
    ASSUME PipeInv, NEW r, Answers(r)
    PROVE  PipeInv'
<1>1. PICK g \in Fiber :
         /\ SchedInv' /\ WaitersAsleep'
         /\ awaiting' = [f \in Fiber |-> IF awaiting[f] = g THEN None ELSE awaiting[f]]
         /\ result' = [result EXCEPT ![Reader] = "none"]
         /\ UNCHANGED <<op, data>>
  BY AnswersEffect
<1>2. TypeOK'
  BY <1>1, CallNames DEF PipeInv, TypeOK, ProgramTypeOK, SchedInv
<1>3. \A f \in Fiber : op[f] = "woken" => awaiting'[f] = awaiting[f]
  BY <1>1, CallNames DEF PipeInv, OneReader
<1>4. \A f \in Fiber : awaiting'[f] \in {"read", "write"} => awaiting'[f] = awaiting[f]
  BY <1>1, Names
<1> QED
  BY <1>1, <1>2, <1>3, <1>4
     DEF PipeInv, OneReader, SleepersHaveReason, WokenFindsData, HoldsValue

LEMMA DiscardsEffect ==
    ASSUME PipeInv, Discards
    PROVE  /\ SchedInv' /\ WaitersAsleep'
           /\ state' = [f \in Fiber |-> IF f \in Woken /\ state[f] = "Suspended"
                                           THEN "Ready" ELSE state[f]]
           /\ awaiting' = [f \in Fiber |-> IF f \in Woken THEN None ELSE awaiting[f]]
           /\ data' = "Closed"
           /\ reply' = [f \in Fiber |-> IF data = f THEN "failed" ELSE reply[f]]
           /\ UNCHANGED <<op, result, stage, running>>
<1>1. Woken \in SUBSET Fiber
  BY DEF Woken, Both, Waiters
<1>2. /\ SchedInv'
      /\ state' = [f \in Fiber |-> IF f \in Woken /\ state[f] = "Suspended" THEN "Ready" ELSE state[f]]
  BY <1>1, ScheduledKeeps DEF PipeInv, Discards, FireInTurn, Wake
<1>3. awaiting' = [f \in Fiber |-> IF f \in Woken THEN None ELSE awaiting[f]]
  BY DEF Discards, FireInTurn, Wake
<1>4. WaitersAsleep'
  BY <1>2, <1>3 DEF PipeInv, SleepersHaveReason, WaitersAsleep
<1> QED
  BY <1>2, <1>3, <1>4 DEF Discards, Discarded, FireInTurn, Wake

LEMMA DiscardsKeepsPipe ==
    ASSUME PipeInv, Discards
    PROVE  PipeInv'
<1>1. /\ SchedInv' /\ WaitersAsleep'
      /\ awaiting' = [f \in Fiber |-> IF f \in Woken THEN None ELSE awaiting[f]]
      /\ data' = "Closed" /\ UNCHANGED <<op, result>>
  BY DiscardsEffect
<1>2. TypeOK'
  BY <1>1 DEF PipeInv, TypeOK, ProgramTypeOK, SchedInv
<1>3. \A f \in Fiber : awaiting'[f] \notin {"read", "write"}
  BY <1>1, Names DEF Woken, Both, Waiters
<1> QED
  BY <1>1, <1>2, <1>3 DEF PipeInv, OneReader, SleepersHaveReason, WokenFindsData

LEMMA CallStepKeepsPipe == PipeInv /\ [CallNext]_callVars => PipeInv'
<1> SUFFICES ASSUME PipeInv, [CallNext]_callVars PROVE PipeInv'
  OBVIOUS
<1>1. ASSUME NEW f \in Fiber, Call(f) \/ Shutdown(f) \/ PutWaits(f) \/ Sends(f) \/ Fails(f) \/ Besides(f)
      PROVE  Next
  BY <1>1 DEF Call, Shutdown, PutWaits, Sends, Fails, Besides, Next, WriterStep, Otherwise, OwnBusiness
<1>2. Loop \/ Comes \/ Done \/ Reads \/ ReadStep => Next
  BY CallNames DEF Loop, Comes, Done, Reads, ReadStep, Next
<1>3. ASSUME NEW f \in Fiber, CallReturns(f) PROVE UNCHANGED vars
  BY <1>3 DEF CallReturns
<1>4. Serve \/ UNCHANGED callVars => UNCHANGED vars
  BY DEF Serve, callVars
<1>5. CASE Completes \/ Drops
  BY <1>5, AnswersKeepsPipe DEF Completes, Drops
<1>6. [Next]_vars => PipeInv'
  BY PipeStep
<1>7. ASSUME NEW f \in Fiber, Call(f) \/ Shutdown(f) \/ CallerStep(f) \/ Besides(f) PROVE PipeInv'
  BY <1>1, <1>3, <1>6, <1>7, AwaitReplyKeepsPipe DEF CallerStep
<1> QED
  BY <1>2, <1>3, <1>4, <1>5, <1>6, <1>7, DiscardsKeepsPipe DEF CallNext

-----------------------------------------------------------------------------
(***************************************************************************
The caller's side.  The running fiber is the only one that may be between the
put and the await, so nothing but itself finds it there.
***************************************************************************)
Inv == PipeInv /\ CallInv

(* Only what a fiber's call and the closures are made of matters. *)
LEMMA StillKeepsCall ==
    ASSUME Inv, UNCHANGED <<op, data, result, stage, reply>>,
           \A f \in Fiber : awaiting'[f] = awaiting[f] \/ {awaiting[f], awaiting'[f]} \cap Fiber = {},
           \A f \in Fiber : stage[f] = "sent" => Code(f, "user")',
           \A f \in Fiber : stage[f] = "waits" => awaiting'[f] = awaiting[f]
    PROVE  CallInv'
<1>1. Positions'
  BY HeldIs DEF Inv, CallInv, Positions
<1>2. OwnEvent'
  BY DEF Inv, CallInv, OwnEvent
<1>3. EventOutlivesClosure'
  BY HeldIs DEF Inv, CallInv, EventOutlivesClosure
<1>4. CallersAnswered'
  BY HeldIs DEF Inv, CallInv, CallersAnswered, OwnEvent
<1> QED
  BY <1>1, <1>2, <1>3, <1>4 DEF Inv, CallInv, CallTypeOK, OnePlace, HoldsValue

LEMMA OneSends ==
    ASSUME Inv, NEW f \in Fiber, running = f, NEW g \in Fiber, stage[g] = "sent"
    PROVE  g = f
BY DEF Inv, CallInv, Positions, Code

(* A fiber whose code runs waits for nothing. *)
LEMMA RunsAwake ==
    ASSUME Inv, NEW f \in Fiber, state[f] = "Running"
    PROVE  awaiting[f] = None
BY DEF Inv, PipeInv, SleepersHaveReason, WaitersAsleep

LEMMA CallKeepsCall ==
    ASSUME Inv, NEW f \in Fiber, Call(f) \/ Shutdown(f)
    PROVE  CallInv'
<1>1. /\ f # Reader /\ stage[f] = "out" /\ op[f] = "user" /\ running = f
      /\ UNCHANGED <<state, running, awaiting, data>>
      /\ result' = [result EXCEPT ![f] = "none"]
  BY DEF Call, Shutdown, CallPut, CallShutdown, Calls, Code, schedVars
<1>2. \/ /\ op' = [op EXCEPT ![f] = "put"] /\ stage' = [stage EXCEPT ![f] = "put"]
         /\ reply' = [reply EXCEPT ![f] = "none"]
      \/ op' = [op EXCEPT ![f] = "shutdown"] /\ UNCHANGED <<stage, reply>>
  BY DEF Call, Shutdown, CallPut, CallShutdown, Calls, Goes, Fires
<1>3. result'[Reader] = result[Reader]
  BY <1>1, CallNames DEF Inv, PipeInv, TypeOK
<1>4. \A g \in Fiber : Held(g)' <=> Held(g)
  BY <1>1, <1>3, HeldIs
<1>5. ~Held(f)
  BY <1>1 DEF Inv, CallInv, EventOutlivesClosure
<1>6. CallTypeOK'
  BY <1>1, <1>2 DEF Inv, CallInv, CallTypeOK
<1>7. Positions'
  BY <1>1, <1>2, <1>4 DEF Inv, PipeInv, TypeOK, CallInv, CallTypeOK, Positions, Code
<1>8. OwnEvent'
  BY <1>1, <1>2 DEF Inv, CallInv, CallTypeOK, OwnEvent
<1>9. EventOutlivesClosure'
  BY <1>1, <1>2, <1>4, <1>5 DEF Inv, CallInv, CallTypeOK, EventOutlivesClosure
<1>10. CallersAnswered'
  BY <1>1, <1>2, <1>4 DEF Inv, CallInv, CallTypeOK, CallersAnswered
<1> QED
  BY <1>1, <1>3, <1>6, <1>7, <1>8, <1>9, <1>10 DEF Inv, CallInv, OnePlace, HoldsValue

LEMMA SendsKeepsCall ==
    ASSUME Inv, NEW f \in Fiber, Sends(f)
    PROVE  CallInv'
<1>1. /\ op[f] \in {"put", "shutdown"} /\ running = f /\ state[f] = "Running" /\ data = "Empty"
      /\ data' = IF op[f] = "put" THEN f ELSE "Closed"
      /\ op' = [op EXCEPT ![f] = "user"] /\ result' = [result EXCEPT ![f] = "ok"]
      /\ UNCHANGED <<reply, running>>
  BY DEF Sends, PutStores, Writing, Code, Returns, Fire, Wake
<1>2. /\ state' = [g \in Fiber |-> IF awaiting[g] = "read" /\ state[g] = "Suspended"
                                      THEN "Ready" ELSE state[g]]
      /\ awaiting' = [g \in Fiber |-> IF awaiting[g] = "read" THEN None ELSE awaiting[g]]
  BY FireKeeps DEF Sends, PutStores, Inv, PipeInv, Fire, Wake, Waiters
<1>3. stage' = IF op[f] = "put" THEN [stage EXCEPT ![f] = "sent"] ELSE stage
  BY DEF Sends, Goes
<1>4. f # Reader /\ (op[f] = "put" <=> stage[f] = "put") /\ (op[f] = "put" => reply[f] = "none")
      /\ stage[f] \in {"put", "out"}
  BY <1>1 DEF Inv, CallInv, CallTypeOK, Positions, Code
<1>5. result'[Reader] = result[Reader]
  BY <1>1, <1>4, CallNames DEF Inv, PipeInv, TypeOK
<1>6. result[Reader] # f
  BY <1>4, HeldIs DEF Inv, CallInv, EventOutlivesClosure
<1>7. \A g \in Fiber : Held(g)' <=> Held(g) \/ (g = f /\ op[f] = "put")
  BY <1>1, <1>5, HeldIs, CallNames
<1>8. \A g \in Fiber \ {f} : stage[g] # "sent"
  BY <1>1, OneSends
<1>9. CallTypeOK'
  BY <1>1, <1>3 DEF Inv, CallInv, CallTypeOK
<1>10. state'[f] = "Running" /\ op'[f] = "user"
  BY <1>1, <1>2 DEF Inv, PipeInv, TypeOK
<1>11. Positions'
  BY <1>1, <1>3, <1>4, <1>7, <1>8, <1>10 DEF Inv, PipeInv, TypeOK, CallInv, CallTypeOK, Positions, Code
<1>12. OwnEvent'
  BY <1>2, <1>3, <1>4, CallNames DEF Inv, CallInv, CallTypeOK, OwnEvent
<1>13. EventOutlivesClosure'
  BY <1>1, <1>3, <1>4, <1>7 DEF Inv, CallInv, CallTypeOK, EventOutlivesClosure
<1>14. CallersAnswered'
  BY <1>1, <1>2, <1>3, <1>7, CallNames DEF Inv, CallInv, CallTypeOK, CallersAnswered, OwnEvent
<1> QED
  BY <1>1, <1>5, <1>6, <1>9, <1>11, <1>12, <1>13, <1>14, CallNames
     DEF Inv, CallInv, OnePlace, HoldsValue

LEMMA FailsKeepsCall ==
    ASSUME Inv, NEW f \in Fiber, Fails(f)
    PROVE  CallInv'
<1>1. /\ op[f] \in {"put", "shutdown"} /\ running = f
      /\ op' = [op EXCEPT ![f] = "user"] /\ result' = [result EXCEPT ![f] = "closed"]
      /\ UNCHANGED <<state, running, awaiting, data>>
      /\ IF op[f] = "put" THEN /\ stage' = [stage EXCEPT ![f] = "out"]
                               /\ reply' = [reply EXCEPT ![f] = "failed"]
                          ELSE UNCHANGED <<stage, reply>>
  BY DEF Fails, PutRefused, Writing, Code, Returns, Goes, Fires, schedVars
<1>2. f # Reader /\ (op[f] = "put" <=> stage[f] = "put") /\ stage[f] \in {"put", "out"}
  BY <1>1 DEF Inv, CallInv, CallTypeOK, Positions, Code
<1>3. result'[Reader] = result[Reader]
  BY <1>1, <1>2, CallNames DEF Inv, PipeInv, TypeOK
<1>4. \A g \in Fiber : Held(g)' <=> Held(g)
  BY <1>1, <1>3, HeldIs
<1>5. ~Held(f)
  BY <1>2 DEF Inv, CallInv, EventOutlivesClosure
<1>6. \A g \in Fiber \ {f} : stage[g] # "sent"
  BY <1>1, OneSends
<1>7. CallTypeOK'
  BY <1>1 DEF Inv, CallInv, CallTypeOK
<1>8. Positions'
  BY <1>1, <1>2, <1>4, <1>6 DEF Inv, PipeInv, TypeOK, CallInv, CallTypeOK, Positions, Code
<1>9. OwnEvent'
  BY <1>1, <1>2 DEF Inv, CallInv, CallTypeOK, OwnEvent
<1>10. EventOutlivesClosure'
  BY <1>1, <1>4, <1>5 DEF Inv, CallInv, CallTypeOK, EventOutlivesClosure
<1>11. CallersAnswered'
  BY <1>1, <1>2, <1>4 DEF Inv, CallInv, CallTypeOK, CallersAnswered
<1> QED
  BY <1>1, <1>3, <1>7, <1>8, <1>9, <1>10, <1>11 DEF Inv, CallInv, OnePlace, HoldsValue

(* The caller has just put its closure, so the closure is there to answer.  *)
LEMMA AwaitReplyKeepsCall ==
    ASSUME Inv, NEW f \in Fiber, AwaitReply(f)
    PROVE  CallInv'
<1>1. /\ stage[f] = "sent" /\ op[f] = "user" /\ running = f /\ reply[f] = "none"
      /\ state' = [state EXCEPT ![f] = "Suspending"]
      /\ awaiting' = [awaiting EXCEPT ![f] = f]
      /\ stage' = [stage EXCEPT ![f] = "waits"]
      /\ UNCHANGED <<op, data, result, reply, running>>
  BY DEF AwaitReply, AwaitOn, Suspend, Code, Goes
<1>2. Held(f) /\ f # Reader
  BY <1>1 DEF Inv, CallInv, Positions
<1>3. \A g \in Fiber : Held(g)' <=> Held(g)
  BY <1>1, HeldIs
<1>4. \A g \in Fiber \ {f} : stage[g] # "sent"
  BY <1>1, OneSends
<1>5. CallTypeOK'
  BY <1>1 DEF Inv, CallInv, CallTypeOK
<1>6. Positions'
  BY <1>1, <1>2, <1>3, <1>4 DEF Inv, CallInv, CallTypeOK, Positions
<1>7. OwnEvent'
  BY <1>1 DEF Inv, CallInv, CallTypeOK, OwnEvent, PipeInv, TypeOK, ProgramTypeOK
<1>8. EventOutlivesClosure'
  BY <1>1, <1>3 DEF Inv, CallInv, CallTypeOK, EventOutlivesClosure
<1>9. CallersAnswered'
  BY <1>1, <1>2, <1>3, CallNames
     DEF Inv, CallInv, CallTypeOK, CallersAnswered, PipeInv, TypeOK, ProgramTypeOK
<1> QED
  BY <1>1, <1>5, <1>6, <1>7, <1>8, <1>9 DEF Inv, CallInv, OnePlace, HoldsValue

LEMMA CallReturnsKeepsCall ==
    ASSUME Inv, NEW f \in Fiber, CallReturns(f)
    PROVE  CallInv'
<1>1. /\ stage[f] = "waits" /\ op[f] = "user" /\ running = f /\ state[f] = "Running"
      /\ reply[f] # "none" /\ stage' = [stage EXCEPT ![f] = "out"]
      /\ UNCHANGED <<op, data, result, reply, running, state, awaiting>>
  BY DEF CallReturns, Code, Goes, vars, progVars, schedVars
<1>2. awaiting[f] = None /\ ~Held(f)
  BY <1>1, RunsAwake DEF Inv, CallInv, EventOutlivesClosure
<1>3. \A g \in Fiber : Held(g)' <=> Held(g)
  BY <1>1, HeldIs
<1>4. CallTypeOK'
  BY <1>1 DEF Inv, CallInv, CallTypeOK
<1>5. Positions'
  BY <1>1, <1>3 DEF Inv, CallInv, CallTypeOK, Positions, Code
<1>6. OwnEvent'
  BY <1>1, <1>2, CallNames DEF Inv, CallInv, CallTypeOK, OwnEvent
<1>7. EventOutlivesClosure' /\ CallersAnswered'
  BY <1>1, <1>2, <1>3 DEF Inv, CallInv, CallTypeOK, EventOutlivesClosure, CallersAnswered
<1> QED
  BY <1>1, <1>4, <1>5, <1>6, <1>7 DEF Inv, CallInv, OnePlace, HoldsValue

-----------------------------------------------------------------------------
(***************************************************************************
The server's side, the handlers' and the scheduler's.
***************************************************************************)

(* Liberty: whatever happens now, nobody is between the put and the await. *)
LEMMA AtLiberty ==
    ASSUME Inv, Liberty, NEW g \in Fiber
    PROVE  stage[g] # "sent"
BY FiberAssumption DEF Inv, CallInv, Positions, Code, Liberty

LEMMA ReaderNotSent ==
    ASSUME Inv, running = Reader, NEW g \in Fiber
    PROVE  stage[g] # "sent"
<1>1. stage[Reader] # "sent"
  BY CallNames DEF Inv, CallInv, Positions
<1> QED
  BY <1>1, OneSends, CallNames

LEMMA ReadsKeepsCall ==
    ASSUME Inv, Reads \/ (ReadEnds(Reader) /\ UNCHANGED <<stage, reply>>)
    PROVE  CallInv'
<1>1. /\ op[Reader] \in {"user", "read", "woken"} /\ running = Reader
      /\ result[Reader] \notin Fiber
      /\ UNCHANGED <<state, running, awaiting, data, stage, reply>>
      /\ \/ op' = [op EXCEPT ![Reader] = "read"] /\ result' = [result EXCEPT ![Reader] = "none"]
         \/ op' = [op EXCEPT ![Reader] = "user"] /\ result' = [result EXCEPT ![Reader] = "closed"]
  <2>1. CASE Reads
    BY <2>1, HeldIs DEF Reads, CallRead, Calls, Code, schedVars, serving
  <2>2. CASE ReadEnds(Reader) /\ UNCHANGED <<stage, reply>>
    <3>1. op[Reader] \in {"read", "woken"} /\ running = Reader
      BY <2>2 DEF ReadEnds, Reading, Code
    <3>2. result[Reader] = "none"
      BY <3>1, CallNames DEF Inv, CallInv, Positions
    <3> QED
      BY <2>2, <3>1, <3>2, CallNames DEF ReadEnds, Returns, schedVars
  <2> QED
    BY <2>1, <2>2
<1>2. result'[Reader] \in {"none", "closed"}
  BY <1>1, CallNames DEF Inv, PipeInv, TypeOK
<1>3. \A g \in Fiber : Held(g)' <=> Held(g)
  BY <1>1, <1>2, HeldIs, CallNames
<1>4. \A g \in Fiber : stage[g] # "sent"
  BY <1>1, ReaderNotSent
<1>5. stage[Reader] = "out"
  BY CallNames DEF Inv, CallInv, Positions
<1>6. Positions'
  BY <1>1, <1>3, <1>4, <1>5, CallNames DEF Inv, CallInv, CallTypeOK, Positions, PipeInv, TypeOK
<1>7. OwnEvent' /\ EventOutlivesClosure' /\ CallersAnswered'
  BY <1>1, <1>3 DEF Inv, CallInv, OwnEvent, EventOutlivesClosure, CallersAnswered
<1> QED
  BY <1>1, <1>2, <1>6, <1>7, CallNames DEF Inv, CallInv, CallTypeOK, OnePlace, HoldsValue

LEMMA ReadTakesKeepsCall ==
    ASSUME Inv, ReadTakes(Reader), UNCHANGED <<stage, reply>>
    PROVE  CallInv'
<1>1. /\ op[Reader] \in {"read", "woken"} /\ running = Reader /\ data \in Fiber
      /\ data' = "Empty"
      /\ op' = [op EXCEPT ![Reader] = "user"] /\ result' = [result EXCEPT ![Reader] = data]
      /\ awaiting' = [g \in Fiber |-> IF awaiting[g] = "write" THEN None ELSE awaiting[g]]
      /\ UNCHANGED <<stage, reply, running>>
  BY DEF ReadTakes, Reading, Code, HoldsValue, Returns, Fire, Wake, Waiters
<1>2. result[Reader] = "none" /\ result'[Reader] = data
  BY <1>1, CallNames DEF Inv, CallInv, Positions, PipeInv, TypeOK
<1>3. \A g \in Fiber : Held(g)' <=> Held(g)
  BY <1>1, <1>2, HeldIs, CallNames
<1>4. \A g \in Fiber : stage[g] # "sent"
  BY <1>1, ReaderNotSent
<1>5. stage[Reader] = "out"
  BY CallNames DEF Inv, CallInv, Positions
<1>6. Positions'
  BY <1>1, <1>3, <1>4, <1>5, CallNames DEF Inv, CallInv, CallTypeOK, Positions, PipeInv, TypeOK
<1>7. OwnEvent'
  BY <1>1, CallNames DEF Inv, CallInv, OwnEvent
<1>8. EventOutlivesClosure' /\ CallersAnswered'
  BY <1>1, <1>3, CallNames DEF Inv, CallInv, OwnEvent, EventOutlivesClosure, CallersAnswered
<1> QED
  BY <1>1, <1>6, <1>7, <1>8, CallNames DEF Inv, CallInv, CallTypeOK, OnePlace, HoldsValue

LEMMA AnswersKeepsCall ==
    ASSUME Inv, NEW r \in {"ok", "failed"}, Answers(r)
    PROVE  CallInv'
<1>1. PICK g \in Fiber :
         /\ result[Reader] = g
         /\ awaiting' = [f \in Fiber |-> IF awaiting[f] = g THEN None ELSE awaiting[f]]
         /\ reply' = [reply EXCEPT ![g] = r]
         /\ result' = [result EXCEPT ![Reader] = "none"]
         /\ Code(Reader, "user")
         /\ UNCHANGED <<op, data, stage, running>>
  BY AnswersEffect DEF Inv
<1>2. Held(g) /\ stage[g] \in {"sent", "waits"} /\ data # g
  BY <1>1, HeldIs DEF Inv, CallInv, EventOutlivesClosure, OnePlace, HoldsValue
<1>3. \A f \in Fiber : stage[f] # "sent"
  BY <1>1, ReaderNotSent DEF Code
<1>4. result'[Reader] = "none"
  BY <1>1, CallNames DEF Inv, PipeInv, TypeOK
<1>5. \A f \in Fiber : Held(f)' <=> Held(f) /\ f # g
  BY <1>1, <1>2, <1>4, HeldIs, CallNames
<1>6. CallTypeOK'
  BY <1>1 DEF Inv, CallInv, CallTypeOK
<1>7. Positions'
  BY <1>1, <1>2, <1>3 DEF Inv, CallInv, CallTypeOK, Positions, PipeInv, TypeOK
<1>8. OwnEvent'
  BY <1>1, CallNames DEF Inv, CallInv, OwnEvent
<1>9. EventOutlivesClosure'
  BY <1>1, <1>5 DEF Inv, CallInv, CallTypeOK, EventOutlivesClosure
<1>10. CallersAnswered'
  BY <1>1, <1>5, CallNames DEF Inv, CallInv, CallTypeOK, OwnEvent, CallersAnswered
<1> QED
  BY <1>1, <1>4, <1>6, <1>7, <1>8, <1>9, <1>10, CallNames DEF Inv, CallInv, OnePlace, HoldsValue

LEMMA DiscardsKeepsCall ==
    ASSUME Inv, Discards
    PROVE  CallInv'
<1>1. /\ awaiting' = [f \in Fiber |-> IF f \in Woken THEN None ELSE awaiting[f]]
      /\ data' = "Closed"
      /\ reply' = [f \in Fiber |-> IF data = f THEN "failed" ELSE reply[f]]
      /\ UNCHANGED <<op, result, stage, running>>
  BY DiscardsEffect DEF Inv
<1>2. \A f \in Fiber : stage[f] # "sent"
  BY AtLiberty DEF Discards
<1>3. \A f \in Fiber : Held(f)' <=> result[Reader] = f
  BY <1>1, HeldIs, CallNames
<1>4. \A f \in Fiber : f \in Woken <=> \/ awaiting[f] \in Fiber /\ data = awaiting[f]
                                       \/ awaiting[f] \in {"read", "write"}
  BY DEF Woken, Discarded, Both, Waiters
<1>5. \A f \in Fiber : data = f => result[Reader] # f /\ stage[f] \in {"sent", "waits"}
  BY HeldIs DEF Inv, CallInv, OnePlace, HoldsValue, EventOutlivesClosure
<1>6. CallTypeOK'
  BY <1>1 DEF Inv, CallInv, CallTypeOK
<1>7. Positions'
  BY <1>1, <1>2, <1>5 DEF Inv, CallInv, CallTypeOK, Positions
<1>8. OwnEvent'
  BY <1>1, CallNames DEF Inv, CallInv, OwnEvent
<1>9. EventOutlivesClosure'
  BY <1>1, <1>3, <1>5, HeldIs DEF Inv, CallInv, CallTypeOK, EventOutlivesClosure
<1>10. CallersAnswered'
  <2>1. ASSUME NEW f \in Fiber, awaiting'[f] = f PROVE Held(f)'
    <3>1. awaiting[f] = f /\ f \notin Woken
      BY <1>1, <2>1, CallNames
    <3>2. Held(f) /\ data # f
      BY <1>4, <3>1 DEF Inv, CallInv, CallersAnswered
    <3> QED
      BY <1>3, <3>2, HeldIs
  <2>2. ASSUME NEW f \in Fiber, stage'[f] = "waits", awaiting'[f] = None PROVE reply'[f] # "none"
    <3>1. CASE awaiting[f] = None
      BY <1>1, <2>2, <3>1 DEF Inv, CallInv, CallersAnswered
    <3>2. CASE awaiting[f] # None
      <4>1. awaiting[f] = f /\ f \in Woken
        BY <1>1, <2>2, <3>2 DEF Inv, CallInv, OwnEvent
      <4> QED
        BY <1>1, <1>4, <4>1, CallNames
    <3> QED
      BY <3>1, <3>2
  <2> QED
    BY <2>1, <2>2 DEF CallersAnswered
<1> QED
  BY <1>1, <1>6, <1>7, <1>8, <1>9, <1>10, CallNames DEF Inv, CallInv, OnePlace, HoldsValue

(* Suspending at the pipe, or for reasons of one's own, is no matter here.  *)
LEMMA ParksKeepsCall ==
    ASSUME Inv, NEW f \in Fiber, NEW k \in {"elsewhere", "read", "write"}, AwaitOn(f, k),
           running = f, stage[f] \in {"put", "out"}, UNCHANGED <<data, result, stage, reply>>,
           \/ UNCHANGED op
           \/ f = Reader /\ op[f] = "read" /\ op' = [op EXCEPT ![f] = "woken"]
    PROVE  CallInv'
<1>1. /\ awaiting' = [awaiting EXCEPT ![f] = k] /\ awaiting[f] = None
  BY RunsAwake DEF AwaitOn, Suspend
<1>2. \A g \in Fiber : stage[g] # "sent"
  BY OneSends
<1>3. Positions'
  BY <1>2, HeldIs DEF Inv, CallInv, CallTypeOK, Positions, PipeInv, TypeOK
<1>4. OwnEvent'
  BY <1>1, CallNames DEF Inv, CallInv, OwnEvent, PipeInv, TypeOK, ProgramTypeOK
<1>5. EventOutlivesClosure'
  BY HeldIs DEF Inv, CallInv, EventOutlivesClosure
<1>6. CallersAnswered'
  BY <1>1, HeldIs, CallNames DEF Inv, CallInv, CallersAnswered, PipeInv, TypeOK, ProgramTypeOK
<1> QED
  BY <1>3, <1>4, <1>5, <1>6 DEF Inv, CallInv, CallTypeOK, OnePlace, HoldsValue

LEMMA BesidesKeepsCall ==
    ASSUME Inv, NEW f \in Fiber, Besides(f)
    PROVE  CallInv'
<1>1. UNCHANGED <<op, data, result, stage, reply>>
  BY DEF Besides, Start, Sleep, Yield, Unwind, Finish
<1>2. CASE Sleep(f)
  <2>1. AwaitOn(f, "elsewhere") /\ running = f /\ op[f] = "user"
    BY <1>2 DEF Sleep, Code
  <2>2. Liberty
    BY <1>2, <2>1 DEF Besides, Unwind, Parked, AwaitOn, Suspend, Liberty, Start, Yield, OmniYield, Finish, Code
  <2>3. stage[f] = "out"
    BY <2>1, <2>2, FiberAssumption DEF Liberty
  <2> QED
    BY <1>1, <2>1, <2>3, ParksKeepsCall
<1>3. CASE ~Sleep(f)
  <2>1. UNCHANGED awaiting
    BY <1>3 DEF Besides, Start, Yield, Unwind, Finish
  <2>2. \A g \in Fiber : stage[g] # "sent"
    <3>1. CASE Liberty
      BY <3>1, AtLiberty
    <3>2. CASE Unwind(f)
      BY <3>2, OneSends DEF Unwind, Parked, Inv, CallInv, Positions, Code
    <3> QED
      BY <3>1, <3>2 DEF Besides
  <2> QED
    BY <1>1, <2>1, <2>2, StillKeepsCall
<1> QED
  BY <1>2, <1>3

LEMMA LoopKeepsCall ==
    ASSUME Inv, Loop \/ Comes
    PROVE  CallInv'
<1>1. UNCHANGED <<op, data, result, stage, reply>>
  BY DEF Loop, Resumes, Comes, Handler, Elsewhere
<1>2. \A g \in Fiber : stage[g] # "sent"
  <2>1. CASE Loop
    BY <2>1, FiberAssumption DEF Loop, Resumes, Run, RunReady, RunYielded, Inv, CallInv, Positions, Code
  <2>2. CASE Comes
    BY <2>2, AtLiberty DEF Comes
  <2> QED
    BY <2>1, <2>2
<1>3. /\ \A f \in Fiber : awaiting'[f] = awaiting[f] \/ {awaiting[f], awaiting'[f]} \cap Fiber = {}
      /\ \A f \in Fiber : stage[f] = "waits" => awaiting'[f] = awaiting[f]
  <2>1. CASE Loop
    BY <2>1 DEF Loop, Resumes
  <2>2. CASE Comes
    <3>1. awaiting' = [f \in Fiber |-> IF awaiting[f] = "elsewhere" THEN None ELSE awaiting[f]]
      BY <2>2 DEF Comes, Handler, Elsewhere, Fire, Wake, Waiters
    <3> QED
      BY <3>1, CallNames DEF Inv, CallInv, OwnEvent
  <2> QED
    BY <2>1, <2>2
<1> QED
  BY <1>1, <1>2, <1>3, StillKeepsCall

LEMMA CallStep == Inv /\ [CallNext]_callVars => Inv'
<1> SUFFICES ASSUME Inv, [CallNext]_callVars PROVE CallInv'
  BY CallStepKeepsPipe DEF Inv
<1>1. CASE UNCHANGED callVars
  BY <1>1, HeldIs
     DEF callVars, vars, progVars, schedVars, Inv, CallInv, CallTypeOK, Positions, OnePlace, HoldsValue,
         OwnEvent, EventOutlivesClosure, CallersAnswered, Code
<1>2. ASSUME NEW f \in Fiber, PutWaits(f) PROVE CallInv'
  <2>1. /\ AwaitOn(f, "write") /\ running = f /\ op[f] \in {"put", "shutdown"}
        /\ UNCHANGED <<op, data, result, stage, reply>>
    BY <1>2 DEF PutWaits, PutSuspends, Writing, Code
  <2>2. stage[f] \in {"put", "out"}
    BY <2>1 DEF Inv, CallInv, CallTypeOK, Positions, Code
  <2> QED
    BY <2>1, <2>2, ParksKeepsCall
<1>3. CASE ReadSuspends(Reader) /\ UNCHANGED <<stage, reply>>
  <2>1. /\ AwaitOn(Reader, "read") /\ running = Reader /\ op[Reader] = "read"
        /\ op' = [op EXCEPT ![Reader] = "woken"] /\ UNCHANGED <<data, result>>
    BY <1>3 DEF ReadSuspends, Code
  <2>2. stage[Reader] = "out"
    BY CallNames DEF Inv, CallInv, Positions
  <2> QED
    BY <1>3, <2>1, <2>2, ParksKeepsCall, CallNames
<1>4. CASE Reads \/ ReadStep
  BY <1>3, <1>4, ReadsKeepsCall, ReadTakesKeepsCall DEF ReadStep, ReaderStep
<1>5. CASE Completes \/ Drops
  BY <1>5, AnswersKeepsCall DEF Completes, Drops
<1>6. CASE Done
  BY <1>1, <1>6 DEF Done, Over, callVars
<1>7. CASE Serve
  <2>1. UNCHANGED <<op, data, result, stage, reply, awaiting>>
    BY <1>7 DEF Serve, vars, progVars
  <2>2. \A g \in Fiber : stage[g] # "sent"
    BY <1>7, ReaderNotSent DEF Serve, Code
  <2> QED
    BY <2>1, <2>2, StillKeepsCall
<1> QED
  BY <1>1, <1>2, <1>4, <1>5, <1>6, <1>7, CallKeepsCall, SendsKeepsCall, FailsKeepsCall, AwaitReplyKeepsCall,
     CallReturnsKeepsCall, DiscardsKeepsCall, BesidesKeepsCall, LoopKeepsCall
     DEF CallNext, CallerStep

LEMMA CallInitKeeps == CallInit => Inv
<1> SUFFICES ASSUME CallInit PROVE Inv
  OBVIOUS
<1>1. PipeInv
  BY PipeInit DEF CallInit
<1>2. \A f \in Fiber : stage[f] = "out" /\ reply[f] = "none" /\ op[f] = "user" /\ awaiting[f] = None
  BY DEF CallInit, Init, ProgramInit
<1>3. data = "Empty" /\ result[Reader] = "none"
  BY CallNames DEF CallInit, Init
<1>4. \A f \in Fiber : ~Held(f)
  BY <1>3, HeldIs, CallNames
<1> QED
  BY <1>1, <1>2, <1>3, <1>4, CallNames
     DEF CallInit, Inv, CallInv, CallTypeOK, Positions, OnePlace, HoldsValue, OwnEvent,
         EventOutlivesClosure, CallersAnswered

(* No closure outlives the Event and the guard's reply that it refers to. *)
THEOREM EventOutlivesClosureCorrect == CallSpec => []EventOutlivesClosure
BY CallInitKeeps, CallStep, PTL DEF CallSpec, Inv, CallInv

(* Nobody waits whose closure is gone, or wakes without an answer. *)
THEOREM CallersAnsweredCorrect == CallSpec => []CallersAnswered
BY CallInitKeeps, CallStep, PTL DEF CallSpec, Inv, CallInv

-----------------------------------------------------------------------------
(***************************************************************************
Every step of a remote call is a step of the service for one of its clients,
or leaves the phases and the answers of all of them alone.
***************************************************************************)
Client == Fiber \ {Reader}
Phases == [f \in Client |-> Phase(f)]
Replies == [f \in Client |-> reply[f]]

LEMMA PhaseIs ==
    ASSUME NEW f \in Fiber
    PROVE  /\ stage[f] \in {"out", "put"} => Phase(f) = stage[f]
           /\ stage[f] \notin {"out", "put"} =>
                Phase(f) = IF reply[f] # "none" THEN "answered"
                           ELSE IF result[Reader] = f THEN "served" ELSE "sent"
BY HeldIs DEF Phase

LEMMA PhaseIsNext ==
    ASSUME NEW f \in Fiber
    PROVE  /\ stage'[f] \in {"out", "put"} => Phase(f)' = stage'[f]
           /\ stage'[f] \notin {"out", "put"} =>
                Phase(f)' = IF reply'[f] # "none" THEN "answered"
                            ELSE IF result'[Reader] = f THEN "served" ELSE "sent"
BY HeldIs DEF Phase

LEMMA PhaseMoves ==
    ASSUME NEW f \in Client,
           \A g \in Client \ {f} : Phase(g)' = Phase(g) /\ reply'[g] = reply[g]
    PROVE  /\ Phases' = [Phases EXCEPT ![f] = Phase(f)']
           /\ Replies' = [Replies EXCEPT ![f] = reply'[f]]
           /\ Phases[f] = Phase(f) /\ Replies[f] = reply[f]
BY DEF Phases, Replies, Client

LEMMA PhaseStays ==
    ASSUME \A g \in Client : Phase(g)' = Phase(g) /\ reply'[g] = reply[g]
    PROVE  UNCHANGED AsService!vars
BY DEF Client, AsService!vars

(* A step moves one client along an arrow of the service. *)
LEMMA MoveMaps ==
    ASSUME NEW f \in Client,
           \A g \in Client \ {f} : Phase(g)' = Phase(g) /\ reply'[g] = reply[g],
           \/ Phase(f) = "out" /\ Phase(f)' = "put" /\ reply'[f] = "none"
           \/ Phase(f) = "put" /\ Phase(f)' = "out" /\ reply'[f] = "failed"
           \/ Phase(f) = "put" /\ Phase(f)' = "sent" /\ reply'[f] = reply[f]
           \/ /\ Phase(f) = "sent" /\ Phase(f)' = "served" /\ reply'[f] = reply[f]
              /\ \A g \in Client : Phase(g) # "served"
           \/ Phase(f) = "served" /\ Phase(f)' = "answered" /\ reply'[f] = "ok"
           \/ Phase(f) \in {"sent", "served"} /\ Phase(f)' = "answered" /\ reply'[f] = "failed"
           \/ Phase(f) = "answered" /\ Phase(f)' = "out" /\ reply'[f] = reply[f]
    PROVE  AsService!Next
<1>1. /\ Phases' = [Phases EXCEPT ![f] = Phase(f)']
      /\ Replies' = [Replies EXCEPT ![f] = reply'[f]]
      /\ Phases[f] = Phase(f) /\ Replies[f] = reply[f]
      /\ \A g \in Client : Phases[g] = Phase(g)
  BY PhaseMoves DEF Phases
<1>2. reply'[f] = reply[f] => Replies' = Replies
  BY <1>1 DEF Replies, Client
<1> USE DEF AsService!Next, AsService!Moves, AsService!Answers, Phases, Replies, Client
<1>3. CASE Phase(f) = "out" /\ Phase(f)' = "put" /\ reply'[f] = "none"
  BY <1>1, <1>3 DEF AsService!Begin
<1>4. CASE Phase(f) = "put" /\ Phase(f)' = "out" /\ reply'[f] = "failed"
  BY <1>1, <1>4 DEF AsService!Refuse
<1>5. CASE Phase(f) = "put" /\ Phase(f)' = "sent" /\ reply'[f] = reply[f]
  BY <1>1, <1>2, <1>5 DEF AsService!Send
<1>6. CASE /\ Phase(f) = "sent" /\ Phase(f)' = "served" /\ reply'[f] = reply[f]
           /\ \A g \in Client : Phase(g) # "served"
  BY <1>1, <1>2, <1>6 DEF AsService!Serve, AsService!TakeUp
<1>7. CASE Phase(f) = "served" /\ Phase(f)' = "answered" /\ reply'[f] = "ok"
  BY <1>1, <1>7 DEF AsService!Serve, AsService!Complete
<1>8. CASE Phase(f) \in {"sent", "served"} /\ Phase(f)' = "answered" /\ reply'[f] = "failed"
  BY <1>1, <1>8 DEF AsService!Serve, AsService!Drop
<1>9. CASE Phase(f) = "answered" /\ Phase(f)' = "out" /\ reply'[f] = reply[f]
  BY <1>1, <1>2, <1>9 DEF AsService!Serve, AsService!Return
<1> QED
  BY <1>3, <1>4, <1>5, <1>6, <1>7, <1>8, <1>9

(* Nothing that a phase is made of changes, but for a fiber that awaits.    *)
LEMMA StillMaps ==
    ASSUME Inv, UNCHANGED <<result, reply>>,
           \A g \in Fiber : \/ stage'[g] = stage[g]
                            \/ stage[g] = "sent" /\ stage'[g] = "waits"
    PROVE  UNCHANGED AsService!vars
BY PhaseIs, PhaseIsNext, PhaseStays DEF Client

(* The server's hand holds no closure before and after. *)
LEMMA IdleMaps ==
    ASSUME Inv, UNCHANGED <<stage, reply>>,
           result[Reader] \notin Fiber, result'[Reader] \notin Fiber
    PROVE  UNCHANGED AsService!vars
BY PhaseIs, PhaseIsNext, PhaseStays DEF Client

LEMMA CallerMaps ==
    ASSUME Inv, NEW f \in Fiber, Call(f) \/ Shutdown(f) \/ Sends(f) \/ Fails(f) \/ CallReturns(f)
    PROVE  [AsService!Next]_(AsService!vars)
<1>1. /\ stage \in [Fiber -> {"out", "put", "sent", "waits"}] /\ reply \in [Fiber -> {"none", "ok", "failed"}]
      /\ result \in [Fiber -> Fiber \cup {"none", "ok", "closed"}]
  BY DEF Inv, CallInv, CallTypeOK, PipeInv, TypeOK
<1>2. f # Reader
  <2>1. \/ Call(f) \/ Shutdown(f) => f # Reader
        \/ op[f] \in {"put", "shutdown"} \/ stage[f] = "waits"
    BY DEF Call, Shutdown, Sends, Fails, PutStores, PutRefused, Writing, Code, CallReturns
  <2>2. op[f] \in {"put", "shutdown"} \/ stage[f] = "waits" => f # Reader
    BY <1>1 DEF Inv, CallInv, Positions
  <2> QED
    BY <2>2
       DEF Call, Shutdown, Sends, Fails, PutStores, PutRefused, Writing, Code, CallReturns
<1>3. f \in Client
  BY <1>2 DEF Client
<1>4. ~Held(f) \/ CallReturns(f)
  BY DEF Inv, CallInv, EventOutlivesClosure, Positions, Call, Shutdown, Sends, Fails, PutStores,
         PutRefused, Writing, Code
<1>5. result'[Reader] = result[Reader]
  BY <1>1, <1>2, CallNames
     DEF Call, Shutdown, CallPut, CallShutdown, Calls, Sends, PutStores, Fails, PutRefused, Returns,
         CallReturns, vars
<1>6. ASSUME NEW t, NEW r \in {"none", "ok", "failed"},
             stage' = [stage EXCEPT ![f] = t], reply' = [reply EXCEPT ![f] = r]
      PROVE  \A g \in Client \ {f} : Phase(g)' = Phase(g) /\ reply'[g] = reply[g]
  BY <1>1, <1>5, <1>6, PhaseIs, PhaseIsNext DEF Client
<1>7. ASSUME UNCHANGED <<stage, reply>> PROVE UNCHANGED AsService!vars
  BY <1>5, <1>7, PhaseIs, PhaseIsNext, PhaseStays DEF Client
<1>8. reply = [reply EXCEPT ![f] = reply[f]]
  BY <1>1
<1>9. CASE Call(f)
  <2>1. /\ stage[f] = "out" /\ stage' = [stage EXCEPT ![f] = "put"]
        /\ reply' = [reply EXCEPT ![f] = "none"]
    BY <1>9 DEF Call, Goes, Fires
  <2>2. Phase(f) = "out" /\ Phase(f)' = "put" /\ reply'[f] = "none"
    BY <1>1, <2>1, PhaseIs, PhaseIsNext
  <2> QED
    BY <1>3, <1>6, <2>1, <2>2, MoveMaps
<1>10. CASE Shutdown(f)
  BY <1>7, <1>10 DEF Shutdown
<1>11. CASE Sends(f)
  <2>1. op[f] \in {"put", "shutdown"} /\ UNCHANGED reply
    BY <1>11 DEF Sends, PutStores, Writing, Code
  <2>2. CASE op[f] = "put"
    <3>1. stage[f] = "put" /\ reply[f] = "none" /\ stage' = [stage EXCEPT ![f] = "sent"]
      BY <1>11, <2>2 DEF Sends, Goes, Inv, CallInv, Positions
    <3>2. result[Reader] # f
      BY <3>1, HeldIs DEF Inv, CallInv, EventOutlivesClosure
    <3>3. Phase(f) = "put" /\ Phase(f)' = "sent" /\ reply'[f] = reply[f]
      BY <1>1, <1>5, <2>1, <3>1, <3>2, PhaseIs, PhaseIsNext
    <3> QED
      BY <1>1, <1>3, <1>6, <1>8, <2>1, <3>1, <3>3, MoveMaps
  <2>3. CASE op[f] # "put"
    BY <1>7, <1>11, <2>1, <2>3 DEF Sends
  <2> QED
    BY <2>2, <2>3
<1>12. CASE Fails(f)
  <2>1. CASE op[f] = "put"
    <3>1. /\ stage[f] = "put" /\ stage' = [stage EXCEPT ![f] = "out"]
          /\ reply' = [reply EXCEPT ![f] = "failed"]
      BY <1>12, <2>1 DEF Fails, Goes, Fires, Inv, CallInv, Positions
    <3>2. Phase(f) = "put" /\ Phase(f)' = "out" /\ reply'[f] = "failed"
      BY <1>1, <3>1, PhaseIs, PhaseIsNext
    <3> QED
      BY <1>3, <1>6, <3>1, <3>2, MoveMaps
  <2>2. CASE op[f] # "put"
    BY <1>7, <1>12, <2>2 DEF Fails
  <2> QED
    BY <2>1, <2>2
<1>13. CASE CallReturns(f)
  <2>1. /\ stage[f] = "waits" /\ reply[f] # "none" /\ stage' = [stage EXCEPT ![f] = "out"]
        /\ UNCHANGED reply
    BY <1>13 DEF CallReturns, Goes
  <2>2. Phase(f) = "answered" /\ Phase(f)' = "out" /\ reply'[f] = reply[f]
    BY <1>1, <2>1, PhaseIs, PhaseIsNext
  <2> QED
    BY <1>1, <1>3, <1>6, <1>8, <2>1, <2>2, MoveMaps
<1> QED
  BY <1>9, <1>10, <1>11, <1>12, <1>13

LEMMA ServerMaps ==
    ASSUME Inv, Reads \/ ReadStep \/ Completes \/ Drops
    PROVE  [AsService!Next]_(AsService!vars)
<1>1. /\ reply \in [Fiber -> {"none", "ok", "failed"}] /\ stage \in [Fiber -> {"out", "put", "sent", "waits"}]
      /\ result \in [Fiber -> Fiber \cup {"none", "ok", "closed"}]
  BY DEF Inv, CallInv, CallTypeOK, PipeInv, TypeOK
<1>2. CASE Reads
  <2>1. result[Reader] \notin Fiber /\ result'[Reader] = "none" /\ UNCHANGED <<stage, reply>>
    BY <1>1, <1>2, CallNames DEF Reads, CallRead, Calls, serving
  <2> QED
    BY <2>1, CallNames, IdleMaps
<1>3. CASE ReadStep
  <2>1. op[Reader] \in {"read", "woken"} /\ UNCHANGED <<stage, reply>>
    BY <1>3 DEF ReadStep, ReaderStep, ReadSuspends, ReadTakes, ReadEnds, Reading, Code
  <2>2. result[Reader] = "none"
    BY <2>1, CallNames DEF Inv, CallInv, Positions
  <2>3. CASE ReadSuspends(Reader) \/ ReadEnds(Reader)
    <3>1. result'[Reader] \in {"none", "closed"}
      BY <1>1, <2>2, <2>3, CallNames DEF ReadSuspends, ReadEnds, Returns
    <3> QED
      BY <2>1, <2>2, <3>1, CallNames, IdleMaps
  <2>4. CASE ReadTakes(Reader)
    <3>1. PICK g \in Fiber : data = g /\ result'[Reader] = g
      BY <1>1, <2>4, CallNames DEF ReadTakes, HoldsValue, Returns
    <3>2. stage[g] \in {"sent", "waits"} /\ reply[g] = "none" /\ g # Reader
      BY <3>1, HeldIs DEF Inv, CallInv, EventOutlivesClosure, Positions
    <3>3. g \in Client
      BY <3>2 DEF Client
    <3>4. \A h \in Client \ {g} : Phase(h)' = Phase(h) /\ reply'[h] = reply[h]
      BY <2>1, <2>2, <3>1, PhaseIs, PhaseIsNext, CallNames DEF Client
    <3>5. Phase(g) = "sent" /\ Phase(g)' = "served" /\ reply'[g] = reply[g]
      BY <2>1, <2>2, <3>1, <3>2, PhaseIs, PhaseIsNext, CallNames
    <3>6. \A h \in Client : Phase(h) # "served"
      BY <1>1, <2>2, PhaseIs, CallNames DEF Client
    <3> QED
      BY <3>3, <3>4, <3>5, <3>6, MoveMaps
  <2> QED
    BY <1>3, <2>3, <2>4 DEF ReadStep, ReaderStep
<1>4. ASSUME NEW r \in {"ok", "failed"}, Answers(r) PROVE AsService!Next
  <2>1. PICK g \in Fiber :
           /\ result[Reader] = g
           /\ reply' = [reply EXCEPT ![g] = r]
           /\ result' = [result EXCEPT ![Reader] = "none"]
           /\ UNCHANGED stage
    BY <1>4, AnswersEffect DEF Inv
  <2>2. stage[g] \in {"sent", "waits"} /\ reply[g] = "none" /\ g # Reader
    BY <2>1, HeldIs DEF Inv, CallInv, EventOutlivesClosure, Positions
  <2>3. g \in Client
    BY <2>2 DEF Client
  <2>4. result'[Reader] = "none"
    BY <1>1, <2>1, CallNames
  <2>5. \A h \in Client \ {g} : Phase(h)' = Phase(h) /\ reply'[h] = reply[h]
    BY <1>1, <2>1, <2>4, PhaseIs, PhaseIsNext, CallNames DEF Client
  <2>6. Phase(g) = "served" /\ Phase(g)' = "answered" /\ reply'[g] = r
    BY <1>1, <2>1, <2>2, PhaseIs, PhaseIsNext
  <2> QED
    BY <2>3, <2>5, <2>6, MoveMaps
<1> QED
  BY <1>2, <1>3, <1>4 DEF Completes, Drops

LEMMA DiscardsMaps ==
    ASSUME Inv, Discards
    PROVE  [AsService!Next]_(AsService!vars)
<1>1. /\ reply' = [f \in Fiber |-> IF data = f THEN "failed" ELSE reply[f]]
      /\ UNCHANGED <<result, stage>>
  BY DiscardsEffect DEF Inv
<1>2. CASE data \notin Fiber
  <2>1. \A g \in Client : Phase(g)' = Phase(g) /\ reply'[g] = reply[g]
    BY <1>1, <1>2, PhaseIs, PhaseIsNext DEF Client
  <2> QED
    BY <2>1, PhaseStays
<1>3. CASE data \in Fiber
  <2>1. PICK g \in Fiber : data = g
    BY <1>3
  <2>2. stage[g] \in {"sent", "waits"} /\ reply[g] = "none" /\ g # Reader /\ result[Reader] # g
    BY <2>1, HeldIs DEF Inv, CallInv, EventOutlivesClosure, Positions, OnePlace, HoldsValue
  <2>3. g \in Client
    BY <2>2 DEF Client
  <2>4. \A h \in Client \ {g} : Phase(h)' = Phase(h) /\ reply'[h] = reply[h]
    BY <1>1, <2>1, PhaseIs, PhaseIsNext DEF Client
  <2>5. Phase(g) = "sent" /\ Phase(g)' = "answered" /\ reply'[g] = "failed"
    BY <1>1, <2>1, <2>2, PhaseIs, PhaseIsNext
  <2> QED
    BY <2>3, <2>4, <2>5, MoveMaps
<1> QED
  BY <1>2, <1>3

LEMMA CallStepMaps == Inv /\ [CallNext]_callVars => [AsService!Next]_(AsService!vars)
<1> SUFFICES ASSUME Inv, [CallNext]_callVars PROVE [AsService!Next]_(AsService!vars)
  OBVIOUS
<1>1. ASSUME NEW f \in Fiber, PutWaits(f) \/ Besides(f) PROVE UNCHANGED <<result, reply, stage>>
  BY <1>1 DEF PutWaits, PutSuspends, Besides
<1>2. ASSUME NEW f \in Fiber, AwaitReply(f) PROVE UNCHANGED AsService!vars
  <2>1. /\ UNCHANGED <<result, reply>> /\ stage[f] = "sent" /\ stage' = [stage EXCEPT ![f] = "waits"]
    BY <1>2 DEF AwaitReply, Goes
  <2> QED
    BY <2>1, StillMaps DEF Inv, CallInv, CallTypeOK
<1>3. Loop \/ Comes \/ Done \/ Serve \/ UNCHANGED callVars => UNCHANGED <<result, reply, stage>>
  BY DEF Loop, Resumes, Comes, Handler, Done, Over, Serve, callVars, vars
<1>4. UNCHANGED <<result, reply, stage>> => UNCHANGED AsService!vars
  BY StillMaps
<1> QED
  BY <1>1, <1>2, <1>3, <1>4, CallerMaps, ServerMaps, DiscardsMaps DEF CallNext, CallerStep

LEMMA CallInitMaps == CallInit => AsService!Init
BY HeldIs DEF CallInit, Phase, AsService!Init

(* A remote call is a call of the service: each request that is sent is     *)
(* taken up at most once and answered once, "ok" only if its function ran.  *)
THEOREM CallIsService == CallSpec => AsService!Spec
<1>1. CallSpec => []Inv
  BY CallInitKeeps, CallStep, PTL DEF CallSpec
<1> QED
  BY <1>1, CallInitMaps, CallStepMaps, PTL DEF CallSpec, AsService!Spec

=============================================================================
