--------------------------- MODULE ProgramProofs ---------------------------
(***************************************************************************
What each operator of Program does to the states of the fibers, and that it
keeps the scheduler's invariant: facts for the module of any primitive.
***************************************************************************)
EXTENDS Program, SchedulerProofs

LEMMA ScheduledKeeps ==
    ASSUME SchedInv, NEW fs \in SUBSET Fiber, Schedule(state, fs),
           UNCHANGED <<continuation, yieldQueue, running>>
    PROVE  /\ SchedInv'
           /\ state' = [f \in Fiber |-> IF f \in fs /\ state[f] = "Suspended" THEN "Ready" ELSE state[f]]
<1>1. SchedTypeOK /\ StackOK
  BY DEF SchedInv
<1>2. state \in [Fiber -> State]
  BY <1>1 DEF SchedTypeOK
<1>3. StackFor(state, continuation', running')
  BY <1>1 DEF StackOK, StackFor
<1>4. continuation' \in SUBSET Fiber /\ running' \in Fiber \cup {None}
  BY <1>1 DEF SchedTypeOK
<1>5. SchedInv'
  BY <1>2, <1>3, <1>4, ScheduleKeeps
<1> QED
  BY <1>5 DEF Schedule, Sleeping

LEMMA FireKeeps ==
    ASSUME SchedInv, NEW k, Fire(k)
    PROVE  /\ SchedInv'
           /\ state' = [f \in Fiber |-> IF awaiting[f] = k /\ state[f] = "Suspended"
                                           THEN "Ready" ELSE state[f]]
<1>1. Waiters(k) \in SUBSET Fiber
  BY DEF Waiters
<1> QED
  BY <1>1, ScheduledKeeps DEF Fire, Wake, Waiters

LEMMA StartKeeps ==
    ASSUME SchedInv, NEW c \in Fiber, Start(c)
    PROVE  SchedInv' /\ state[c] = "Absent" /\ state' = [state EXCEPT ![c] = "Ready"]
<1> DEFINE st == [state EXCEPT ![c] = "Suspended"]
<1>1. SchedTypeOK /\ StackOK /\ state[c] = "Absent"
  BY DEF SchedInv, Start
<1>2. st \in [Fiber -> State] /\ {c} \in SUBSET Fiber
  BY <1>1 DEF SchedTypeOK, State
<1>3. ReadyIn(st) = ReadyIn(state) /\ YieldIn(st) = YieldIn(state)
  BY <1>1 DEF ReadyIn, YieldIn, SchedTypeOK
<1>4. continuation' \in SUBSET Fiber /\ running' \in Fiber \cup {None} /\ yieldQueue' = yieldQueue
  BY <1>1 DEF Start, SchedTypeOK
<1>5. StackFor(st, continuation', running')
  BY <1>1 DEF Start, StackOK, StackFor, SchedTypeOK
<1>6. Schedule(st, {c})
  BY DEF Start
<1>7. SchedInv'
  BY <1>2, <1>3, <1>4, <1>5, <1>6, ScheduleKeeps
<1> QED
  BY <1>1, <1>6, <1>7 DEF Schedule, Sleeping, SchedTypeOK

LEMMA RunKeeps ==
    ASSUME SchedInv, Run
    PROVE  /\ SchedInv'
           /\ running = None /\ running' \in Fiber
           /\ state[running'] \in {"Ready", "Yielded"}
           /\ state' = [state EXCEPT ![running'] = "Running"]
<1>1. SchedInv' /\ running' \in Fiber
  BY RunReadyKeeps, RunYieldedKeeps DEF Run
<1> QED
  BY <1>1 DEF Run, RunReady, RunYielded, Resume

LEMMA FinishKeeps ==
    ASSUME SchedInv, NEW f \in Fiber, Finish(f)
    PROVE  SchedInv' /\ state' = [state EXCEPT ![f] = "Finished"]
<1>1. SchedTypeOK /\ StackOK /\ state[f] = "Running" /\ running = f
  BY DEF SchedInv, Finish, Code
<1>2. state' \in [Fiber -> State] /\ continuation' \in SUBSET Fiber /\ running' \in Fiber \cup {None}
  BY <1>1 DEF Finish, SchedTypeOK, State
<1>3. ReadyIn(state') = ReadyIn(state) /\ YieldIn(state') = YieldIn(state)
  BY <1>1 DEF Finish, ReadyIn, YieldIn, SchedTypeOK
<1>4. StackFor(state', continuation', running')
  BY <1>1, FiberAssumption DEF Finish, StackFor, StackOK, SchedTypeOK
<1> QED
  BY <1>2, <1>3, <1>4, RelabelKeeps DEF Finish

LEMMA ProgramKeepsSched ==
    ASSUME SchedInv, NEW f \in Fiber, OwnBusiness(f) \/ Finish(f)
    PROVE  SchedInv'
BY StartKeeps, FinishKeeps, SuspendKeeps, YieldKeeps, ParkedKeeps
   DEF OwnBusiness, Sleep, AwaitOn, Yield, Unwind, OmniYield, Parked

LEMMA ProgramKeepsType ==
    ASSUME ProgramTypeOK, SchedInv', NEW f \in Fiber, OwnBusiness(f) \/ Finish(f)
    PROVE  ProgramTypeOK'
BY ProgramAssumption
   DEF ProgramTypeOK, SchedInv, OwnBusiness, Start, Sleep, AwaitOn, Yield, Unwind, Finish

(* The waiting fibers stay asleep until they are fired. *)
LEMMA FireKeepsWaiters ==
    ASSUME SchedInv, WaitersAsleep, NEW k, Fire(k)
    PROVE  WaitersAsleep'
BY FireKeeps DEF WaitersAsleep, Fire, Wake, Waiters

LEMMA RunKeepsWaiters ==
    ASSUME SchedInv, WaitersAsleep, Run, UNCHANGED awaiting
    PROVE  WaitersAsleep'
BY RunKeeps DEF WaitersAsleep, SchedInv, SchedTypeOK

LEMMA AwaitOnKeepsWaiters ==
    ASSUME SchedInv, WaitersAsleep, NEW f \in Fiber, NEW k, AwaitOn(f, k)
    PROVE  WaitersAsleep'
BY DEF WaitersAsleep, AwaitOn, Suspend, SchedInv, SchedTypeOK

LEMMA ProgramKeepsWaiters ==
    ASSUME SchedInv, WaitersAsleep, NEW f \in Fiber, OwnBusiness(f) \/ Finish(f)
    PROVE  WaitersAsleep'
<1>1. state \in [Fiber -> State]
  BY DEF SchedInv, SchedTypeOK
<1>2. CASE Start(f)
  BY <1>1, <1>2, StartKeeps DEF WaitersAsleep, Start
<1>3. CASE Sleep(f)
  BY <1>3, AwaitOnKeepsWaiters DEF Sleep
<1>4. CASE Yield(f) \/ Unwind(f) \/ Finish(f)
  BY <1>1, <1>4 DEF WaitersAsleep, Yield, OmniYield, Unwind, Parked, Finish, Code
<1> QED
  BY <1>2, <1>3, <1>4 DEF OwnBusiness

LEMMA ProgramInitKeeps == ProgramInit => SchedInv /\ ProgramTypeOK
<1> SUFFICES ASSUME ProgramInit PROVE SchedInv /\ ProgramTypeOK
  OBVIOUS
<1>1. SchedTypeOK
  BY EmptySeq DEF ProgramInit, SchedTypeOK, State
<1>2. QueueOK
  BY DEF ProgramInit, QueueOK, NoRepeats, Members
<1>3. StackOK
  BY FiberAssumption DEF ProgramInit, StackOK
<1> QED
  BY <1>1, <1>2, <1>3 DEF SchedInv, ProgramInit, ProgramTypeOK

=============================================================================
