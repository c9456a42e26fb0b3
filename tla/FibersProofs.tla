---------------------------- MODULE FibersProofs ----------------------------
(***************************************************************************
Theorems about Fibers, for every set of addresses, every set of sources and
every program.
***************************************************************************)
EXTENDS Fibers, SchedulerProofs

-----------------------------------------------------------------------------
(***************************************************************************
Types.  The steps whose new values are worth a look are those that schedule
fibers, that shorten a queue and that count Runners.
***************************************************************************)
LEMMA PostType ==
    ASSUME TypeOK, NEW pushed \in BOOLEAN, Post(pushed)
    PROVE  posted' \in BOOLEAN /\ executing' \in BOOLEAN /\ looping' \in BOOLEAN /\ runners' \in Nat
BY DEF TypeOK, Post

LEMMA AwaiterType ==
    /\ NoAwaiter \in Pending
    /\ \A w \in Pending, keys \in SUBSET Key :
          /\ [k \in Key |-> IF k \in keys THEN "Waiting" ELSE w[k]] \in Pending
          /\ [k \in Key |-> IF k \in keys THEN w[k] ELSE "none"] \in Pending
    /\ \A w \in Pending, k \in Key : [w EXCEPT ![k] = "Notified"] \in Pending
BY DEF NoAwaiter, Pending

LEMMA FireType ==
    ASSUME TypeOK, NEW st \in [Fiber -> State], NEW k \in Key, NEW fs \in SUBSET Fiber,
           Fire(st, k, fs)
    PROVE  /\ state' \in [Fiber -> State] /\ readyQueue' \in Seq(Fiber)
           /\ pending' \in [Fiber -> Pending]
           /\ posted' \in BOOLEAN /\ executing' \in BOOLEAN /\ looping' \in BOOLEAN
           /\ runners' \in Nat
<1>1. state' \in [Fiber -> State] /\ readyQueue' \in Seq(Fiber)
  BY ScheduleType DEF Fire, TypeOK, SchedTypeOK
<1>2. pending' \in [Fiber -> Pending]
  BY AwaiterType DEF Fire, TypeOK
<1>3. (Sleeping(st, fs) # {}) \in BOOLEAN
  OBVIOUS
<1> QED
  BY <1>1, <1>2, <1>3, PostType DEF Fire

LEMMA ParkType ==
    ASSUME TypeOK, NEW f \in Fiber, NEW keys \in SUBSET Key, SuspendOn(f, keys),
           UNCHANGED <<op, target>>
    PROVE  TypeOK'
<1>1. pending' \in [Fiber -> Pending]
  <2>1. pending \in [Fiber -> Pending] /\ pending[f] \in Pending
    BY DEF TypeOK
  <2>2. [k \in Key |-> IF k \in keys THEN "Waiting" ELSE pending[f][k]] \in Pending
    BY <2>1, AwaiterType
  <2> QED
    BY <2>1, <2>2 DEF SuspendOn
<1> QED
  BY <1>1 DEF SuspendOn, Suspend, TypeOK, SchedTypeOK, State, treeVars, runVars

LEMMA TakeType ==
    ASSUME TypeOK, NEW f \in Fiber, NEW c \in Fiber, NEW then \in Op, Take(f, c, then)
    PROVE  TypeOK'
BY DEF Take, TypeOK, SchedTypeOK, Op, schedVars, runVars

LEMMA CallType ==
    ASSUME TypeOK, NEW f \in Fiber, NEW o \in Op, NEW c \in Fiber \cup {None}, Call(f, o, c)
    PROVE  TypeOK'
BY DEF Call, TypeOK, SchedTypeOK, schedVars, treeVars, runVars

LEMMA FailType ==
    ASSUME TypeOK, NEW assertion \in Assertion, Fail(assertion)
    PROVE  TypeOK'
BY DEF Fail, TypeOK, SchedTypeOK, schedVars, treeVars, codeVars, runVars

LEMMA FinishingType ==
    ASSUME TypeOK, NEW f \in Fiber, NEW exceptions \in SUBSET Fiber, Finishing(f, exceptions)
    PROVE  TypeOK'
<1>1. CASE Unjoined(f) = {}
  <2>1. pending' \in [Fiber -> Pending]
    BY <1>1, AwaiterType DEF Finishing, TypeOK
  <2> QED
    BY <1>1, <2>1 DEF Finishing, TypeOK, SchedTypeOK, State, Op, runVars
<1>2. CASE Unjoined(f) # {}
  BY <1>2, FailType DEF Finishing, Assertion
<1> QED
  BY <1>1, <1>2

LEMMA UserStepType ==
    ASSUME TypeOK, NEW f \in Fiber, UserStep(f)
    PROVE  TypeOK'
<1>1. ASSUME NEW c \in Fiber, Spawn(f, c)
      PROVE  TypeOK'
  <2>1. [state EXCEPT ![c] = "Suspended"] \in [Fiber -> State]
    BY DEF TypeOK, SchedTypeOK, State
  <2>2. state' \in [Fiber -> State] /\ readyQueue' \in Seq(Fiber)
    <3>1. {c} \in SUBSET Fiber /\ readyQueue \in Seq(Fiber)
      BY DEF TypeOK, SchedTypeOK
    <3>2. Schedule([state EXCEPT ![c] = "Suspended"], {c})
      BY <1>1 DEF Spawn
    <3> QED
      BY <2>1, <3>1, <3>2, ScheduleType
  <2>3. posted' \in BOOLEAN /\ executing' \in BOOLEAN /\ looping' \in BOOLEAN /\ runners' \in Nat
    BY <1>1, PostType DEF Spawn
  <2> QED
    BY <1>1, <2>2, <2>3 DEF Spawn, TypeOK, SchedTypeOK, codeVars
<1>2. ASSUME NEW c \in Fiber, TryJoin(f, c)
      PROVE  TypeOK'
  BY <1>2, TakeType, FailType DEF TryJoin, Op, Assertion
<1>3. ASSUME NEW c \in Fiber, CallJoin(f, c)
      PROVE  TypeOK'
  BY <1>3, CallType DEF CallJoin, Op
<1>4. ASSUME NEW keys \in (SUBSET Key) \ {{}}, Await(f, keys)
      PROVE  TypeOK'
  BY <1>4, ParkType DEF Await
<1>5. CASE Yield(f)
  <2>1. posted' \in BOOLEAN /\ executing' \in BOOLEAN /\ looping' \in BOOLEAN /\ runners' \in Nat
    BY <1>5, PostType DEF Yield
  <2>2. yieldQueue' \in Seq(Fiber)
    BY <1>5, AppendProperties DEF Yield, OmniYield, TypeOK, SchedTypeOK
  <2> QED
    BY <1>5, <2>1, <2>2 DEF Yield, OmniYield, TypeOK, SchedTypeOK, State, treeVars, codeVars
<1>6. CASE TryWait(f)
  BY <1>6, TakeType DEF TryWait, TakeFirst, TypeOK, Op
<1>7. CASE CallWaitFor(f)
  BY <1>7, CallType, FailType DEF CallWaitFor, Op, Assertion
<1>8. CASE CallWaitAll(f) \/ Raise(f) \/ Catch(f)
  BY <1>8, CallType DEF CallWaitAll, Raise, Catch, Op
<1>9. CASE Unhandled(f)
  <2>1. exception \cup {f} \in SUBSET Fiber
    BY DEF TypeOK
  <2>2. CASE children[f] = {}
    <3>1. Finishing(f, exception \cup {f})
      BY <1>9, <2>2 DEF Unhandled
    <3> QED
      BY <2>1, <3>1, FinishingType
  <2>3. CASE children[f] # {}
    <3>1. Fail("SetException")
      BY <1>9, <2>3 DEF Unhandled
    <3> QED
      BY <3>1, FailType DEF Assertion
  <2> QED
    BY <2>2, <2>3
<1>10. CASE Return(f)
  <2>1. exception \in SUBSET Fiber
    BY DEF TypeOK
  <2> QED
    BY <1>10, <2>1, FinishingType DEF Return
<1>11. CASE SpawnFails(f)
  BY <1>11, FailType DEF SpawnFails, Assertion
<1> QED
  BY <1>1, <1>2, <1>3, <1>4, <1>5, <1>6, <1>7, <1>8, <1>9, <1>10, <1>11 DEF UserStep

LEMMA LibraryStepType ==
    ASSUME TypeOK, NEW f \in Fiber, LibraryStep(f)
    PROVE  TypeOK'
<1>1. CASE JoinTakes(f)
  BY <1>1, TakeType DEF JoinTakes, TypeOK, Op
<1>2. CASE JoinSuspends(f) \/ WaitSuspends(f)
  <2>1. {ChildDone} \in SUBSET Key
    BY DEF Key
  <2> QED
    BY <1>2, <2>1, ParkType DEF JoinSuspends, WaitSuspends
<1>3. CASE WaitForTakes(f) \/ WaitAllTakes(f)
  BY <1>3, TakeType DEF WaitForTakes, WaitAllTakes, TakeFirst, TypeOK, Op
<1>4. CASE WaitAllReturns(f)
  BY <1>4, CallType DEF WaitAllReturns, Op
<1>5. CASE ResumeParks(f)
  BY <1>5 DEF ResumeParks, Parked, TypeOK, SchedTypeOK, State, treeVars, codeVars, runVars
<1>6. CASE RootFinishes(f)
  BY <1>6 DEF RootFinishes, Over, TypeOK, SchedTypeOK, State, treeVars, codeVars, runVars
<1>7. CASE ChildFinishes(f)
  <2>1. PICK p \in Fiber : OnChildFinished(f, p)
    BY <1>7 DEF ChildFinishes
  <2>2. CASE \E assertion \in Assertion : Fail(assertion)
    BY <2>2, FailType
  <2>3. ASSUME Fire(Over(f), ChildDone, {p} \cap Waiters(ChildDone)),
               children' = [children EXCEPT ![p] = @ \ {f}],
               finished' = [finished EXCEPT ![p] = @ \cup {f}],
               running' = None,
               UNCHANGED <<continuation, yieldQueue, exception, parent, op, target, failed>>
        PROVE  TypeOK'
    <3>1. Over(f) \in [Fiber -> State]
      BY DEF Over, TypeOK, SchedTypeOK, State
    <3>2. ChildDone \in Key /\ {p} \cap Waiters(ChildDone) \in SUBSET Fiber
      BY DEF Key
    <3>3. /\ state' \in [Fiber -> State] /\ readyQueue' \in Seq(Fiber)
          /\ pending' \in [Fiber -> Pending]
          /\ posted' \in BOOLEAN /\ executing' \in BOOLEAN /\ looping' \in BOOLEAN
          /\ runners' \in Nat
      BY <2>3, <3>1, <3>2, FireType
    <3> QED
      BY <2>3, <3>3 DEF TypeOK, SchedTypeOK
  <2> QED
    BY <2>1, <2>2, <2>3 DEF OnChildFinished, MovesChild, Assertion
<1> QED
  BY <1>1, <1>2, <1>3, <1>4, <1>5, <1>6, <1>7 DEF LibraryStep

LEMMA FireSourceType ==
    ASSUME TypeOK, NEW k \in Source, FireSource(k)
    PROVE  TypeOK'
<1>1. CASE Schedulable(state, Waiters(k))
  <2>1. k \in Key /\ Waiters(k) \in SUBSET Fiber /\ state \in [Fiber -> State]
    BY DEF Key, Waiters, TypeOK, SchedTypeOK
  <2>2. Fire(state, k, Waiters(k))
    BY <1>1 DEF FireSource
  <2>3. /\ state' \in [Fiber -> State] /\ readyQueue' \in Seq(Fiber)
        /\ pending' \in [Fiber -> Pending]
        /\ posted' \in BOOLEAN /\ executing' \in BOOLEAN /\ looping' \in BOOLEAN
        /\ runners' \in Nat
    BY <2>1, <2>2, FireType
  <2> QED
    BY <1>1, <2>3 DEF FireSource, TypeOK, SchedTypeOK, treeVars
<1>2. CASE ~Schedulable(state, Waiters(k))
  BY <1>2, FailType DEF FireSource, Assertion
<1> QED
  BY <1>1, <1>2

LEMMA ManagerStepType ==
    ASSUME TypeOK, OneRunner, SpawnRoot \/ RunnerStart \/ RunFiber \/ RunEnd
    PROVE  TypeOK'
<1>1. CASE SpawnRoot
  <2>1. /\ [state EXCEPT ![Root] = "Suspended"] \in [Fiber -> State]
        /\ {Root} \in SUBSET Fiber /\ readyQueue \in Seq(Fiber)
    BY FibersAssumption DEF TypeOK, SchedTypeOK, State
  <2>2. state' \in [Fiber -> State] /\ readyQueue' \in Seq(Fiber)
    BY <1>1, <2>1, ScheduleType DEF SpawnRoot
  <2>3. posted' \in BOOLEAN /\ executing' \in BOOLEAN /\ looping' \in BOOLEAN /\ runners' \in Nat
    BY <1>1, PostType DEF SpawnRoot
  <2> QED
    BY <1>1, <2>2, <2>3, FibersAssumption DEF SpawnRoot, TypeOK, SchedTypeOK, codeVars
<1>2. CASE RunnerStart
  BY <1>2 DEF RunnerStart, TypeOK, SchedTypeOK, schedVars, treeVars, codeVars
<1>3. CASE RunFiber
  <2>1. /\ running' \in Fiber
        /\ state' \in [Fiber -> State]
        /\ continuation' \in SUBSET Fiber
        /\ readyQueue' \in Seq(Fiber) /\ yieldQueue' \in Seq(Fiber)
    <3>1. readyQueue \in Seq(Fiber) /\ yieldQueue \in Seq(Fiber)
      BY DEF TypeOK, SchedTypeOK
    <3>2. CASE RunReady
      <4>1. Head(readyQueue) \in Fiber /\ Tail(readyQueue) \in Seq(Fiber)
        BY <3>1, <3>2, HeadTailProperties DEF RunReady
      <4> QED
        BY <3>1, <3>2, <4>1 DEF RunReady, Resume, TypeOK, SchedTypeOK, State
    <3>3. CASE RunYielded
      <4>1. Head(yieldQueue) \in Fiber /\ Tail(yieldQueue) \in Seq(Fiber)
        BY <3>1, <3>3, HeadTailProperties DEF RunYielded
      <4> QED
        BY <3>1, <3>3, <4>1 DEF RunYielded, Resume, TypeOK, SchedTypeOK, State
    <3> QED
      BY <1>3, <3>2, <3>3 DEF RunFiber
  <2>2. pending' \in [Fiber -> Pending]
    <3>1. Listed \subseteq Key
      BY FibersAssumption DEF Key
    <3>2. PICK left \in SUBSET Key :
             pending' = [pending EXCEPT ![running'] =
                            [k \in Key |-> IF k \in left THEN @[k] ELSE "none"]]
      BY <1>3, <3>1 DEF RunFiber
    <3>3. pending \in [Fiber -> Pending] /\ pending[running'] \in Pending
      BY <2>1 DEF TypeOK
    <3>4. [k \in Key |-> IF k \in left THEN pending[running'][k] ELSE "none"] \in Pending
      BY <3>3, AwaiterType
    <3> QED
      BY <3>2, <3>3, <3>4
  <2> QED
    BY <1>3, <2>1, <2>2 DEF RunFiber, TypeOK, SchedTypeOK, treeVars, runVars
<1>4. CASE RunEnd
  <2>1. runners = 1
    BY <1>4 DEF RunEnd, OneRunner
  <2>2. UNCHANGED <<schedVars, treeVars, codeVars, failed>> /\ runners' = runners - 1
    BY <1>4 DEF RunEnd
  <2>3. posted' \in BOOLEAN /\ executing' \in BOOLEAN /\ looping' \in BOOLEAN
    BY <1>4 DEF RunEnd, TypeOK
  <2> QED
    BY <2>1, <2>2, <2>3 DEF TypeOK, SchedTypeOK, schedVars, treeVars, codeVars
<1> QED
  BY <1>1, <1>2, <1>3, <1>4

LEMMA TypeStep == TypeOK /\ OneRunner /\ [Next]_vars => TypeOK'
<1> SUFFICES ASSUME TypeOK, OneRunner, [Next]_vars PROVE TypeOK'
  OBVIOUS
<1>1. ASSUME NEW c \in Fiber, Release(c) PROVE TypeOK'
  BY <1>1 DEF Release, TypeOK, SchedTypeOK, State, codeVars, runVars
<1>2. CASE UNCHANGED vars
  BY <1>2 DEF vars, TypeOK, SchedTypeOK, schedVars, treeVars, codeVars, runVars
<1> QED
  BY <1>1, <1>2, UserStepType, LibraryStepType, FireSourceType, ManagerStepType DEF Next, Idle

-----------------------------------------------------------------------------
(***************************************************************************
The Runner.  Posted counts the Runners: only Post makes one, and only the end
of Run destroys one.
***************************************************************************)
LEMMA PostKeepsRunner ==
    ASSUME OneRunner, posted \in BOOLEAN, NEW pushed \in BOOLEAN, Post(pushed),
           running' \in {running, None}
    PROVE  OneRunner'
BY DEF OneRunner, Post

LEMMA RunnerStep == TypeOK /\ OneRunner /\ [Next]_vars => OneRunner'
<1> SUFFICES ASSUME TypeOK, OneRunner, [Next]_vars PROVE OneRunner'
  OBVIOUS
<1> USE DEF OneRunner
<1>1. posted \in BOOLEAN
  BY DEF TypeOK
<1>2. ASSUME NEW assertion, Fail(assertion) PROVE OneRunner'
  BY <1>2 DEF Fail, schedVars, runVars
<1>3. ASSUME UNCHANGED runVars, running' \in {running, None} PROVE OneRunner'
  BY <1>3 DEF runVars
<1>4. ASSUME NEW st, NEW k, NEW fs, Fire(st, k, fs), running' \in {running, None}
      PROVE  OneRunner'
  BY <1>1, <1>4, PostKeepsRunner DEF Fire
<1>5. CASE SpawnRoot
  BY <1>1, <1>5, PostKeepsRunner DEF SpawnRoot
<1>6. CASE RunnerStart
  BY <1>6 DEF RunnerStart, schedVars
<1>7. CASE RunFiber
  BY <1>7 DEF RunFiber, runVars
<1>8. CASE RunEnd
  BY <1>8 DEF RunEnd, schedVars
<1>9. ASSUME NEW f \in Fiber, UserStep(f) PROVE OneRunner'
  <2>1. ASSUME NEW c \in Fiber, Spawn(f, c) PROVE OneRunner'
    BY <1>1, <2>1, PostKeepsRunner DEF Spawn
  <2>2. CASE Yield(f)
    BY <1>1, <2>2, PostKeepsRunner DEF Yield
  <2>3. ASSUME NEW c \in Fiber, TryJoin(f, c) \/ CallJoin(f, c) PROVE OneRunner'
    BY <1>2, <1>3, <2>3 DEF TryJoin, CallJoin, Take, Call, schedVars
  <2>4. ASSUME NEW keys, Await(f, keys) PROVE OneRunner'
    BY <1>3, <2>4 DEF Await, SuspendOn
  <2>5. CASE \/ TryWait(f) \/ CallWaitFor(f) \/ CallWaitAll(f) \/ Raise(f) \/ Catch(f)
              \/ SpawnFails(f)
    BY <1>2, <1>3, <2>5
       DEF SpawnFails, TryWait, TakeFirst, Take, CallWaitFor, CallWaitAll, Raise, Catch, Call, schedVars
  <2>6. CASE Unhandled(f) \/ Return(f)
    BY <1>2, <1>3, <2>6 DEF Unhandled, Return, Finishing
  <2> QED
    BY <1>9, <2>1, <2>2, <2>3, <2>4, <2>5, <2>6 DEF UserStep
<1>10. ASSUME NEW f \in Fiber, LibraryStep(f) PROVE OneRunner'
  <2>1. CASE ChildFinishes(f)
    BY <1>2, <1>4, <2>1 DEF ChildFinishes, OnChildFinished, MovesChild
  <2>2. CASE ~ChildFinishes(f)
    BY <1>3, <1>10, <2>2
       DEF LibraryStep, JoinTakes, JoinSuspends, WaitSuspends, WaitForTakes, WaitAllTakes,
           WaitAllReturns, ResumeParks, RootFinishes, TakeFirst, Take, SuspendOn, Call, Parked,
           schedVars
  <2> QED
    BY <2>1, <2>2
<1>11. ASSUME NEW c \in Fiber, Release(c) PROVE OneRunner'
  BY <1>3, <1>11 DEF Release
<1>12. ASSUME NEW k \in Source, FireSource(k) PROVE OneRunner'
  BY <1>2, <1>4, <1>12 DEF FireSource
<1>13. CASE UNCHANGED vars
  BY <1>3, <1>13 DEF vars, schedVars
<1> QED
  BY <1>5, <1>6, <1>7, <1>8, <1>9, <1>10, <1>11, <1>12, <1>13 DEF Next, Idle

LEMMA TypeAndRunnerInit == Init => TypeOK /\ OneRunner
<1> SUFFICES ASSUME Init PROVE TypeOK /\ OneRunner
  OBVIOUS
<1>1. pending \in [Fiber -> Pending]
  BY AwaiterType DEF Init
<1>2. readyQueue \in Seq(Fiber) /\ yieldQueue \in Seq(Fiber)
  BY EmptySeq DEF Init
<1>3. SchedTypeOK
  BY <1>2 DEF Init, SchedTypeOK, State
<1> QED
  BY <1>1, <1>3 DEF Init, TypeOK, OneRunner, Op

(* Every reachable state is well typed. *)
THEOREM TypeCorrect == Spec => []TypeOK
<1>1. TypeOK /\ OneRunner /\ [Next]_vars => TypeOK' /\ OneRunner'
  BY TypeStep, RunnerStep
<1> QED
  BY <1>1, TypeAndRunnerInit, PTL DEF Spec

(* There is never more than the one Runner that Posted stands for. *)
THEOREM OneRunnerCorrect == Spec => []OneRunner
<1>1. TypeOK /\ OneRunner /\ [Next]_vars => TypeOK' /\ OneRunner'
  BY TypeStep, RunnerStep
<1> QED
  BY <1>1, TypeAndRunnerInit, PTL DEF Spec

-----------------------------------------------------------------------------
(***************************************************************************
The queues and the stack.  Every step either schedules sleeping fibers, or
pops one fiber, or moves the running one between states no queue knows of.
***************************************************************************)
LEMMA SchedUnchanged ==
    ASSUME SchedInv, UNCHANGED schedVars
    PROVE  SchedInv'
BY DEF SchedInv, SchedTypeOK, QueueOK, StackOK, schedVars

LEMMA SpawnRootKeepsSched ==
    ASSUME TypeOK, SchedInv, SpawnRoot
    PROVE  SchedInv'
<1> DEFINE st == [state EXCEPT ![Root] = "Suspended"]
<1>1. SchedTypeOK /\ StackOK /\ Root \in Fiber /\ state[Root] \in {"Absent", "Finished"}
  BY FibersAssumption DEF SchedInv, SpawnRoot
<1>2. st \in [Fiber -> State] /\ {Root} \in SUBSET Fiber
  BY <1>1 DEF SchedTypeOK, State
<1>3. ReadyIn(st) = ReadyIn(state) /\ YieldIn(st) = YieldIn(state)
  BY <1>1 DEF ReadyIn, YieldIn, SchedTypeOK
<1>4. continuation' \in SUBSET Fiber /\ running' \in Fiber \cup {None} /\ yieldQueue' = yieldQueue
  BY <1>1 DEF SpawnRoot, SchedTypeOK
<1>5. StackFor(st, continuation', running')
  BY <1>1 DEF SpawnRoot, StackOK, StackFor, SchedTypeOK
<1>6. Schedule(st, {Root})
  BY DEF SpawnRoot
<1> QED
  BY <1>2, <1>3, <1>4, <1>5, <1>6, ScheduleKeeps

LEMMA SpawnKeepsSched ==
    ASSUME TypeOK, SchedInv, NEW f \in Fiber, NEW c \in Fiber, Spawn(f, c)
    PROVE  SchedInv'
<1> DEFINE st == [state EXCEPT ![c] = "Suspended"]
<1>1. SchedTypeOK /\ StackOK /\ state[c] = "Absent"
  BY DEF SchedInv, Spawn
<1>2. st \in [Fiber -> State] /\ {c} \in SUBSET Fiber
  BY <1>1 DEF SchedTypeOK, State
<1>3. ReadyIn(st) = ReadyIn(state) /\ YieldIn(st) = YieldIn(state)
  BY <1>1 DEF ReadyIn, YieldIn, SchedTypeOK
<1>4. continuation' \in SUBSET Fiber /\ running' \in Fiber \cup {None} /\ yieldQueue' = yieldQueue
  BY <1>1 DEF Spawn, SchedTypeOK
<1>5. StackFor(st, continuation', running')
  BY <1>1 DEF Spawn, StackOK, StackFor, SchedTypeOK
<1>6. Schedule(st, {c})
  BY DEF Spawn
<1> QED
  BY <1>2, <1>3, <1>4, <1>5, <1>6, ScheduleKeeps

LEMMA FireSourceKeepsSched ==
    ASSUME TypeOK, SchedInv, NEW k \in Source, FireSource(k)
    PROVE  SchedInv'
<1>1. SchedTypeOK /\ StackOK
  BY DEF SchedInv
<1>2. CASE Schedulable(state, Waiters(k))
  <2>1. state \in [Fiber -> State] /\ Waiters(k) \in SUBSET Fiber
    BY <1>1 DEF SchedTypeOK, Waiters
  <2>2. UNCHANGED <<continuation, yieldQueue, running>> /\ Schedule(state, Waiters(k))
    BY <1>2 DEF FireSource, Fire
  <2>3. StackFor(state, continuation', running')
    BY <1>1, <2>2 DEF StackOK, StackFor
  <2>4. continuation' \in SUBSET Fiber /\ running' \in Fiber \cup {None} /\ yieldQueue' = yieldQueue
    BY <1>1, <2>2 DEF SchedTypeOK
  <2> QED
    BY <2>1, <2>2, <2>3, <2>4, ScheduleKeeps
<1>3. CASE ~Schedulable(state, Waiters(k))
  BY <1>3, SchedUnchanged DEF FireSource, Fail
<1> QED
  BY <1>2, <1>3

LEMMA ChildFinishesKeepsSched ==
    ASSUME TypeOK, SchedInv, NEW f \in Fiber, ChildFinishes(f)
    PROVE  SchedInv'
<1>1. SchedTypeOK /\ StackOK /\ f = running /\ state[f] = "Finishing"
  BY DEF SchedInv, ChildFinishes
<1>2. PICK p \in Fiber : OnChildFinished(f, p)
  BY DEF ChildFinishes
<1>3. CASE UNCHANGED schedVars
  BY <1>3, SchedUnchanged
<1>4. CASE ~UNCHANGED schedVars
  <2> DEFINE fs == {p} \cap Waiters(ChildDone)
  <2>1. /\ Schedule(Over(f), fs)
        /\ running' = None
        /\ UNCHANGED <<continuation, yieldQueue>>
    BY <1>2, <1>4 DEF OnChildFinished, MovesChild, Fail, Fire
  <2>2. Over(f) \in [Fiber -> State] /\ fs \in SUBSET Fiber
    BY <1>1 DEF Over, SchedTypeOK, State
  <2>3. ReadyIn(Over(f)) = ReadyIn(state) /\ YieldIn(Over(f)) = YieldIn(state)
    BY <1>1 DEF Over, ReadyIn, YieldIn, SchedTypeOK
  <2>4. continuation' \in SUBSET Fiber /\ running' \in Fiber \cup {None} /\ yieldQueue' = yieldQueue
    BY <1>1, <2>1 DEF SchedTypeOK
  <2>5. StackFor(Over(f), continuation', running')
    BY <1>1, <2>1, FiberAssumption DEF Over, StackOK, StackFor, SchedTypeOK
  <2> QED
    BY <2>1, <2>2, <2>3, <2>4, <2>5, ScheduleKeeps
<1> QED
  BY <1>3, <1>4

(* Moving one fiber that is in no queue to another state outside them. *)
LEMMA RelabelOne ==
    ASSUME SchedInv, NEW f \in Fiber, NEW s \in State,
           state[f] \notin {"Ready", "Yielding", "Yielded"}, s \notin {"Ready", "Yielding", "Yielded"},
           state' = [state EXCEPT ![f] = s], UNCHANGED <<readyQueue, yieldQueue>>,
           continuation' \in SUBSET Fiber, running' \in Fiber \cup {None},
           StackFor(state', continuation', running')
    PROVE  SchedInv'
<1>1. state \in [Fiber -> State]
  BY DEF SchedInv, SchedTypeOK
<1>2. state' \in [Fiber -> State]
  BY <1>1
<1>3. ReadyIn(state') = ReadyIn(state) /\ YieldIn(state') = YieldIn(state)
  BY <1>1 DEF ReadyIn, YieldIn
<1> QED
  BY <1>2, <1>3, RelabelKeeps

LEMMA FinishingKeepsSched ==
    ASSUME TypeOK, SchedInv, NEW f \in Fiber, running = f, state[f] = "Running",
           NEW exceptions, Finishing(f, exceptions)
    PROVE  SchedInv'
<1>1. SchedTypeOK /\ StackOK
  BY DEF SchedInv
<1>2. CASE Unjoined(f) = {}
  <2>1. /\ state' = [state EXCEPT ![f] = "Finishing"]
        /\ UNCHANGED <<continuation, readyQueue, yieldQueue, running>>
    BY <1>2 DEF Finishing
  <2>2. StackFor(state', continuation', running')
    BY <1>1, <2>1 DEF StackOK, StackFor, SchedTypeOK
  <2>3. continuation' \in SUBSET Fiber /\ running' \in Fiber \cup {None} /\ "Finishing" \in State
    BY <1>1, <2>1 DEF SchedTypeOK, State
  <2> QED
    BY <2>1, <2>2, <2>3, RelabelOne
<1>3. CASE Unjoined(f) # {}
  BY <1>3, SchedUnchanged DEF Finishing, Fail
<1> QED
  BY <1>2, <1>3

LEMMA SchedStep == TypeOK /\ SchedInv /\ [Next]_vars => SchedInv'
<1> SUFFICES ASSUME TypeOK, SchedInv, [Next]_vars PROVE SchedInv'
  OBVIOUS
<1>1. SchedTypeOK /\ StackOK
  BY DEF SchedInv
<1>2. CASE UNCHANGED schedVars
  BY <1>2, SchedUnchanged
<1>3. CASE RunFiber
  BY <1>3, RunReadyKeeps, RunYieldedKeeps DEF RunFiber
<1>4. ASSUME NEW f \in Fiber, UserStep(f) PROVE SchedInv'
  <2>1. ASSUME NEW c \in Fiber, Spawn(f, c) PROVE SchedInv'
    BY <2>1, SpawnKeepsSched
  <2>2. ASSUME NEW keys, Await(f, keys) PROVE SchedInv'
    BY <2>2, SuspendKeeps DEF Await, SuspendOn
  <2>3. CASE Yield(f)
    BY <2>3, YieldKeeps DEF Yield
  <2>4. CASE Unhandled(f) \/ Return(f)
    <3>1. running = f /\ state[f] = "Running"
      BY <2>4 DEF Unhandled, Return, Runs
    <3> QED
      BY <2>4, <3>1, FinishingKeepsSched, SchedUnchanged DEF Unhandled, Return, Fail
  <2>5. ASSUME NEW c \in Fiber, TryJoin(f, c) \/ CallJoin(f, c) PROVE SchedInv'
    BY <2>5, SchedUnchanged DEF TryJoin, CallJoin, Take, Call, Fail
  <2>6. CASE \/ TryWait(f) \/ CallWaitFor(f) \/ CallWaitAll(f) \/ Raise(f) \/ Catch(f)
              \/ SpawnFails(f)
    BY <2>6, SchedUnchanged
       DEF SpawnFails, TryWait, TakeFirst, Take, CallWaitFor, CallWaitAll, Raise, Catch, Call, Fail
  <2> QED
    BY <1>4, <2>1, <2>2, <2>3, <2>4, <2>5, <2>6 DEF UserStep
<1>5. ASSUME NEW f \in Fiber, LibraryStep(f) PROVE SchedInv'
  <2>1. CASE JoinSuspends(f) \/ WaitSuspends(f)
    BY <2>1, SuspendKeeps DEF JoinSuspends, WaitSuspends, SuspendOn
  <2>2. CASE ResumeParks(f)
    BY <2>2, ParkedKeeps DEF ResumeParks
  <2>3. CASE ChildFinishes(f)
    BY <2>3, ChildFinishesKeepsSched
  <2>4. CASE RootFinishes(f)
    <3>1. /\ state[f] = "Finishing" /\ state' = [state EXCEPT ![f] = "Finished"]
          /\ running = f /\ running' = None
          /\ UNCHANGED <<continuation, readyQueue, yieldQueue>>
      BY <2>4 DEF RootFinishes, Over
    <3>2. StackFor(state', continuation', running')
      BY <1>1, <3>1, FiberAssumption DEF StackOK, StackFor, SchedTypeOK
    <3>3. continuation' \in SUBSET Fiber /\ running' \in Fiber \cup {None} /\ "Finished" \in State
      BY <1>1, <3>1 DEF SchedTypeOK, State
    <3> QED
      BY <3>1, <3>2, <3>3, RelabelOne
  <2>5. CASE JoinTakes(f) \/ WaitForTakes(f) \/ WaitAllTakes(f) \/ WaitAllReturns(f)
    BY <2>5, SchedUnchanged
       DEF JoinTakes, WaitForTakes, WaitAllTakes, WaitAllReturns, TakeFirst, Take, Call
  <2> QED
    BY <1>5, <2>1, <2>2, <2>3, <2>4, <2>5 DEF LibraryStep
<1>6. ASSUME NEW c \in Fiber, Release(c) PROVE SchedInv'
  <2>1. /\ state[c] = "Finished" /\ state' = [state EXCEPT ![c] = "Absent"]
        /\ UNCHANGED <<continuation, readyQueue, yieldQueue, running>>
    BY <1>6 DEF Release
  <2>2. StackFor(state', continuation', running')
    BY <1>1, <2>1 DEF StackOK, StackFor, SchedTypeOK
  <2>3. continuation' \in SUBSET Fiber /\ running' \in Fiber \cup {None} /\ "Absent" \in State
    BY <1>1, <2>1 DEF SchedTypeOK, State
  <2> QED
    BY <2>1, <2>2, <2>3, RelabelOne
<1>7. CASE RunnerStart \/ RunEnd \/ Idle \/ UNCHANGED vars
  BY <1>2, <1>7 DEF RunnerStart, RunEnd, Idle, vars
<1> QED
  BY <1>3, <1>4, <1>5, <1>6, <1>7, SpawnRootKeepsSched, FireSourceKeepsSched DEF Next

LEMMA SchedInit == Init => SchedInv
<1> SUFFICES ASSUME Init PROVE SchedInv
  OBVIOUS
<1>1. SchedTypeOK
  BY TypeAndRunnerInit DEF TypeOK
<1>2. QueueOK
  BY DEF Init, QueueOK, NoRepeats, Members
<1>3. StackOK
  BY FiberAssumption DEF Init, StackOK
<1> QED
  BY <1>1, <1>2, <1>3 DEF SchedInv

(* A fiber is in the ready queue exactly while it is Ready and in the yield *)
(* queue exactly while it yields, once.                                     *)
THEOREM QueuesCorrect == Spec => []QueueOK
<1>1. TypeOK /\ OneRunner /\ SchedInv /\ [Next]_vars => TypeOK' /\ OneRunner' /\ SchedInv'
  BY TypeStep, RunnerStep, SchedStep
<1>2. SchedInv => QueueOK
  BY DEF SchedInv
<1> QED
  BY <1>1, <1>2, TypeAndRunnerInit, SchedInit, PTL DEF Spec

(* One fiber is on the stack, and the others that can run are parked. *)
THEOREM StackCorrect == Spec => []StackOK
<1>1. TypeOK /\ OneRunner /\ SchedInv /\ [Next]_vars => TypeOK' /\ OneRunner' /\ SchedInv'
  BY TypeStep, RunnerStep, SchedStep
<1>2. SchedInv => StackOK
  BY DEF SchedInv
<1> QED
  BY <1>1, <1>2, TypeAndRunnerInit, SchedInit, PTL DEF Spec

-----------------------------------------------------------------------------
(***************************************************************************
The tree of fibers.  Of a fiber's state TreeOK sees only its phase: whether
it is absent, live, finishing or finished.  Most steps keep every phase and
every link of the tree; the lemmas treat the others one by one.
***************************************************************************)
Phase(s) == IF s \in {"Absent", "Finishing", "Finished"} THEN s ELSE "active"

PhaseOf(st) == [f \in Fiber |-> Phase(st[f])]

Links == <<parent, children, finished>>

LEMMA SchedulePhase ==
    ASSUME NEW st \in [Fiber -> State], NEW fs, Schedule(st, fs)
    PROVE  PhaseOf(state') = PhaseOf(st)
BY DEF Schedule, Sleeping, PhaseOf, Phase

LEMMA LivePhase ==
    \A f \in Fiber : /\ Live(f) <=> PhaseOf(state)[f] \in {"active", "Finishing"}
                     /\ state[f] = "Absent" <=> PhaseOf(state)[f] = "Absent"
                     /\ state[f] = "Finishing" <=> PhaseOf(state)[f] = "Finishing"
                     /\ state[f] = "Finished" <=> PhaseOf(state)[f] = "Finished"
BY DEF Live, PhaseOf, Phase

LEMMA SamePhaseKeepsTree ==
    ASSUME TypeOK, TreeOK, PhaseOf(state') = PhaseOf(state), UNCHANGED Links
    PROVE  TreeOK'
<1>1. \A f \in Fiber : /\ Live(f)' <=> Live(f)
                       /\ state'[f] = "Absent" <=> state[f] = "Absent"
                       /\ state'[f] = "Finishing" <=> state[f] = "Finishing"
                       /\ state'[f] = "Finished" <=> state[f] = "Finished"
  BY DEF Live, PhaseOf, Phase
<1> QED
  BY <1>1 DEF TreeOK, Unjoined, Links

LEMMA TakeKeepsTree ==
    ASSUME TypeOK, TreeOK, NEW f \in Fiber, NEW c \in Fiber, NEW then, Take(f, c, then),
           state[f] = "Running"
    PROVE  TreeOK'
<1>1. /\ UNCHANGED <<state, parent, children>>
      /\ finished' = [finished EXCEPT ![f] = @ \ {c}]
  BY DEF Take, schedVars
<1> QED
  BY <1>1 DEF TreeOK, Unjoined, Live, TypeOK

LEMMA SpawnRootKeepsTree ==
    ASSUME TypeOK, TreeOK, SpawnRoot
    PROVE  TreeOK'
<1> DEFINE st == [state EXCEPT ![Root] = "Suspended"]
<1>1. state \in [Fiber -> State] /\ Root \in Fiber /\ state[Root] \in {"Absent", "Finished"}
  BY FibersAssumption DEF TypeOK, SchedTypeOK, SpawnRoot
<1>2. st \in [Fiber -> State]
  BY <1>1 DEF State
<1>3. PhaseOf(state') = PhaseOf(st)
  BY <1>2, SchedulePhase DEF SpawnRoot
<1>4. PhaseOf(st) = [PhaseOf(state) EXCEPT ![Root] = "active"]
  BY <1>1 DEF PhaseOf, Phase
<1>5. \A f \in Fiber \ {Root} :
          /\ Live(f)' <=> Live(f)
          /\ state'[f] = "Absent" <=> state[f] = "Absent"
          /\ state'[f] = "Finishing" <=> state[f] = "Finishing"
          /\ state'[f] = "Finished" <=> state[f] = "Finished"
  BY <1>3, <1>4 DEF Live, PhaseOf, Phase
<1>6. Live(Root)' /\ state'[Root] \notin {"Finishing", "Finished", "Absent"}
  BY <1>1, <1>3, <1>4 DEF Live, PhaseOf, Phase
<1>7. parent[Root] = None /\ Unjoined(Root) = {} /\ ~Live(Root)
  BY <1>1 DEF TreeOK, Live
<1>8. UNCHANGED <<parent, children, finished>>
  BY DEF SpawnRoot
<1>9. Root \notin finished[Root] /\ \A p \in Fiber : Root \notin finished[p] /\ Root \notin children[p]
  BY <1>1, <1>7, FiberAssumption DEF TreeOK
<1> QED
  BY <1>1, <1>5, <1>6, <1>7, <1>8, <1>9, FiberAssumption DEF TreeOK, Unjoined

LEMMA SpawnKeepsTree ==
    ASSUME TypeOK, TreeOK, NEW f \in Fiber, NEW c \in Fiber, Spawn(f, c)
    PROVE  TreeOK'
<1> DEFINE st == [state EXCEPT ![c] = "Suspended"]
<1>1. /\ state \in [Fiber -> State] /\ parent \in [Fiber -> Fiber \cup {None}]
      /\ children \in [Fiber -> SUBSET Fiber] /\ finished \in [Fiber -> SUBSET Fiber]
      /\ state[c] = "Absent" /\ c # Root /\ state[f] = "Running" /\ f # c
  BY DEF TypeOK, SchedTypeOK, Spawn, Runs
<1>2. st \in [Fiber -> State]
  BY <1>1 DEF State
<1>3. PhaseOf(state') = PhaseOf(st)
  BY <1>2, SchedulePhase DEF Spawn
<1>4. PhaseOf(st) = [PhaseOf(state) EXCEPT ![c] = "active"]
  BY <1>1 DEF PhaseOf, Phase
<1>5. \A g \in Fiber \ {c} :
          /\ Live(g)' <=> Live(g)
          /\ state'[g] = "Absent" <=> state[g] = "Absent"
          /\ state'[g] = "Finishing" <=> state[g] = "Finishing"
          /\ state'[g] = "Finished" <=> state[g] = "Finished"
  BY <1>3, <1>4 DEF Live, PhaseOf, Phase
<1>6. Live(c)' /\ state'[c] \notin {"Finishing", "Finished", "Absent"}
  BY <1>1, <1>3, <1>4 DEF Live, PhaseOf, Phase
<1>7. /\ parent' = [parent EXCEPT ![c] = f]
      /\ children' = [children EXCEPT ![f] = @ \cup {c}]
      /\ finished' = finished
  BY DEF Spawn
<1>8. Unjoined(c) = {} /\ ~Live(c) /\ Live(f) /\ state[f] # "Finishing"
  BY <1>1 DEF TreeOK, Live
<1>9. \A p \in Fiber : c \notin children[p] /\ c \notin finished[p]
  BY <1>1, <1>8 DEF TreeOK
<1>10. \A p, d \in Fiber : /\ d \in children'[p] <=> Live(d)' /\ parent'[d] = p
                           /\ d \in finished'[p] => state'[d] = "Finished" /\ parent'[d] = p
  BY <1>1, <1>5, <1>6, <1>7, <1>9 DEF TreeOK
<1>11. \A p \in Fiber : Unjoined(p)' # {} => Live(p)' /\ state'[p] # "Finishing"
  BY <1>1, <1>5, <1>6, <1>7, <1>8 DEF TreeOK, Unjoined
<1>12. \A d \in Fiber : parent'[d] = None <=> d = Root \/ state'[d] = "Absent"
  BY <1>1, <1>5, <1>6, <1>7, FiberAssumption DEF TreeOK
<1> QED
  BY <1>10, <1>11, <1>12 DEF TreeOK

LEMMA FinishingKeepsTree ==
    ASSUME TypeOK, TreeOK, NEW f \in Fiber, state[f] = "Running", Unjoined(f) = {},
           state' = [state EXCEPT ![f] = "Finishing"], UNCHANGED Links
    PROVE  TreeOK'
BY DEF TreeOK, Unjoined, Live, TypeOK, SchedTypeOK, Links

LEMMA RootFinishesKeepsTree ==
    ASSUME TypeOK, TreeOK, NEW f \in Fiber, RootFinishes(f)
    PROVE  TreeOK'
<1>1. /\ state' = [state EXCEPT ![f] = "Finished"] /\ state[f] = "Finishing"
      /\ parent[f] = None /\ UNCHANGED <<parent, children, finished>>
  BY DEF RootFinishes, Over, treeVars
<1> QED
  BY <1>1, FiberAssumption DEF TreeOK, Unjoined, Live, TypeOK, SchedTypeOK

LEMMA ReleaseKeepsTree ==
    ASSUME TypeOK, TreeOK, NEW c \in Fiber, Release(c)
    PROVE  TreeOK'
<1>1. /\ state' = [state EXCEPT ![c] = "Absent"] /\ state[c] = "Finished" /\ c # Root
      /\ parent' = [parent EXCEPT ![c] = None] /\ UNCHANGED <<children, finished>>
      /\ \A f \in Fiber : c \notin finished[f]
  BY DEF Release
<1>2. \A p \in Fiber : c \notin children[p]
  BY <1>1 DEF TreeOK, Live
<1> QED
  BY <1>1, <1>2, FiberAssumption DEF TreeOK, Unjoined, Live, TypeOK, SchedTypeOK

LEMMA MovesChildKeepsTree ==
    ASSUME TypeOK, TreeOK, NEW f \in Fiber, NEW p \in Fiber, NEW fs,
           state[f] = "Finishing", parent[f] = p, f \in children[p],
           MovesChild(f, p, children[p] \ {f}, fs)
    PROVE  TreeOK'
<1>1. /\ state \in [Fiber -> State] /\ parent \in [Fiber -> Fiber \cup {None}]
      /\ children \in [Fiber -> SUBSET Fiber] /\ finished \in [Fiber -> SUBSET Fiber]
  BY DEF TypeOK, SchedTypeOK
<1>2. /\ children' = [children EXCEPT ![p] = children[p] \ {f}]
      /\ finished' = [finished EXCEPT ![p] = @ \cup {f}]
      /\ parent' = parent
      /\ Schedule(Over(f), fs)
  BY DEF MovesChild, Fire
<1>3. Over(f) \in [Fiber -> State]
  BY <1>1 DEF Over, State
<1>4. PhaseOf(state') = [PhaseOf(state) EXCEPT ![f] = "Finished"]
  <2>1. PhaseOf(state') = PhaseOf(Over(f))
    BY <1>2, <1>3, SchedulePhase
  <2> QED
    BY <1>1, <2>1 DEF PhaseOf, Phase, Over
<1>5. \A g \in Fiber \ {f} :
          /\ Live(g)' <=> Live(g)
          /\ state'[g] = "Absent" <=> state[g] = "Absent"
          /\ state'[g] = "Finishing" <=> state[g] = "Finishing"
          /\ state'[g] = "Finished" <=> state[g] = "Finished"
  BY <1>4 DEF Live, PhaseOf, Phase
<1>6. ~Live(f)' /\ state'[f] = "Finished"
  BY <1>4 DEF Live, PhaseOf, Phase
<1>7. Unjoined(f) = {} /\ p # f /\ Live(p) /\ state[p] # "Finishing"
  BY DEF TreeOK, Unjoined
<1>8. \A q, d \in Fiber : /\ d \in children'[q] <=> Live(d)' /\ parent'[d] = q
                          /\ d \in finished'[q] => state'[d] = "Finished" /\ parent'[d] = q
  BY <1>1, <1>2, <1>5, <1>6 DEF TreeOK
<1>9. \A q \in Fiber : Unjoined(q)' # {} => Live(q)' /\ state'[q] # "Finishing"
  BY <1>1, <1>2, <1>5, <1>6, <1>7 DEF TreeOK, Unjoined
<1>10. \A d \in Fiber : parent'[d] = None <=> d = Root \/ state'[d] = "Absent"
  BY <1>1, <1>2, <1>5, <1>6 DEF TreeOK
<1> QED
  BY <1>8, <1>9, <1>10 DEF TreeOK

LEMMA QuietKeepsTree ==
    ASSUME TypeOK, TreeOK, NEW f \in Fiber, NEW s \in State, state' = [state EXCEPT ![f] = s],
           Phase(s) = Phase(state[f]), UNCHANGED Links
    PROVE  TreeOK'
<1>1. PhaseOf(state') = PhaseOf(state)
  BY DEF PhaseOf, TypeOK, SchedTypeOK
<1> QED
  BY <1>1, SamePhaseKeepsTree

LEMMA FireKeepsTree ==
    ASSUME TypeOK, TreeOK, NEW k, NEW fs, Fire(state, k, fs), UNCHANGED Links
    PROVE  TreeOK'
<1>1. PhaseOf(state') = PhaseOf(state)
  BY SchedulePhase DEF Fire, TypeOK, SchedTypeOK
<1> QED
  BY <1>1, SamePhaseKeepsTree

LEMMA UserStepKeepsTree ==
    ASSUME TypeOK, TreeOK, NEW f \in Fiber, UserStep(f)
    PROVE  TreeOK'
<1>1. ASSUME UNCHANGED <<schedVars, Links>> PROVE TreeOK'
  BY <1>1, SamePhaseKeepsTree DEF schedVars
<1>2. ASSUME NEW assertion, Fail(assertion) PROVE TreeOK'
  BY <1>1, <1>2 DEF Fail, treeVars, Links
<1>3. ASSUME NEW o, NEW c, Call(f, o, c) PROVE TreeOK'
  BY <1>1, <1>3 DEF Call, treeVars, Links
<1>4. state[f] = "Running"
  BY DEF UserStep, Spawn, SpawnFails, TryJoin, CallJoin, Await, Yield, TryWait, CallWaitFor, CallWaitAll,
         Raise, Catch, Unhandled, Return, Runs
<1>5. ASSUME NEW c \in Fiber, TryJoin(f, c) \/ CallJoin(f, c) PROVE TreeOK'
  BY <1>2, <1>3, <1>4, <1>5, TakeKeepsTree DEF TryJoin, CallJoin
<1>6. ASSUME NEW keys, Await(f, keys) PROVE TreeOK'
  BY <1>4, <1>6, QuietKeepsTree DEF Await, SuspendOn, Suspend, Phase, State, treeVars, Links
<1>7. CASE Yield(f)
  BY <1>4, <1>7, QuietKeepsTree DEF Yield, OmniYield, Phase, State, treeVars, Links
<1>8. CASE TryWait(f)
  <2>1. PICK c \in finished[f] : Take(f, c, "user")
    BY <1>8 DEF TryWait, TakeFirst
  <2>2. c \in Fiber
    BY DEF TypeOK
  <2> QED
    BY <1>4, <2>1, <2>2, TakeKeepsTree
<1>9. CASE CallWaitFor(f) \/ CallWaitAll(f) \/ Raise(f) \/ Catch(f) \/ SpawnFails(f)
  BY <1>2, <1>3, <1>9 DEF SpawnFails, CallWaitFor, CallWaitAll, Raise, Catch
<1>10. ASSUME NEW exceptions, Finishing(f, exceptions) PROVE TreeOK'
  BY <1>2, <1>4, <1>10, FinishingKeepsTree DEF Finishing, Links
<1>11. CASE Unhandled(f) \/ Return(f)
  BY <1>2, <1>10, <1>11 DEF Unhandled, Return
<1> QED
  BY <1>5, <1>6, <1>7, <1>8, <1>9, <1>11, SpawnKeepsTree DEF UserStep

LEMMA LibraryStepKeepsTree ==
    ASSUME TypeOK, TreeOK, NEW f \in Fiber, LibraryStep(f)
    PROVE  TreeOK'
<1>1. CASE JoinSuspends(f) \/ WaitSuspends(f)
  BY <1>1, QuietKeepsTree
     DEF JoinSuspends, WaitSuspends, SuspendOn, Suspend, Phase, State, treeVars, Links
<1>2. CASE JoinTakes(f) \/ WaitForTakes(f) \/ WaitAllTakes(f)
  <2>1. state[f] = "Running"
    BY <1>2 DEF JoinTakes, WaitForTakes, WaitAllTakes, Runs
  <2>2. PICK c \in finished[f], then \in Op : Take(f, c, then)
    BY <1>2 DEF JoinTakes, WaitForTakes, WaitAllTakes, TakeFirst, Op
  <2>3. c \in Fiber
    BY DEF TypeOK
  <2> QED
    BY <2>1, <2>2, <2>3, TakeKeepsTree
<1>3. CASE WaitAllReturns(f)
  BY <1>3, SamePhaseKeepsTree DEF WaitAllReturns, Call, schedVars, treeVars, Links
<1>4. CASE ResumeParks(f)
  <2> DEFINE s == IF state[f] = "Suspending" THEN "Suspended" ELSE "Yielded"
  <2>1. /\ state' = [state EXCEPT ![f] = s] /\ s \in State
        /\ Phase(s) = Phase(state[f]) /\ UNCHANGED Links
    BY <1>4 DEF ResumeParks, Parked, Phase, State, treeVars, Links
  <2> QED
    BY <2>1, QuietKeepsTree
<1>5. CASE ChildFinishes(f)
  <2>1. PICK p \in Fiber : parent[f] = p /\ OnChildFinished(f, p)
    BY <1>5 DEF ChildFinishes
  <2>2. state[f] = "Finishing" /\ f \in children[p]
    BY <1>5, <2>1 DEF ChildFinishes, TreeOK, Live
  <2>3. CASE Fail("Schedule")
    BY <2>3, SamePhaseKeepsTree DEF Fail, schedVars, treeVars, Links
  <2>4. CASE MovesChild(f, p, children[p] \ {f}, {p} \cap Waiters(ChildDone))
    BY <2>1, <2>2, <2>4, MovesChildKeepsTree
  <2> QED
    BY <2>1, <2>2, <2>3, <2>4 DEF OnChildFinished
<1> QED
  BY <1>1, <1>2, <1>3, <1>4, <1>5, RootFinishesKeepsTree DEF LibraryStep

LEMMA TreeStep == TypeOK /\ SchedInv /\ TreeOK /\ [Next]_vars => TreeOK'
<1> SUFFICES ASSUME TypeOK, SchedInv, TreeOK, [Next]_vars PROVE TreeOK'
  OBVIOUS
<1>1. CASE RunnerStart \/ RunEnd \/ Idle \/ UNCHANGED vars
  BY <1>1, SamePhaseKeepsTree DEF RunnerStart, RunEnd, Idle, vars, schedVars, treeVars, Links
<1>2. CASE RunFiber
  <2>1. running' \in Fiber
    BY <1>2, RunReadyKeeps, RunYieldedKeeps DEF RunFiber
  <2>2. /\ state' = [state EXCEPT ![running'] = "Running"]
        /\ state[running'] \in {"Ready", "Yielded"}
        /\ UNCHANGED Links
    BY <1>2 DEF RunFiber, RunReady, RunYielded, Resume, treeVars, Links
  <2>3. "Running" \in State /\ Phase("Running") = Phase(state[running'])
    BY <2>2 DEF State, Phase
  <2> QED
    BY <2>1, <2>2, <2>3, QuietKeepsTree
<1>3. ASSUME NEW k \in Source, FireSource(k) PROVE TreeOK'
  BY <1>3, FireKeepsTree, SamePhaseKeepsTree DEF FireSource, Fail, schedVars, treeVars, Links
<1> QED
  BY <1>1, <1>2, <1>3, SpawnRootKeepsTree, UserStepKeepsTree, LibraryStepKeepsTree,
     ReleaseKeepsTree DEF Next

(* A live fiber hangs from its parent's _Children, and a parent outlives its *)
(* children, whatever the program does.                                      *)
THEOREM TreeCorrect == Spec => []TreeOK
<1>1. Init => TreeOK
  BY FibersAssumption, FiberAssumption DEF Init, TreeOK, Unjoined, Live
<1>2. TypeOK /\ OneRunner /\ SchedInv /\ TreeOK /\ [Next]_vars
         => TypeOK' /\ OneRunner' /\ SchedInv' /\ TreeOK'
  BY TypeStep, RunnerStep, SchedStep, TreeStep
<1> QED
  BY <1>1, <1>2, TypeAndRunnerInit, SchedInit, PTL DEF Spec

-----------------------------------------------------------------------------
(***************************************************************************
Fibers implement the task tree.  The abstract state of a fiber depends on its
phase, on its place in the tree and, once it has ended, on its exception.
***************************************************************************)
MappedTask ==
    [c \in Fiber |-> IF Ended(c) THEN "done" ELSE IF Live(c) THEN "live" ELSE "absent"]
MappedOwner == [c \in Fiber |-> IF c # Root /\ Uncollected(c) THEN parent[c] ELSE None]
MappedOutcome ==
    [c \in Fiber |-> IF ~Ended(c) THEN None
                     ELSE IF c \in exception THEN "exception" ELSE "value"]
Mapped == <<MappedTask, MappedOwner, MappedOutcome>>

(* A step that the abstract state of c does not see. *)
Stays(c) ==
    /\ Live(c)' <=> Live(c)
    /\ Ended(c)' <=> Ended(c)
    /\ Uncollected(c)' <=> Uncollected(c)
    /\ c \in exception' <=> c \in exception
    /\ parent'[c] = parent[c]

LEMMA OwnedByParent ==
    ASSUME TypeOK, TreeOK, NEW c \in Fiber, NEW p \in Fiber, c \in Unjoined(p)
    PROVE  parent[c] = p /\ c # Root /\ (Live(c) \/ state[c] = "Finished")
BY FiberAssumption DEF TreeOK, Unjoined

LEMMA OthersStay ==
    ASSUME NEW f \in Fiber, \A d \in Fiber \ {f} : Stays(d)
    PROVE  /\ MappedTask' = [MappedTask EXCEPT ![f] = MappedTask'[f]]
           /\ MappedOwner' = [MappedOwner EXCEPT ![f] = MappedOwner'[f]]
           /\ MappedOutcome' = [MappedOutcome EXCEPT ![f] = MappedOutcome'[f]]
BY DEF Stays, MappedTask, MappedOwner, MappedOutcome

LEMMA AllStay ==
    ASSUME \A d \in Fiber : Stays(d)
    PROVE  UNCHANGED Tree!vars
<1>1. UNCHANGED Mapped
  BY DEF Stays, Mapped, MappedTask, MappedOwner, MappedOutcome
<1> QED
  BY <1>1 DEF Mapped, MappedTask, MappedOwner, MappedOutcome, Tree!vars

LEMMA QuietMaps ==
    ASSUME PhaseOf(state') = PhaseOf(state), UNCHANGED <<Links, exception>>
    PROVE  UNCHANGED Tree!vars
<1>1. \A c \in Fiber : /\ Live(c)' <=> Live(c)
                       /\ state'[c] \in {"Finishing", "Finished"} <=> state[c] \in {"Finishing", "Finished"}
  BY DEF Live, PhaseOf, Phase
<1>2. \A c \in Fiber : Uncollected(c)' <=> Uncollected(c)
  BY DEF Uncollected, Unjoined, Links
<1> QED
  BY <1>1, <1>2, AllStay DEF Stays, Ended, Links

LEMMA SpawnRootMaps ==
    ASSUME TypeOK, TreeOK, SpawnRoot
    PROVE  Tree!Start
<1> DEFINE st == [state EXCEPT ![Root] = "Suspended"]
<1>1. state \in [Fiber -> State] /\ Root \in Fiber /\ state[Root] \in {"Absent", "Finished"}
  BY FibersAssumption DEF TypeOK, SchedTypeOK, SpawnRoot
<1>2. st \in [Fiber -> State] /\ PhaseOf(st) = [PhaseOf(state) EXCEPT ![Root] = "active"]
  BY <1>1 DEF State, PhaseOf, Phase
<1>3. PhaseOf(state') = [PhaseOf(state) EXCEPT ![Root] = "active"]
  BY <1>2, SchedulePhase DEF SpawnRoot
<1>4. UNCHANGED Links /\ exception' = exception \ {Root}
  BY DEF SpawnRoot, Links
<1>5. \A c \in Fiber : Uncollected(c)' <=> Uncollected(c)
  BY <1>4 DEF Uncollected, Unjoined, Links
<1>6. \A c \in Fiber \ {Root} : Stays(c)
  <2>1. \A c \in Fiber \ {Root} :
           /\ Live(c)' <=> Live(c)
           /\ state'[c] \in {"Finishing", "Finished"} <=> state[c] \in {"Finishing", "Finished"}
    BY <1>3 DEF Live, PhaseOf, Phase
  <2> QED
    BY <2>1, <1>4, <1>5 DEF Stays, Ended, Links
<1>7. ~Ended(Root)' /\ Live(Root)'
  BY <1>1, <1>3 DEF Ended, Live, PhaseOf, Phase
<1>8. /\ MappedTask[Root] \in {"absent", "done"}
      /\ MappedTask' = [MappedTask EXCEPT ![Root] = "live"]
  BY <1>1, <1>6, <1>7, OthersStay DEF MappedTask, Ended, Live, Uncollected
<1>9. MappedOutcome' = [MappedOutcome EXCEPT ![Root] = None]
  BY <1>1, <1>6, <1>7, OthersStay DEF MappedOutcome
<1>10. MappedOwner' = MappedOwner
  BY <1>1, <1>6, OthersStay DEF MappedOwner
<1> QED
  BY <1>8, <1>9, <1>10 DEF MappedTask, MappedOwner, MappedOutcome, Tree!Start

LEMMA SpawnMaps ==
    ASSUME TypeOK, TreeOK, NEW f \in Fiber, NEW c \in Fiber, Spawn(f, c)
    PROVE  Tree!Spawn(f, c)
<1> DEFINE st == [state EXCEPT ![c] = "Suspended"]
<1>1. /\ state \in [Fiber -> State] /\ parent \in [Fiber -> Fiber \cup {None}]
      /\ children \in [Fiber -> SUBSET Fiber] /\ finished \in [Fiber -> SUBSET Fiber]
      /\ state[c] = "Absent" /\ c # Root /\ state[f] = "Running" /\ f # c
  BY DEF TypeOK, SchedTypeOK, Spawn, Runs
<1>2. st \in [Fiber -> State] /\ PhaseOf(st) = [PhaseOf(state) EXCEPT ![c] = "active"]
  BY <1>1 DEF State, PhaseOf, Phase
<1>3. PhaseOf(state') = [PhaseOf(state) EXCEPT ![c] = "active"]
  BY <1>2, SchedulePhase DEF Spawn
<1>4. /\ parent' = [parent EXCEPT ![c] = f]
      /\ children' = [children EXCEPT ![f] = @ \cup {c}]
      /\ UNCHANGED <<finished, exception>>
  BY DEF Spawn
<1>5. \A d \in Fiber \ {c} : Stays(d)
  <2>1. \A d \in Fiber \ {c} :
           /\ Live(d)' <=> Live(d)
           /\ state'[d] \in {"Finishing", "Finished"} <=> state[d] \in {"Finishing", "Finished"}
    BY <1>3 DEF Live, PhaseOf, Phase
  <2>2. \A d \in Fiber \ {c} : Uncollected(d)' <=> Uncollected(d)
    BY <1>1, <1>4 DEF Uncollected, Unjoined
  <2> QED
    BY <2>1, <2>2, <1>1, <1>4 DEF Stays, Ended
<1>6. ~Uncollected(c) /\ ~Live(c)
  BY <1>1, OwnedByParent DEF Uncollected, Live
<1>7. Uncollected(c)' /\ Live(c)' /\ ~Ended(c)'
  BY <1>1, <1>3, <1>4 DEF Uncollected, Unjoined, Live, Ended, PhaseOf, Phase
<1>8. MappedTask[f] = "live" /\ MappedTask[c] = "absent"
  BY <1>1, <1>6 DEF MappedTask, Ended, Live
<1>9. MappedTask' = [MappedTask EXCEPT ![c] = "live"]
  BY <1>5, <1>7, OthersStay DEF MappedTask
<1>10. MappedOwner' = [MappedOwner EXCEPT ![c] = f]
  BY <1>1, <1>4, <1>5, <1>7, OthersStay DEF MappedOwner
<1>11. MappedOutcome' = MappedOutcome
  <2>1. ~Ended(c)
    BY <1>6 DEF Ended
  <2> QED
    BY <2>1, <1>5, <1>7 DEF Stays, MappedOutcome
<1> QED
  BY <1>1, <1>8, <1>9, <1>10, <1>11 DEF MappedTask, MappedOwner, MappedOutcome, Tree!Spawn

(* A child that its parent takes is no task of anybody any more.            *)
LEMMA TakeMaps ==
    ASSUME TypeOK, TreeOK, NEW f \in Fiber, NEW c \in finished[f], NEW then, Take(f, c, then),
           state[f] = "Running"
    PROVE  Tree!Collect(f, c)
<1>1. c \in Fiber /\ children \in [Fiber -> SUBSET Fiber] /\ finished \in [Fiber -> SUBSET Fiber]
  BY DEF TypeOK
<1>2. UNCHANGED <<state, parent, children, exception>> /\ finished' = [finished EXCEPT ![f] = @ \ {c}]
  BY DEF Take, schedVars
<1>3. parent[c] = f /\ c # Root /\ state[c] = "Finished" /\ Uncollected(c)
  BY <1>1, FiberAssumption DEF TreeOK, Uncollected, Unjoined
<1>4. ~Uncollected(c)'
  BY <1>1, <1>2, <1>3 DEF TreeOK, Live, Uncollected, Unjoined
<1>5. \A d \in Fiber \ {c} : Stays(d)
  <2>1. \A d \in Fiber \ {c} : Uncollected(d)' <=> Uncollected(d)
    BY <1>1, <1>2 DEF Uncollected, Unjoined
  <2> QED
    BY <1>2, <2>1 DEF Stays, Live, Ended
<1>6. MappedTask[f] = "live" /\ MappedTask[c] = "done" /\ MappedOwner[c] = f
  BY <1>1, <1>3 DEF MappedTask, MappedOwner, Live, Ended
<1>7. MappedTask' = [MappedTask EXCEPT ![c] = "absent"]
  BY <1>1, <1>2, <1>3, <1>4, <1>5, OthersStay DEF MappedTask, Live, Ended
<1>8. MappedOwner' = [MappedOwner EXCEPT ![c] = None]
  BY <1>1, <1>4, <1>5, OthersStay DEF MappedOwner
<1>9. MappedOutcome' = [MappedOutcome EXCEPT ![c] = None]
  BY <1>1, <1>4, <1>5, OthersStay DEF MappedOutcome, Ended
<1> QED
  BY <1>6, <1>7, <1>8, <1>9 DEF MappedTask, MappedOwner, MappedOutcome, Tree!Collect

LEMMA FinishingMaps ==
    ASSUME TypeOK, TreeOK, NEW f \in Fiber, state[f] = "Running", Unjoined(f) = {},
           NEW exceptions, exception \subseteq exceptions, exceptions \subseteq exception \cup {f},
           Finishing(f, exceptions)
    PROVE  \E o \in {"value", "exception"} : Tree!End(f, o)
<1> DEFINE o == IF f \in exceptions THEN "exception" ELSE "value"
<1>1. /\ state \in [Fiber -> State] /\ state' = [state EXCEPT ![f] = "Finishing"]
      /\ exception' = exceptions /\ UNCHANGED Links
  BY DEF Finishing, Links, TypeOK, SchedTypeOK
<1>2. \A d \in Fiber : Uncollected(d)' <=> Uncollected(d)
  BY <1>1 DEF Uncollected, Unjoined, Links
<1>3. Uncollected(f) /\ Live(f)
  BY DEF TreeOK, Live, Uncollected, Unjoined, TypeOK
<1>4. \A d \in Fiber \ {f} : Stays(d)
  BY <1>1, <1>2 DEF Stays, Live, Ended, Links
<1>5. Ended(f)' /\ ~Ended(f)
  BY <1>1, <1>2, <1>3 DEF Ended
<1>6. MappedTask[f] = "live" /\ MappedTask' = [MappedTask EXCEPT ![f] = "done"]
  BY <1>3, <1>4, <1>5, OthersStay DEF MappedTask
<1>7. MappedOutcome' = [MappedOutcome EXCEPT ![f] = o]
  BY <1>1, <1>4, <1>5, OthersStay DEF MappedOutcome
<1>8. MappedOwner' = MappedOwner
  BY <1>1, <1>2 DEF MappedOwner, Links
<1>9. \A c \in Fiber : MappedOwner[c] # f
  BY OwnedByParent, FiberAssumption DEF MappedOwner, Uncollected
<1>10. Tree!End(f, o)
  BY <1>6, <1>7, <1>8, <1>9 DEF MappedTask, MappedOwner, MappedOutcome, Tree!End
<1> QED
  BY <1>10

(* Neither the switch from Finishing to Finished nor the end of an object   *)
(* that was joined is seen.                                                 *)
LEMMA MovesChildMaps ==
    ASSUME TypeOK, TreeOK, NEW f \in Fiber, NEW p \in Fiber, NEW fs,
           state[f] = "Finishing", f \in children[p], MovesChild(f, p, children[p] \ {f}, fs)
    PROVE  UNCHANGED Tree!vars
<1>1. /\ state \in [Fiber -> State]
      /\ children \in [Fiber -> SUBSET Fiber] /\ finished \in [Fiber -> SUBSET Fiber]
  BY DEF TypeOK, SchedTypeOK
<1>2. /\ children' = [children EXCEPT ![p] = children[p] \ {f}]
      /\ finished' = [finished EXCEPT ![p] = @ \cup {f}]
      /\ UNCHANGED <<parent, exception>>
      /\ Schedule(Over(f), fs)
  BY DEF MovesChild, Fire
<1>3. PhaseOf(state') = [PhaseOf(state) EXCEPT ![f] = "Finished"]
  <2>1. Over(f) \in [Fiber -> State]
    BY <1>1 DEF Over, State
  <2>2. PhaseOf(state') = PhaseOf(Over(f))
    BY <1>2, <2>1, SchedulePhase
  <2> QED
    BY <1>1, <2>2 DEF PhaseOf, Phase, Over
<1>4. \A d \in Fiber : Uncollected(d)' <=> Uncollected(d)
  <2>1. \A d, q \in Fiber : d \in Unjoined(q)' <=> d \in Unjoined(q)
    BY <1>1, <1>2 DEF Unjoined
  <2> QED
    BY <2>1 DEF Uncollected
<1>5. \A d \in Fiber : /\ d # f => (Live(d)' <=> Live(d))
                       /\ Ended(d)' <=> Ended(d)
  <2>1. \A d \in Fiber :
           /\ d # f => (Live(d)' <=> Live(d))
           /\ state'[d] \in {"Finishing", "Finished"} <=> state[d] \in {"Finishing", "Finished"}
    BY <1>3 DEF Live, PhaseOf, Phase
  <2> QED
    BY <1>4, <2>1 DEF Ended
<1>6. Ended(f)
  BY DEF Ended, Uncollected, Unjoined
<1>7. UNCHANGED Mapped
  BY <1>2, <1>4, <1>5, <1>6 DEF Mapped, MappedTask, MappedOwner, MappedOutcome
<1> QED
  BY <1>7 DEF Mapped, MappedTask, MappedOwner, MappedOutcome, Tree!vars

LEMMA RootFinishesMaps ==
    ASSUME TypeOK, TreeOK, NEW f \in Fiber, RootFinishes(f)
    PROVE  UNCHANGED Tree!vars
<1>1. /\ state \in [Fiber -> State] /\ state' = [state EXCEPT ![f] = "Finished"]
      /\ state[f] = "Finishing" /\ f = Root /\ UNCHANGED <<Links, exception>>
  BY DEF RootFinishes, Over, treeVars, Links, TreeOK, TypeOK, SchedTypeOK
<1>2. \A d \in Fiber : Uncollected(d)' <=> Uncollected(d)
  BY <1>1 DEF Uncollected, Unjoined, Links
<1>3. \A d \in Fiber : Ended(d)' <=> Ended(d)
  BY <1>1, <1>2 DEF Ended
<1>4. Ended(f) /\ \A d \in Fiber \ {f} : Live(d)' <=> Live(d)
  BY <1>1 DEF Ended, Uncollected, Live
<1>5. UNCHANGED Mapped
  BY <1>1, <1>2, <1>3, <1>4 DEF Mapped, MappedTask, MappedOwner, MappedOutcome, Links
<1> QED
  BY <1>5 DEF Mapped, MappedTask, MappedOwner, MappedOutcome, Tree!vars

LEMMA ReleaseMaps ==
    ASSUME TypeOK, TreeOK, NEW c \in Fiber, Release(c)
    PROVE  UNCHANGED Tree!vars
<1>1. /\ state \in [Fiber -> State] /\ state' = [state EXCEPT ![c] = "Absent"]
      /\ state[c] = "Finished" /\ c # Root /\ exception' = exception \ {c}
      /\ parent \in [Fiber -> Fiber \cup {None}] /\ parent' = [parent EXCEPT ![c] = None]
      /\ UNCHANGED <<children, finished>> /\ \A f \in Fiber : c \notin finished[f]
  BY DEF Release, TypeOK, SchedTypeOK
<1>2. \A d \in Fiber : Uncollected(d)' <=> Uncollected(d)
  BY <1>1 DEF Uncollected, Unjoined
<1>3. ~Uncollected(c)
  BY <1>1 DEF TreeOK, Live, Uncollected, Unjoined
<1>4. \A d \in Fiber : (Live(d)' <=> Live(d)) /\ (Ended(d)' <=> Ended(d))
  BY <1>1, <1>2, <1>3 DEF Live, Ended
<1>5. UNCHANGED Mapped
  BY <1>1, <1>2, <1>3, <1>4 DEF Mapped, MappedTask, MappedOwner, MappedOutcome, Ended
<1> QED
  BY <1>5 DEF Mapped, MappedTask, MappedOwner, MappedOutcome, Tree!vars

LEMMA UserStepMaps ==
    ASSUME TypeOK, TreeOK, NEW f \in Fiber, UserStep(f)
    PROVE  [Tree!Next]_(Tree!vars)
<1>1. ASSUME UNCHANGED <<schedVars, treeVars>> PROVE UNCHANGED Tree!vars
  BY <1>1, QuietMaps DEF schedVars, treeVars, Links
<1>2. ASSUME NEW assertion, Fail(assertion) PROVE UNCHANGED Tree!vars
  BY <1>1, <1>2 DEF Fail
<1>3. ASSUME NEW o, NEW c, Call(f, o, c) PROVE UNCHANGED Tree!vars
  BY <1>1, <1>3 DEF Call
<1>4. state \in [Fiber -> State] /\ state[f] = "Running"
  BY DEF UserStep, Spawn, SpawnFails, TryJoin, CallJoin, Await, Yield, TryWait, CallWaitFor, CallWaitAll,
         Raise, Catch, Unhandled, Return, Runs, TypeOK, SchedTypeOK
<1>5. ASSUME NEW s \in {"Suspending", "Yielding"}, state' = [state EXCEPT ![f] = s],
             UNCHANGED treeVars
      PROVE  UNCHANGED Tree!vars
  <2>1. PhaseOf(state') = PhaseOf(state)
    BY <1>4, <1>5 DEF PhaseOf, Phase
  <2> QED
    BY <1>5, <2>1, QuietMaps DEF treeVars, Links
<1>6. ASSUME NEW keys, Await(f, keys) PROVE UNCHANGED Tree!vars
  BY <1>5, <1>6 DEF Await, SuspendOn, Suspend
<1>7. CASE Yield(f)
  BY <1>5, <1>7 DEF Yield, OmniYield
<1>8. ASSUME NEW c \in Fiber, TryJoin(f, c) \/ CallJoin(f, c) PROVE [Tree!Next]_(Tree!vars)
  BY <1>2, <1>3, <1>4, <1>8, TakeMaps DEF TryJoin, CallJoin, Tree!Next
<1>9. CASE TryWait(f)
  <2>1. PICK c \in finished[f] : Take(f, c, "user") /\ c \in Fiber
    BY <1>9 DEF TryWait, TakeFirst, TypeOK
  <2> QED
    BY <1>4, <2>1, TakeMaps DEF Tree!Next
<1>10. CASE CallWaitFor(f) \/ CallWaitAll(f) \/ Raise(f) \/ Catch(f) \/ SpawnFails(f)
  BY <1>2, <1>3, <1>10 DEF SpawnFails, CallWaitFor, CallWaitAll, Raise, Catch
<1>11. ASSUME NEW exceptions, exception \subseteq exceptions,
              exceptions \subseteq exception \cup {f}, Finishing(f, exceptions)
       PROVE  [Tree!Next]_(Tree!vars)
  <2>1. CASE Unjoined(f) = {}
    BY <1>4, <1>11, <2>1, FinishingMaps DEF Tree!Next
  <2>2. CASE Unjoined(f) # {}
    BY <1>2, <1>11, <2>2 DEF Finishing
  <2> QED
    BY <2>1, <2>2
<1>12. CASE Unhandled(f) \/ Return(f)
  BY <1>2, <1>11, <1>12 DEF Unhandled, Return
<1>13. ASSUME NEW c \in Fiber, Spawn(f, c) PROVE Tree!Next
  BY <1>13, SpawnMaps DEF Tree!Next
<1> QED
  BY <1>6, <1>7, <1>8, <1>9, <1>10, <1>12, <1>13 DEF UserStep

LEMMA LibraryStepMaps ==
    ASSUME TypeOK, TreeOK, NEW f \in Fiber, LibraryStep(f)
    PROVE  [Tree!Next]_(Tree!vars)
<1>1. CASE JoinSuspends(f) \/ WaitSuspends(f) \/ ResumeParks(f)
  <2>1. PhaseOf(state') = PhaseOf(state) /\ UNCHANGED treeVars
    BY <1>1 DEF JoinSuspends, WaitSuspends, SuspendOn, Suspend, ResumeParks, Parked, PhaseOf, Phase,
                TypeOK, SchedTypeOK
  <2> QED
    BY <2>1, QuietMaps DEF treeVars, Links
<1>2. CASE JoinTakes(f) \/ WaitForTakes(f) \/ WaitAllTakes(f)
  <2>1. state[f] = "Running"
    BY <1>2 DEF JoinTakes, WaitForTakes, WaitAllTakes, Runs
  <2>2. PICK c \in finished[f], then \in Op : Take(f, c, then)
    BY <1>2 DEF JoinTakes, WaitForTakes, WaitAllTakes, TakeFirst, Op
  <2>3. c \in Fiber
    BY DEF TypeOK
  <2> QED
    BY <2>1, <2>2, <2>3, TakeMaps DEF Tree!Next
<1>3. CASE WaitAllReturns(f)
  BY <1>3, QuietMaps DEF WaitAllReturns, Call, schedVars, treeVars, Links
<1>4. CASE ChildFinishes(f)
  <2>1. PICK p \in Fiber : parent[f] = p /\ OnChildFinished(f, p)
    BY <1>4 DEF ChildFinishes
  <2>2. state[f] = "Finishing" /\ f \in children[p]
    BY <1>4, <2>1 DEF ChildFinishes, TreeOK, Live
  <2>3. CASE Fail("Schedule")
    BY <2>3, QuietMaps DEF Fail, schedVars, treeVars, Links
  <2>4. CASE MovesChild(f, p, children[p] \ {f}, {p} \cap Waiters(ChildDone))
    BY <2>2, <2>4, MovesChildMaps
  <2> QED
    BY <2>1, <2>2, <2>3, <2>4 DEF OnChildFinished
<1> QED
  BY <1>1, <1>2, <1>3, <1>4, RootFinishesMaps DEF LibraryStep

LEMMA StepMaps == TypeOK /\ SchedInv /\ TreeOK /\ [Next]_vars => [Tree!Next]_(Tree!vars)
<1> SUFFICES ASSUME TypeOK, SchedInv, TreeOK, [Next]_vars PROVE [Tree!Next]_(Tree!vars)
  OBVIOUS
<1>1. CASE RunnerStart \/ RunEnd \/ Idle \/ UNCHANGED vars
  BY <1>1, QuietMaps DEF RunnerStart, RunEnd, Idle, vars, schedVars, treeVars, Links
<1>2. CASE RunFiber
  <2>1. PhaseOf(state') = PhaseOf(state) /\ UNCHANGED treeVars
    BY <1>2 DEF RunFiber, RunReady, RunYielded, Resume, PhaseOf, Phase, TypeOK, SchedTypeOK
  <2> QED
    BY <2>1, QuietMaps DEF treeVars, Links
<1>3. ASSUME NEW k \in Source, FireSource(k) PROVE UNCHANGED Tree!vars
  <2>1. PhaseOf(state') = PhaseOf(state) /\ UNCHANGED treeVars
    BY <1>3, SchedulePhase DEF FireSource, Fire, Fail, schedVars, TypeOK, SchedTypeOK
  <2> QED
    BY <2>1, QuietMaps DEF treeVars, Links
<1>4. CASE SpawnRoot
  BY <1>4, SpawnRootMaps DEF Tree!Next
<1> QED
  BY <1>1, <1>2, <1>3, <1>4, UserStepMaps, LibraryStepMaps, ReleaseMaps DEF Next

LEMMA InitMaps == Init => Tree!Init
<1> SUFFICES ASSUME Init PROVE Tree!Init
  OBVIOUS
<1>1. \A c \in Fiber : ~Live(c) /\ ~Ended(c) /\ parent[c] = None
  BY DEF Init, Live, Ended
<1> QED
  BY <1>1 DEF Tree!Init

(* The fibers implement the task tree, whatever the program does: no fiber  *)
(* ends before its children are joined, each child is joined once, by its   *)
(* parent, and its outcome stays what it was until then.                    *)
THEOREM FibersAreTasks == Spec => ImplementsTaskTree
<1>1. TypeOK /\ OneRunner /\ SchedInv /\ TreeOK /\ [Next]_vars
         => TypeOK' /\ OneRunner' /\ SchedInv' /\ TreeOK'
  BY TypeStep, RunnerStep, SchedStep, TreeStep
<1>2. Init => TreeOK
  BY FibersAssumption, FiberAssumption DEF Init, TreeOK, Unjoined, Live
<1> QED
  BY <1>1, <1>2, TypeAndRunnerInit, SchedInit, InitMaps, StepMaps, PTL
     DEF Spec, ImplementsTaskTree, Tree!Spec

-----------------------------------------------------------------------------
(***************************************************************************
Wake-ups, exceptions and assertions.  NoLostWakeup is not inductive alone:
that a child is left when WaitFor suspends comes from its assertion, which
WaitForHasChild carries from the call to the loop.  With the queues, the stack
and the tree it gives that a program that keeps the rules meets no failed
assertion, and that a fiber which is queued has a Runner.
***************************************************************************)
WaitForHasChild == \A f \in Fiber : op[f] = "waitFor" => Unjoined(f) # {}

WakeInv == NoLostWakeup /\ WaitForHasChild

Local(f) == <<state[f], pending[f], op[f], target[f], children[f], finished[f]>>

(* A fiber that a step leaves alone sleeps as before. *)
LEMMA AloneSleeps ==
    ASSUME NEW f \in Fiber, SleepsSoundly(f), UNCHANGED Local(f)
    PROVE  SleepsSoundly(f)'
BY DEF SleepsSoundly, Live, Local

(* The fiber whose code runs has no awaiters but those of dynamic lists, and *)
(* may do what it likes to itself as long as it does not suspend.           *)
LEMMA AwakeKeepsWake ==
    ASSUME TypeOK, NoLostWakeup, NEW f \in Fiber,
           state[f] \notin {"Suspending", "Suspended", "Ready"},
           state'[f] \notin {"Suspending", "Suspended"},
           \/ pending'[f] = NoAwaiter
           \/ pending'[f] = pending[f] /\ Live(f)' /\ state'[f] # "Finishing",
           \A g \in Fiber \ {f} : UNCHANGED Local(g)
    PROVE  NoLostWakeup'
<1>1. SleepsSoundly(f)'
  BY DEF NoLostWakeup, SleepsSoundly, NoAwaiter
<1>2. \A g \in Fiber \ {f} : SleepsSoundly(g)'
  BY AloneSleeps DEF NoLostWakeup
<1> QED
  BY <1>1, <1>2 DEF NoLostWakeup

LEMMA UnchangedKeepsWake ==
    ASSUME TypeOK, WakeInv, UNCHANGED <<state, pending, op, target, children, finished>>
    PROVE  WakeInv'
<1>1. NoLostWakeup'
  BY DEF WakeInv, NoLostWakeup, SleepsSoundly, Live
<1> QED
  BY <1>1 DEF WakeInv, WaitForHasChild, Unjoined

LEMMA CallKeepsWake ==
    ASSUME TypeOK, WakeInv, NEW f \in Fiber, NEW o, NEW c, Call(f, o, c), state[f] = "Running",
           o = "waitFor" => Unjoined(f) # {}
    PROVE  WakeInv'
<1>1. /\ UNCHANGED <<state, pending, children, finished>>
      /\ op' = [op EXCEPT ![f] = o] /\ target' = [target EXCEPT ![f] = c]
  BY DEF Call, schedVars, treeVars
<1>2. \A g \in Fiber \ {f} : UNCHANGED Local(g)
  BY <1>1 DEF Local, TypeOK
<1>3. NoLostWakeup'
  BY <1>1, <1>2, AwakeKeepsWake DEF WakeInv, Live
<1> QED
  BY <1>1, <1>3 DEF WakeInv, WaitForHasChild, Unjoined, TypeOK

LEMMA TakeKeepsWake ==
    ASSUME TypeOK, WakeInv, NEW f \in Fiber, NEW c, NEW then \in {"user", "waitAll"},
           Take(f, c, then), state[f] = "Running"
    PROVE  WakeInv'
<1>1. /\ UNCHANGED <<state, pending, children>>
      /\ finished' = [finished EXCEPT ![f] = @ \ {c}]
      /\ op' = [op EXCEPT ![f] = IF c \in exception THEN "throw" ELSE then]
      /\ target' = [target EXCEPT ![f] = IF c \in exception THEN c ELSE None]
  BY DEF Take, schedVars
<1>2. \A g \in Fiber \ {f} : UNCHANGED Local(g)
  BY <1>1 DEF Local, TypeOK
<1>3. NoLostWakeup'
  BY <1>1, <1>2, AwakeKeepsWake DEF WakeInv, Live
<1>4. op'[f] # "waitFor"
  BY <1>1 DEF TypeOK
<1> QED
  BY <1>1, <1>3, <1>4 DEF WakeInv, WaitForHasChild, Unjoined, TypeOK

LEMMA FinishingKeepsWake ==
    ASSUME TypeOK, WakeInv, NEW f \in Fiber, NEW exceptions, Finishing(f, exceptions),
           state[f] = "Running"
    PROVE  WakeInv'
<1>1. CASE Unjoined(f) = {}
  <2>1. /\ state' = [state EXCEPT ![f] = "Finishing"] /\ op' = [op EXCEPT ![f] = "user"]
        /\ target' = [target EXCEPT ![f] = None]
        /\ pending' = [pending EXCEPT ![f] = NoAwaiter]
        /\ UNCHANGED <<children, finished>>
    BY <1>1 DEF Finishing
  <2>2. \A g \in Fiber \ {f} : UNCHANGED Local(g)
    BY <2>1 DEF Local, TypeOK, SchedTypeOK
  <2>3. state'[f] = "Finishing" /\ pending'[f] = NoAwaiter
    BY <2>1 DEF TypeOK, SchedTypeOK
  <2>4. NoLostWakeup'
    BY <2>1, <2>2, <2>3, AwakeKeepsWake DEF WakeInv
  <2> QED
    BY <2>1, <2>4 DEF WakeInv, WaitForHasChild, Unjoined, TypeOK
<1>2. CASE Unjoined(f) # {}
  BY <1>2, UnchangedKeepsWake DEF Finishing, Fail, schedVars, treeVars, codeVars
<1> QED
  BY <1>1, <1>2

(* Suspending is sound if the code that suspends has just seen that there  *)
(* is something to wait for.                                                *)
LEMMA SuspendKeepsWake ==
    ASSUME TypeOK, WakeInv, NEW f \in Fiber, NEW keys \in (SUBSET Key) \ {{}},
           SuspendOn(f, keys), UNCHANGED <<op, target>>,
           op[f] = "join" => target[f] \notin finished[f],
           op[f] \in {"waitFor", "waitAll"} => finished[f] = {} /\ children[f] # {},
           op[f] \in {"join", "waitFor", "waitAll"} => ChildDone \in keys
    PROVE  WakeInv'
<1>1. /\ state' = [state EXCEPT ![f] = "Suspending"]
      /\ pending' = [pending EXCEPT ![f] = [k \in Key |-> IF k \in keys THEN "Waiting" ELSE @[k]]]
      /\ state[f] = "Running"
      /\ UNCHANGED <<op, target, children, finished>>
  BY DEF SuspendOn, Suspend, treeVars
<1>2. /\ state'[f] = "Suspending"
      /\ pending'[f] = [k \in Key |-> IF k \in keys THEN "Waiting" ELSE pending[f][k]]
  BY <1>1 DEF TypeOK, SchedTypeOK
<1>3. SleepsSoundly(f)'
  <2>1. \A k \in Key : pending'[f][k] = IF k \in keys THEN "Waiting" ELSE pending[f][k]
    BY <1>2
  <2>2. PICK k \in keys : k \in Key
    OBVIOUS
  <2>3. pending'[f][k] = "Waiting" /\ \A j \in Key \ Listed : pending'[f][j] # "Notified"
    BY <1>1, <2>1, <2>2 DEF WakeInv, NoLostWakeup, SleepsSoundly
  <2>4. ChildDone \in keys => pending'[f][ChildDone] = "Waiting"
    BY <2>1
  <2>5. UNCHANGED <<op[f], target[f], children[f], finished[f]>>
    BY <1>1
  <2> QED
    BY <1>2, <2>2, <2>3, <2>4, <2>5 DEF SleepsSoundly, Live
<1>4. \A g \in Fiber \ {f} : UNCHANGED Local(g)
  BY <1>1 DEF Local, TypeOK, SchedTypeOK
<1>5. NoLostWakeup'
  BY <1>3, <1>4, AloneSleeps DEF NoLostWakeup, WakeInv
<1> QED
  BY <1>1, <1>5 DEF WakeInv, WaitForHasChild, Unjoined

(* Firing wakes every fiber it notifies. *)
LEMMA FireKeepsWake ==
    ASSUME TypeOK, NoLostWakeup, NEW st \in [Fiber -> State], NEW k \in Key, NEW fs \in SUBSET Fiber,
           Fire(st, k, fs), \A f \in fs : st[f] \in {"Suspended", "Ready"},
           UNCHANGED <<op, target>>,
           NEW g \in Fiber,
           g \notin fs => st[g] = state[g] /\ UNCHANGED <<children[g], finished[g]>>
    PROVE  SleepsSoundly(g)'
<1>1. /\ state' = [f \in Fiber |-> IF f \in Sleeping(st, fs) THEN "Ready" ELSE st[f]]
      /\ pending' = [f \in Fiber |-> IF f \in fs THEN [pending[f] EXCEPT ![k] = "Notified"]
                                                 ELSE pending[f]]
  BY DEF Fire, Schedule
<1>2. CASE g \in fs
  <2>1. state'[g] = "Ready"
    BY <1>1, <1>2 DEF Sleeping
  <2> QED
    BY <2>1 DEF SleepsSoundly, Live
<1>3. CASE g \notin fs
  <2>1. UNCHANGED Local(g)
    BY <1>1, <1>3 DEF Sleeping, Local
  <2> QED
    BY <2>1, AloneSleeps DEF NoLostWakeup
<1> QED
  BY <1>2, <1>3

LEMMA FireSourceKeepsWake ==
    ASSUME TypeOK, WakeInv, NEW k \in Source, FireSource(k)
    PROVE  WakeInv'
<1>1. CASE Schedulable(state, Waiters(k))
  <2>1. /\ state \in [Fiber -> State] /\ k \in Key /\ Waiters(k) \in SUBSET Fiber
        /\ \A f \in Waiters(k) : state[f] \in {"Suspended", "Ready"}
    BY <1>1 DEF TypeOK, SchedTypeOK, Key, Waiters, Schedulable
  <2>2. Fire(state, k, Waiters(k)) /\ UNCHANGED <<op, target, children, finished>>
    BY <1>1 DEF FireSource, treeVars
  <2>3. NoLostWakeup'
    BY <2>1, <2>2, FireKeepsWake DEF WakeInv, NoLostWakeup
  <2> QED
    BY <2>2, <2>3 DEF WakeInv, WaitForHasChild, Unjoined
<1>2. CASE ~Schedulable(state, Waiters(k))
  BY <1>2, UnchangedKeepsWake DEF FireSource, Fail, schedVars, treeVars, codeVars
<1> QED
  BY <1>1, <1>2

LEMMA SpawnKeepsWake ==
    ASSUME TypeOK, WakeInv, NEW f \in Fiber, NEW c \in Fiber, Spawn(f, c)
    PROVE  WakeInv'
<1>1. /\ state[f] = "Running" /\ state[c] = "Absent"
      /\ Schedule([state EXCEPT ![c] = "Suspended"], {c})
      /\ children' = [children EXCEPT ![f] = @ \cup {c}]
      /\ UNCHANGED <<pending, op, target, finished>>
  BY DEF Spawn, Runs, codeVars
<1>2. state'[c] = "Ready" /\ \A g \in Fiber \ {c} : state'[g] = state[g]
  BY <1>1 DEF Schedule, Sleeping, TypeOK, SchedTypeOK
<1>3. SleepsSoundly(c)'
  BY <1>2 DEF SleepsSoundly, Live
<1>4. SleepsSoundly(f)'
  BY <1>1, <1>2 DEF WakeInv, NoLostWakeup, SleepsSoundly, Live
<1>5. ASSUME NEW g \in Fiber \ {f, c} PROVE SleepsSoundly(g)'
  <2>1. UNCHANGED Local(g)
    BY <1>1, <1>2 DEF Local, TypeOK
  <2> QED
    BY <2>1, AloneSleeps DEF WakeInv, NoLostWakeup
<1>6. NoLostWakeup'
  BY <1>3, <1>4, <1>5 DEF NoLostWakeup
<1> QED
  BY <1>1, <1>6 DEF WakeInv, WaitForHasChild, Unjoined, TypeOK

LEMMA SpawnRootKeepsWake ==
    ASSUME TypeOK, WakeInv, SpawnRoot
    PROVE  WakeInv'
<1>1. /\ Schedule([state EXCEPT ![Root] = "Suspended"], {Root})
      /\ UNCHANGED <<children, pending, op, target, finished>>
      /\ Root \in Fiber
  BY FibersAssumption DEF SpawnRoot, codeVars
<1>2. state'[Root] = "Ready" /\ \A g \in Fiber \ {Root} : state'[g] = state[g]
  BY <1>1 DEF Schedule, Sleeping, TypeOK, SchedTypeOK
<1>3. SleepsSoundly(Root)'
  BY <1>2 DEF SleepsSoundly, Live
<1>4. ASSUME NEW g \in Fiber \ {Root} PROVE SleepsSoundly(g)'
  <2>1. UNCHANGED Local(g)
    BY <1>1, <1>2 DEF Local
  <2> QED
    BY <2>1, AloneSleeps DEF WakeInv, NoLostWakeup
<1>5. NoLostWakeup'
  BY <1>3, <1>4 DEF NoLostWakeup
<1> QED
  BY <1>1, <1>5 DEF WakeInv, WaitForHasChild, Unjoined

(* The finished child wakes its parent if it waits for children; a parent  *)
(* that it does not wake sleeps on something else.                          *)
LEMMA ChildFinishesKeepsWake ==
    ASSUME TypeOK, SchedInv, TreeOK, WakeInv, NEW f \in Fiber, ChildFinishes(f)
    PROVE  WakeInv'
<1> DEFINE fs(p) == {p} \cap Waiters(ChildDone)
<1>1. PICK p \in Fiber : parent[f] = p /\ OnChildFinished(f, p)
  BY DEF ChildFinishes
<1>2. state[f] = "Finishing" /\ f = running /\ f \in children[p]
  BY <1>1 DEF ChildFinishes, TreeOK, Live
<1>3. CASE Fail("Schedule")
  BY <1>3, UnchangedKeepsWake DEF Fail, schedVars, treeVars, codeVars
<1>4. CASE MovesChild(f, p, children[p] \ {f}, fs(p)) /\ Schedulable(state, fs(p))
  <2>1. /\ children' = [children EXCEPT ![p] = children[p] \ {f}]
        /\ finished' = [finished EXCEPT ![p] = @ \cup {f}]
        /\ Fire(Over(f), ChildDone, fs(p))
        /\ UNCHANGED <<op, target>>
    BY <1>4 DEF MovesChild
  <2>2. p # f /\ Unjoined(f) = {}
    BY <1>2 DEF TreeOK, Unjoined
  <2>3. Over(f) \in [Fiber -> State] /\ ChildDone \in Key /\ fs(p) \in SUBSET Fiber
    BY DEF Over, TypeOK, SchedTypeOK, State, Key
  <2>4. \A g \in fs(p) : Over(f)[g] \in {"Suspended", "Ready"}
    BY <1>4, <2>2 DEF Schedulable, Over, TypeOK, SchedTypeOK
  <2>5. ASSUME NEW g \in Fiber \ {f, p} PROVE SleepsSoundly(g)'
    <3>1. Over(f)[g] = state[g] /\ UNCHANGED <<children[g], finished[g]>>
      BY <2>1 DEF Over, TypeOK, SchedTypeOK
    <3> QED
      BY <2>1, <2>3, <2>4, <3>1, FireKeepsWake DEF WakeInv
  <2>6. SleepsSoundly(f)'
    <3>1. f \notin fs(p) /\ pending'[f] = pending[f] /\ state'[f] = "Finished"
      BY <2>1, <2>2 DEF Fire, Schedule, Sleeping, Over, TypeOK, SchedTypeOK
    <3> QED
      BY <1>2, <3>1 DEF WakeInv, NoLostWakeup, SleepsSoundly, NoAwaiter
  <2>7. SleepsSoundly(p)'
    <3>1. CASE p \in fs(p)
      BY <2>1, <2>3, <2>4, <3>1, FireKeepsWake DEF WakeInv
    <3>2. CASE p \notin fs(p)
      <4>1. pending'[p] = pending[p] /\ state'[p] = state[p] /\ op'[p] = op[p]
        BY <2>1, <2>2, <3>2 DEF Fire, Schedule, Sleeping, Over, TypeOK, SchedTypeOK
      <4>2. pending[p][ChildDone] # "Waiting"
        BY <3>2 DEF Waiters
      <4> QED
        BY <4>1, <4>2 DEF WakeInv, NoLostWakeup, SleepsSoundly, Live
    <3> QED
      BY <3>1, <3>2
  <2>8. NoLostWakeup'
    BY <2>5, <2>6, <2>7 DEF NoLostWakeup
  <2>9. \A g \in Fiber : Unjoined(g)' = Unjoined(g)
    BY <1>2, <2>1 DEF Unjoined, TypeOK
  <2> QED
    BY <2>1, <2>8, <2>9 DEF WakeInv, WaitForHasChild
<1> QED
  BY <1>1, <1>2, <1>3, <1>4 DEF OnChildFinished

LEMMA UserStepKeepsWake ==
    ASSUME TypeOK, WakeInv, NEW f \in Fiber, UserStep(f)
    PROVE  WakeInv'
<1>1. state[f] = "Running"
  BY DEF UserStep, Spawn, SpawnFails, TryJoin, CallJoin, Await, Yield, TryWait, CallWaitFor, CallWaitAll,
         Raise, Catch, Unhandled, Return, Runs
<1>2. ASSUME NEW assertion, Fail(assertion) PROVE WakeInv'
  BY <1>2, UnchangedKeepsWake DEF Fail, schedVars, treeVars, codeVars
<1>3. ASSUME NEW c \in Fiber, TryJoin(f, c) \/ CallJoin(f, c) PROVE WakeInv'
  BY <1>1, <1>2, <1>3, TakeKeepsWake, CallKeepsWake DEF TryJoin, CallJoin
<1>4. ASSUME NEW keys \in (SUBSET Key) \ {{}}, Await(f, keys) PROVE WakeInv'
  BY <1>4, SuspendKeepsWake DEF Await, Runs
<1>5. CASE Yield(f)
  <2>1. /\ state' = [state EXCEPT ![f] = "Yielding"]
        /\ UNCHANGED <<pending, op, target, children, finished>>
    BY <1>5 DEF Yield, OmniYield, treeVars, codeVars
  <2>2. state'[f] = "Yielding" /\ \A g \in Fiber \ {f} : UNCHANGED Local(g)
    BY <2>1 DEF Local, TypeOK, SchedTypeOK
  <2>3. NoLostWakeup'
    BY <1>1, <2>1, <2>2, AwakeKeepsWake DEF WakeInv, Live
  <2> QED
    BY <2>1, <2>3 DEF WakeInv, WaitForHasChild, Unjoined
<1>6. CASE TryWait(f)
  BY <1>1, <1>6, TakeKeepsWake DEF TryWait, TakeFirst
<1>7. CASE CallWaitFor(f) \/ CallWaitAll(f) \/ Raise(f) \/ Catch(f) \/ SpawnFails(f)
  BY <1>1, <1>2, <1>7, CallKeepsWake DEF SpawnFails, CallWaitFor, CallWaitAll, Raise, Catch
<1>8. CASE Unhandled(f) \/ Return(f)
  BY <1>1, <1>2, <1>8, FinishingKeepsWake DEF Unhandled, Return
<1> QED
  BY <1>3, <1>4, <1>5, <1>6, <1>7, <1>8, SpawnKeepsWake DEF UserStep

LEMMA LibraryStepKeepsWake ==
    ASSUME TypeOK, SchedInv, TreeOK, WakeInv, NEW f \in Fiber, LibraryStep(f)
    PROVE  WakeInv'
<1>1. {ChildDone} \in (SUBSET Key) \ {{}}
  BY DEF Key
<1>2. CASE JoinSuspends(f)
  BY <1>1, <1>2, SuspendKeepsWake DEF JoinSuspends, Runs
<1>3. CASE WaitSuspends(f)
  <2>1. finished[f] = {} /\ children[f] # {}
    BY <1>3 DEF WaitSuspends, Runs, WakeInv, WaitForHasChild, Unjoined
  <2>2. op[f] \in {"waitFor", "waitAll"}
    BY <1>3 DEF WaitSuspends, Runs
  <2> QED
    BY <1>1, <1>3, <2>1, <2>2, SuspendKeepsWake DEF WaitSuspends
<1>4. CASE JoinTakes(f) \/ WaitForTakes(f) \/ WaitAllTakes(f)
  BY <1>4, TakeKeepsWake DEF JoinTakes, WaitForTakes, WaitAllTakes, TakeFirst, Runs
<1>5. CASE WaitAllReturns(f)
  BY <1>5, CallKeepsWake DEF WaitAllReturns, Runs
<1>6. CASE ResumeParks(f)
  <2>1. /\ state' = [state EXCEPT ![f] = IF state[f] = "Suspending" THEN "Suspended" ELSE "Yielded"]
        /\ state[f] \in {"Suspending", "Yielding"}
        /\ UNCHANGED <<pending, op, target, children, finished>>
    BY <1>6 DEF ResumeParks, Parked, treeVars, codeVars
  <2>2. SleepsSoundly(f)'
    BY <2>1 DEF WakeInv, NoLostWakeup, SleepsSoundly, Live, TypeOK, SchedTypeOK
  <2>3. \A g \in Fiber \ {f} : UNCHANGED Local(g)
    BY <2>1 DEF Local, TypeOK, SchedTypeOK
  <2>4. NoLostWakeup'
    BY <2>2, <2>3, AloneSleeps DEF WakeInv, NoLostWakeup
  <2> QED
    BY <2>1, <2>4 DEF WakeInv, WaitForHasChild, Unjoined
<1>7. CASE RootFinishes(f)
  <2>1. /\ state[f] = "Finishing" /\ state' = [state EXCEPT ![f] = "Finished"]
        /\ UNCHANGED <<pending, op, target, children, finished>>
    BY <1>7 DEF RootFinishes, Over, treeVars, codeVars
  <2>2. state'[f] = "Finished" /\ \A g \in Fiber \ {f} : UNCHANGED Local(g)
    BY <2>1 DEF Local, TypeOK, SchedTypeOK
  <2>3. pending'[f] = NoAwaiter
    BY <2>1 DEF WakeInv, NoLostWakeup, SleepsSoundly
  <2>4. NoLostWakeup'
    BY <2>1, <2>2, <2>3, AwakeKeepsWake DEF WakeInv
  <2> QED
    BY <2>1, <2>4 DEF WakeInv, WaitForHasChild, Unjoined
<1> QED
  BY <1>2, <1>3, <1>4, <1>5, <1>6, <1>7, ChildFinishesKeepsWake DEF LibraryStep

LEMMA RunFiberKeepsWake ==
    ASSUME TypeOK, SchedInv, WakeInv, RunFiber
    PROVE  WakeInv'
<1>1. PICK f \in Fiber : Resume(f) /\ running' = f
  BY RunReadyKeeps, RunYieldedKeeps DEF RunFiber, RunReady, RunYielded, Resume
<1>2. /\ state' = [state EXCEPT ![f] = "Running"]
      /\ UNCHANGED <<op, target, children, finished>>
  BY <1>1 DEF RunFiber, Resume, treeVars
<1>3. PICK left \in SUBSET Listed :
         pending' = [pending EXCEPT ![f] = [k \in Key |-> IF k \in left THEN @[k] ELSE "none"]]
  BY <1>1 DEF RunFiber
<1>4. SleepsSoundly(f)' /\ \A g \in Fiber \ {f} : UNCHANGED Local(g)
  <2>1. state'[f] = "Running" /\ \A k \in Key \ Listed : pending'[f][k] = "none"
    BY <1>2, <1>3 DEF TypeOK, SchedTypeOK
  <2>2. SleepsSoundly(f)'
    BY <2>1 DEF SleepsSoundly, Live
  <2>3. \A g \in Fiber \ {f} : UNCHANGED Local(g)
    BY <1>2, <1>3 DEF Local, TypeOK, SchedTypeOK
  <2> QED
    BY <2>2, <2>3
<1>5. NoLostWakeup'
  BY <1>4, AloneSleeps DEF WakeInv, NoLostWakeup
<1> QED
  BY <1>2, <1>5 DEF WakeInv, WaitForHasChild, Unjoined

LEMMA WakeStep == TypeOK /\ SchedInv /\ TreeOK /\ WakeInv /\ [Next]_vars => WakeInv'
<1> SUFFICES ASSUME TypeOK, SchedInv, TreeOK, WakeInv, [Next]_vars PROVE WakeInv'
  OBVIOUS
<1>1. CASE RunnerStart \/ RunEnd \/ Idle \/ UNCHANGED vars
  BY <1>1, UnchangedKeepsWake DEF RunnerStart, RunEnd, Idle, vars, schedVars, treeVars, codeVars
<1>2. CASE RunFiber
  BY <1>2, RunFiberKeepsWake
<1>3. ASSUME NEW c \in Fiber, Release(c) PROVE WakeInv'
  <2>1. /\ state[c] = "Finished" /\ state' = [state EXCEPT ![c] = "Absent"]
        /\ UNCHANGED <<pending, op, target, children, finished>>
    BY <1>3 DEF Release, codeVars
  <2>2. state'[c] = "Absent" /\ \A g \in Fiber \ {c} : UNCHANGED Local(g)
    BY <2>1 DEF Local, TypeOK, SchedTypeOK
  <2>3. pending'[c] = NoAwaiter
    BY <2>1 DEF WakeInv, NoLostWakeup, SleepsSoundly, Live
  <2>4. NoLostWakeup'
    BY <2>1, <2>2, <2>3, AwakeKeepsWake DEF WakeInv
  <2> QED
    BY <2>1, <2>4 DEF WakeInv, WaitForHasChild, Unjoined
<1> QED
  BY <1>1, <1>2, <1>3, SpawnRootKeepsWake, FireSourceKeepsWake, UserStepKeepsWake,
     LibraryStepKeepsWake DEF Next

(* No wake-up is lost: a fiber that sleeps has something to wait for, has   *)
(* not been notified, and sleeps in Join or WaitFor only while the child it *)
(* waits for has not finished.                                              *)
THEOREM NoLostWakeupCorrect == Spec => []NoLostWakeup
<1>1. Init => WakeInv
  BY DEF Init, WakeInv, NoLostWakeup, SleepsSoundly, WaitForHasChild, NoAwaiter
<1>2. TypeOK /\ OneRunner /\ SchedInv /\ TreeOK /\ WakeInv /\ [Next]_vars
         => TypeOK' /\ OneRunner' /\ SchedInv' /\ TreeOK' /\ WakeInv'
  BY TypeStep, RunnerStep, SchedStep, TreeStep, WakeStep
<1>3. Init => TreeOK
  BY FibersAssumption, FiberAssumption DEF Init, TreeOK, Unjoined, Live
<1>4. WakeInv => NoLostWakeup
  BY DEF WakeInv
<1> QED
  BY <1>1, <1>2, <1>3, <1>4, TypeAndRunnerInit, SchedInit, PTL DEF Spec

(***************************************************************************
Exceptions and assertions.
***************************************************************************)

(* A step that takes no child out of a parent's care delivers nothing. *)
LEMMA TakeDelivers ==
    ASSUME TypeOK, NEW f \in Fiber, running = f, NEW d \in finished[f],
           NEW then \in {"user", "waitAll"}, Take(f, d, then),
           NEW p \in Fiber, NEW c \in Fiber, c \in Unjoined(p), c \notin Unjoined(p)'
    PROVE  /\ c \in finished[p]
           /\ running = p
           /\ op'[p] = "throw" <=> c \in exception
           /\ op'[p] = "throw" => target'[p] = c
<1>1. /\ finished' = [finished EXCEPT ![f] = @ \ {d}] /\ children' = children
      /\ op' = [op EXCEPT ![f] = IF d \in exception THEN "throw" ELSE then]
      /\ target' = [target EXCEPT ![f] = IF d \in exception THEN d ELSE None]
  BY DEF Take
<1>2. p = f /\ c = d
  BY <1>1 DEF Unjoined, TypeOK
<1>3. op'[f] = (IF d \in exception THEN "throw" ELSE then) /\ (d \in exception => target'[f] = d)
  BY <1>1 DEF TypeOK
<1> QED
  BY <1>2, <1>3

(* The exception of a child leaves with it: a join throws if and only if    *)
(* the child failed.                                                        *)
THEOREM ExceptionsDeliveredCorrect == Spec => ExceptionsDelivered
<1> DEFINE Delivers == \A p, c \in Fiber : c \in Unjoined(p) /\ c \notin Unjoined(p)' =>
                          /\ c \in finished[p]
                          /\ running = p
                          /\ op'[p] = "throw" <=> c \in exception
                          /\ op'[p] = "throw" => target'[p] = c
<1>1. TypeOK /\ [Next]_vars => [Delivers]_vars
  <2> SUFFICES ASSUME TypeOK, [Next]_vars PROVE Delivers
    OBVIOUS
  <2>1. ASSUME \A p \in Fiber : Unjoined(p) \subseteq Unjoined(p)' PROVE Delivers
    BY <2>1
  <2>2. CASE UNCHANGED <<children, finished>>
    BY <2>1, <2>2 DEF Unjoined
  <2>3. ASSUME NEW f \in Fiber, running = f, NEW d \in finished[f],
               NEW then \in {"user", "waitAll"}, Take(f, d, then)
        PROVE  Delivers
    BY <2>3, TakeDelivers
  <2>4. ASSUME NEW f \in Fiber, NEW c \in Fiber, Spawn(f, c) PROVE Delivers
    BY <2>1, <2>4 DEF Spawn, Unjoined, TypeOK
  <2>5. ASSUME NEW f \in Fiber, ChildFinishes(f) PROVE Delivers
    BY <2>1, <2>2, <2>5 DEF ChildFinishes, OnChildFinished, MovesChild, Fail, treeVars, Unjoined, TypeOK
  <2>6. ASSUME NEW f \in Fiber, UserStep(f) PROVE Delivers
    <3>1. CASE \E c \in Fiber : Spawn(f, c)
      BY <2>4, <3>1
    <3>2. CASE \E c \in Fiber : TryJoin(f, c) \/ CallJoin(f, c)
      BY <2>2, <2>3, <3>2 DEF TryJoin, CallJoin, Runs, Fail, Call, treeVars
    <3>3. CASE TryWait(f)
      BY <2>3, <3>3 DEF TryWait, TakeFirst, Runs
    <3>4. CASE \E keys \in (SUBSET Key) \ {{}} : Await(f, keys)
      BY <2>2, <3>4 DEF Await, SuspendOn, treeVars
    <3>5. CASE \/ Yield(f) \/ CallWaitFor(f) \/ CallWaitAll(f) \/ Raise(f) \/ Catch(f)
                \/ SpawnFails(f)
      BY <2>2, <3>5 DEF SpawnFails, Yield, CallWaitFor, CallWaitAll, Raise, Catch, Call, Fail, treeVars
    <3>6. CASE Unhandled(f) \/ Return(f)
      BY <2>2, <3>6 DEF Unhandled, Return, Finishing, Fail, treeVars
    <3> QED
      BY <2>6, <3>1, <3>2, <3>3, <3>4, <3>5, <3>6 DEF UserStep
  <2>7. ASSUME NEW f \in Fiber, LibraryStep(f) PROVE Delivers
    <3>1. CASE JoinTakes(f) \/ WaitForTakes(f) \/ WaitAllTakes(f)
      BY <2>3, <3>1 DEF JoinTakes, WaitForTakes, WaitAllTakes, TakeFirst, Runs
    <3>2. CASE JoinSuspends(f) \/ WaitSuspends(f) \/ WaitAllReturns(f) \/ ResumeParks(f) \/ RootFinishes(f)
      BY <2>2, <3>2 DEF JoinSuspends, WaitSuspends, SuspendOn, WaitAllReturns, Call, ResumeParks,
                        RootFinishes, treeVars
    <3> QED
      BY <2>5, <2>7, <3>1, <3>2 DEF LibraryStep
  <2>8. CASE SpawnRoot \/ RunnerStart \/ RunFiber \/ RunEnd \/ Idle \/ UNCHANGED vars
    BY <2>2, <2>8 DEF SpawnRoot, RunnerStart, RunFiber, RunEnd, Idle, vars, treeVars
  <2>9. ASSUME NEW f \in Fiber, Release(f) PROVE Delivers
    BY <2>2, <2>9 DEF Release
  <2>10. ASSUME NEW k \in Source, FireSource(k) PROVE Delivers
    BY <2>2, <2>10 DEF FireSource, Fail, treeVars
  <2> QED
    BY <2>6, <2>7, <2>8, <2>9, <2>10 DEF Next
<1> QED
  BY <1>1, TypeCorrect, PTL DEF Spec, ExceptionsDelivered

(* Which assertions a step can fail, and for what.                          *)
Misuse == {"Spawn", "TryJoin", "WaitFor", "SetException", "Finishing"}

LEMMA StepFails ==
    ASSUME TypeOK, SchedInv, TreeOK, NoLostWakeup, [Next]_vars
    PROVE  \/ UNCHANGED vars
           \/ failed' = "nothing"
           \/ failed' \in Misuse /\ Careless
           \/ failed' = "Schedule" /\ LeftBehind'
<1> DEFINE Goal == \/ failed' = "nothing"
                   \/ failed' \in Misuse /\ Careless
                   \/ failed' = "Schedule" /\ LeftBehind'
<1>1. \A f \in Fiber, k \in Key \ Listed :
         pending[f][k] = "Waiting" => state[f] \in {"Suspending", "Suspended", "Ready"}
  BY DEF NoLostWakeup, SleepsSoundly
<1>2. \A f \in Fiber : state[f] = "Suspending" => f = running
  BY DEF SchedInv, StackOK
<1>3. ASSUME NEW k \in Source, FireSource(k) PROVE Goal
  <2>1. CASE Schedulable(state, Waiters(k))
    BY <1>3, <2>1 DEF FireSource, Alive
  <2>2. CASE ~Schedulable(state, Waiters(k))
    <3>1. PICK f \in Fiber : pending[f][k] = "Waiting" /\ state[f] \notin {"Suspended", "Ready"}
      BY <2>2 DEF Schedulable, Waiters
    <3>2. state[f] # "Suspending"
      BY <1>2, <1>3, FiberAssumption DEF FireSource
    <3>3. k \in Listed
      BY <1>1, <3>1, <3>2 DEF Key
    <3>4. failed' = "Schedule" /\ UNCHANGED <<state, pending>>
      BY <1>3, <2>2 DEF FireSource, Fail, schedVars, codeVars
    <3> QED
      BY <3>1, <3>3, <3>4 DEF LeftBehind
  <2> QED
    BY <2>1, <2>2
<1>4. ASSUME NEW f \in Fiber, ChildFinishes(f) PROVE Goal
  <2>1. PICK p \in Fiber : parent[f] = p /\ OnChildFinished(f, p)
    BY <1>4 DEF ChildFinishes
  <2>2. f = running /\ state[f] = "Finishing" /\ f \in children[p] /\ failed = "nothing"
    BY <1>4, <2>1 DEF ChildFinishes, TreeOK, Live, Alive
  <2>3. ChildDone \in Key \ Listed
    BY FibersAssumption DEF Key
  <2>4. Schedulable(state, {p} \cap Waiters(ChildDone))
    BY <1>1, <1>2, <2>2, <2>3 DEF Schedulable, Waiters
  <2> QED
    BY <2>1, <2>2, <2>4 DEF OnChildFinished, MovesChild
<1>5. ASSUME NEW f \in Fiber, UserStep(f) PROVE Goal
  BY <1>5 DEF UserStep, Spawn, SpawnFails, TryJoin, CallJoin, Await, SuspendOn, Yield, TryWait,
              TakeFirst, Take, CallWaitFor, CallWaitAll, Raise, Catch, Call, Unhandled, Return,
              Finishing, Fail, Runs, Alive, Misuse
<1>6. ASSUME NEW f \in Fiber, LibraryStep(f) PROVE Goal
  BY <1>4, <1>6 DEF LibraryStep, JoinTakes, JoinSuspends, WaitSuspends, SuspendOn, WaitForTakes,
              WaitAllTakes, TakeFirst, Take, WaitAllReturns, Call, ResumeParks, RootFinishes, Runs,
              Alive
<1>7. CASE SpawnRoot \/ RunnerStart \/ RunFiber \/ RunEnd
  BY <1>7 DEF SpawnRoot, RunnerStart, RunFiber, RunEnd, Alive
<1>8. ASSUME NEW f \in Fiber, Release(f) PROVE Goal
  BY <1>8 DEF Release, Alive
<1> QED
  BY <1>3, <1>5, <1>6, <1>7, <1>8 DEF Next, Idle

(* No assertion that Assertion names fails, in any run of a program that    *)
(* keeps the rules for clients and awaits no dynamic list.                  *)
THEOREM NoFailureCorrect ==
    ASSUME ~Careless, Listed = {}
    PROVE  Spec => []NoFailure
<1>1. Init => NoFailure
  BY DEF Init, NoFailure
<1>2. TypeOK /\ QueueOK /\ StackOK => SchedInv
  BY DEF SchedInv, TypeOK
<1>3. TypeOK /\ SchedInv /\ TreeOK /\ NoLostWakeup /\ NoFailure /\ [Next]_vars => NoFailure'
  <2>1. ~LeftBehind'
    BY DEF LeftBehind
  <2> QED
    BY <2>1, StepFails DEF NoFailure, vars
<1> QED
  BY <1>1, <1>2, <1>3, TypeCorrect, QueuesCorrect, StackCorrect, TreeCorrect, NoLostWakeupCorrect,
     PTL DEF Spec

(* Whatever the program does, an assertion of the library's own bookkeeping *)
(* fails only for an awaiter that a dynamic list left behind.               *)
THEOREM BookkeepingCorrect == Spec => []BookkeepingHolds
<1>1. Init => BookkeepingHolds
  BY DEF Init, BookkeepingHolds
<1>2. TypeOK /\ QueueOK /\ StackOK => SchedInv
  BY DEF SchedInv, TypeOK
<1>3. TypeOK /\ SchedInv /\ TreeOK /\ NoLostWakeup /\ BookkeepingHolds /\ [Next]_vars
         => BookkeepingHolds'
  <2> SUFFICES ASSUME TypeOK, SchedInv, TreeOK, NoLostWakeup, BookkeepingHolds, [Next]_vars
               PROVE  BookkeepingHolds'
    OBVIOUS
  <2>1. CASE UNCHANGED vars
    BY <2>1 DEF BookkeepingHolds, LeftBehind, vars, schedVars, codeVars
  <2> QED
    BY <2>1, StepFails DEF BookkeepingHolds, Misuse
<1> QED
  BY <1>1, <1>2, <1>3, TypeCorrect, QueuesCorrect, StackCorrect, TreeCorrect, NoLostWakeupCorrect,
     PTL DEF Spec

-----------------------------------------------------------------------------
(***************************************************************************
No fiber is left in a queue without a Runner, as long as no root is spawned
after one that failed.  Executing can only be stale after a failed root; then
no fiber lives that could be scheduled, since every live one descends from
the root: there is no set of fibers that are each other's children.
***************************************************************************)
Rooted ==
    \A S \in SUBSET (Fiber \ {Root}) : (\A c \in S : \E p \in S : c \in children[p]) => S = {}

StaleAfterFailure == executing /\ ~looping => state[Root] = "Finished" /\ Root \in exception

LEMMA RootedStep == TypeOK /\ TreeOK /\ Rooted /\ [Next]_vars => Rooted'
<1> SUFFICES ASSUME TypeOK, TreeOK, Rooted, [Next]_vars PROVE Rooted'
  OBVIOUS
<1>1. ASSUME \A p \in Fiber : children'[p] \subseteq children[p] PROVE Rooted'
  BY <1>1 DEF Rooted
<1>2. ASSUME UNCHANGED children PROVE Rooted'
  BY <1>2 DEF Rooted
<1>3. ASSUME NEW f \in Fiber, NEW c \in Fiber, Spawn(f, c) PROVE Rooted'
  <2>1. /\ children' = [children EXCEPT ![f] = @ \cup {c}]
        /\ state[c] = "Absent" /\ state[f] = "Running" /\ f # c
    BY <1>3 DEF Spawn, Runs
  <2>2. children'[c] = {}
    BY <2>1 DEF TreeOK, Unjoined, Live, TypeOK
  <2>3. \A p \in Fiber : children'[p] \subseteq children[p] \cup {c}
    BY <2>1 DEF TypeOK
  <2> SUFFICES ASSUME NEW S \in SUBSET (Fiber \ {Root}),
                      \A d \in S : \E p \in S : d \in children'[p], S # {}
               PROVE  FALSE
    BY DEF Rooted
  <2>4. \A d \in S \ {c} : \E p \in S \ {c} : d \in children[p]
    BY <2>2, <2>3
  <2>5. S \ {c} = {}
    BY <2>4 DEF Rooted
  <2> QED
    BY <2>2, <2>5
<1>4. ASSUME NEW f \in Fiber, ChildFinishes(f) PROVE Rooted'
  <2>1. PICK p \in Fiber : OnChildFinished(f, p)
    BY <1>4 DEF ChildFinishes
  <2> QED
    BY <1>1, <1>2, <2>1 DEF OnChildFinished, MovesChild, Fail, treeVars, TypeOK
<1>5. ASSUME NEW f \in Fiber, UserStep(f) PROVE Rooted'
  BY <1>2, <1>3, <1>5
     DEF UserStep, SpawnFails, TryJoin, CallJoin, Await, SuspendOn, Yield, TryWait, TakeFirst, Take, CallWaitFor,
         CallWaitAll, Raise, Catch, Call, Unhandled, Return, Finishing, Fail, treeVars
<1>6. ASSUME NEW f \in Fiber, LibraryStep(f) PROVE Rooted'
  BY <1>2, <1>4, <1>6
     DEF LibraryStep, JoinTakes, JoinSuspends, WaitSuspends, SuspendOn, WaitForTakes, WaitAllTakes,
         TakeFirst, Take, WaitAllReturns, Call, ResumeParks, RootFinishes, treeVars
<1>7. CASE SpawnRoot \/ RunnerStart \/ RunFiber \/ RunEnd \/ Idle \/ UNCHANGED vars
  BY <1>2, <1>7 DEF SpawnRoot, RunnerStart, RunFiber, RunEnd, Idle, vars, treeVars
<1>8. ASSUME NEW f \in Fiber, Release(f) PROVE Rooted'
  BY <1>2, <1>8 DEF Release
<1>9. ASSUME NEW k \in Source, FireSource(k) PROVE Rooted'
  BY <1>2, <1>9 DEF FireSource, Fail, treeVars
<1> QED
  BY <1>5, <1>6, <1>7, <1>8, <1>9 DEF Next

LEMMA DeadRootNoFibers ==
    ASSUME TypeOK, TreeOK, Rooted, ~Live(Root)
    PROVE  \A c \in Fiber : ~Live(c)
<1> DEFINE S == {c \in Fiber : Live(c)}
<1>1. S \in SUBSET (Fiber \ {Root})
  OBVIOUS
<1>2. ASSUME NEW c \in S PROVE \E p \in S : c \in children[p]
  <2>1. parent[c] \in Fiber
    BY DEF TreeOK, Live, TypeOK
  <2>2. c \in children[parent[c]]
    BY <2>1 DEF TreeOK
  <2>3. Live(parent[c])
    BY <2>1, <2>2 DEF TreeOK, Unjoined
  <2> QED
    BY <2>1, <2>2, <2>3
<1>3. S = {}
  BY <1>1, <1>2 DEF Rooted
<1> QED
  BY <1>3

LEMMA StrandedStep ==
    ASSUME "threw" \notin Respawn, TypeOK, OneRunner, SchedInv, TreeOK, NoLostWakeup, Rooted,
           NoStrandedFiber, StaleAfterFailure, [Next]_vars
    PROVE  NoStrandedFiber' /\ StaleAfterFailure'
<1> USE DEF NoStrandedFiber, StaleAfterFailure
<1>1. /\ posted \in BOOLEAN /\ looping \in BOOLEAN /\ executing \in BOOLEAN /\ runners \in Nat
      /\ readyQueue \in Seq(Fiber) /\ yieldQueue \in Seq(Fiber)
  BY DEF TypeOK, SchedTypeOK
<1>2. ASSUME UNCHANGED runVars, looping \/ UNCHANGED <<readyQueue, yieldQueue, state, exception>>
      PROVE  NoStrandedFiber' /\ StaleAfterFailure'
  BY <1>1, <1>2 DEF runVars, OneRunner
<1>3. ASSUME looping, NEW pushed \in BOOLEAN, Post(pushed)
      PROVE  NoStrandedFiber' /\ StaleAfterFailure'
  BY <1>1, <1>3 DEF Post, OneRunner
<1>4. \A f \in Fiber : running = f => looping
  BY FiberAssumption DEF OneRunner
<1>5. CASE SpawnRoot
  <2>1. ~executing /\ ~looping
    BY <1>1, <1>5 DEF SpawnRoot, RootOutcome
  <2>2. Post(TRUE)
    BY <1>5 DEF SpawnRoot
  <2> QED
    BY <1>1, <2>1, <2>2 DEF Post, OneRunner
<1>6. CASE RunnerStart
  BY <1>1, <1>6 DEF RunnerStart, schedVars
<1>7. CASE RunFiber
  BY <1>2, <1>7 DEF RunFiber
<1>8. CASE RunEnd
  <2>1. readyQueue' = <<>> /\ yieldQueue' = <<>>
    BY <1>8 DEF RunEnd, schedVars
  <2>2. Len(readyQueue') + Len(yieldQueue') = 0
    BY <2>1
  <2>3. StaleAfterFailure'
    BY <1>8 DEF RunEnd, schedVars, treeVars
  <2> QED
    BY <2>2, <2>3
<1>9. ASSUME NEW f \in Fiber, UserStep(f) PROVE NoStrandedFiber' /\ StaleAfterFailure'
  <2>1. looping
    BY <1>4, <1>9
       DEF UserStep, Spawn, SpawnFails, TryJoin, CallJoin, Await, Yield, TryWait, CallWaitFor, CallWaitAll,
           Raise, Catch, Unhandled, Return, Runs
  <2>2. Post(TRUE) \/ UNCHANGED runVars
    BY <1>9
       DEF UserStep, Spawn, SpawnFails, TryJoin, CallJoin, Await, SuspendOn, Yield, TryWait, TakeFirst, Take,
           CallWaitFor, CallWaitAll, Raise, Catch, Call, Unhandled, Return, Finishing, Fail
  <2> QED
    BY <1>2, <1>3, <2>1, <2>2
<1>10. ASSUME NEW f \in Fiber, LibraryStep(f) PROVE NoStrandedFiber' /\ StaleAfterFailure'
  <2>1. looping
    BY <1>4, <1>10
       DEF LibraryStep, JoinTakes, JoinSuspends, WaitSuspends, WaitForTakes, WaitAllTakes,
           WaitAllReturns, ResumeParks, Parked, RootFinishes, ChildFinishes, Runs
  <2>2. CASE ChildFinishes(f)
    <3>1. PICK p \in Fiber : OnChildFinished(f, p)
      BY <2>2 DEF ChildFinishes
    <3>2. CASE Fail("OnChildFinished") \/ Fail("Schedule")
      BY <1>2, <2>1, <3>2 DEF Fail
    <3>3. ASSUME NEW woken, MovesChild(f, p, children[p] \ {f}, woken)
          PROVE  NoStrandedFiber' /\ StaleAfterFailure'
      <4>1. (Sleeping(Over(f), woken) # {}) \in BOOLEAN
        OBVIOUS
      <4> QED
        BY <1>3, <2>1, <3>3, <4>1 DEF MovesChild, Fire
    <3> QED
      BY <3>1, <3>2, <3>3 DEF OnChildFinished
  <2>3. CASE ~ChildFinishes(f)
    <3>1. UNCHANGED runVars
      BY <1>10, <2>3
         DEF LibraryStep, JoinTakes, JoinSuspends, WaitSuspends, SuspendOn, WaitForTakes,
             WaitAllTakes, TakeFirst, Take, WaitAllReturns, Call, ResumeParks, RootFinishes
    <3> QED
      BY <1>2, <2>1, <3>1
  <2> QED
    BY <2>2, <2>3
<1>11. ASSUME NEW c \in Fiber, Release(c) PROVE NoStrandedFiber' /\ StaleAfterFailure'
  BY <1>1, <1>11, FibersAssumption DEF Release, runVars, TypeOK, SchedTypeOK
<1>12. ASSUME NEW k \in Source, FireSource(k) PROVE NoStrandedFiber' /\ StaleAfterFailure'
  <2>1. CASE Fail("Schedule")
    BY <1>2, <2>1 DEF Fail, schedVars, treeVars
  <2>2. CASE Fire(state, k, Waiters(k)) /\ UNCHANGED <<yieldQueue, exception>>
    <3>1. CASE looping
      <4>1. (Sleeping(state, Waiters(k)) # {}) \in BOOLEAN
        OBVIOUS
      <4> QED
        BY <1>3, <2>2, <3>1, <4>1 DEF Fire
    <3>2. CASE ~looping
      <4>1. PICK f \in Fiber : pending[f][k] = "Waiting"
        BY <1>12 DEF FireSource, Waiters
      <4>2. Live(f)
        BY <4>1 DEF NoLostWakeup, SleepsSoundly, NoAwaiter, Live, Key
      <4>3. Live(Root)
        BY <4>2, DeadRootNoFibers
      <4>4. ~executing
        BY <1>1, <3>2, <4>3 DEF Live
      <4>5. CASE Sleeping(state, Waiters(k)) = {}
        <5>1. readyQueue' = readyQueue
          <6>1. state \in [Fiber -> State] /\ Waiters(k) \in SUBSET Fiber
            BY DEF TypeOK, SchedTypeOK, Waiters
          <6> QED
            BY <1>1, <2>2, <4>5, <6>1, ScheduleNobody DEF Fire
        <5> QED
          BY <1>1, <2>2, <3>2, <4>4, <4>5, <5>1 DEF Fire, Post
      <4>6. CASE Sleeping(state, Waiters(k)) # {}
        BY <1>1, <2>2, <3>2, <4>4, <4>6 DEF Fire, Post, OneRunner
      <4> QED
        BY <4>5, <4>6
    <3> QED
      BY <1>1, <3>1, <3>2
  <2> QED
    BY <1>12, <2>1, <2>2 DEF FireSource, treeVars
<1>13. CASE Idle \/ UNCHANGED vars
  BY <1>2, <1>13 DEF Idle, vars, schedVars, treeVars
<1> QED
  BY <1>5, <1>6, <1>7, <1>8, <1>9, <1>10, <1>11, <1>12, <1>13 DEF Next

(* A fiber that the Manager has queued has a Runner, in any program that    *)
(* spawns no root after a root that failed.                                 *)
THEOREM NoStrandedFiberCorrect ==
    ASSUME "threw" \notin Respawn
    PROVE  Spec => []NoStrandedFiber
<1>1. Init => Rooted /\ NoStrandedFiber /\ StaleAfterFailure
  BY DEF Init, Rooted, NoStrandedFiber, StaleAfterFailure
<1>2. TypeOK /\ QueueOK /\ StackOK => SchedInv
  BY DEF SchedInv, TypeOK
<1>3. TypeOK /\ TreeOK /\ Rooted /\ [Next]_vars => Rooted'
  BY RootedStep
<1>4. TypeOK /\ OneRunner /\ SchedInv /\ TreeOK /\ NoLostWakeup /\ Rooted /\ NoStrandedFiber
         /\ StaleAfterFailure /\ [Next]_vars
         => NoStrandedFiber' /\ StaleAfterFailure'
  BY StrandedStep
<1> QED
  BY <1>1, <1>2, <1>3, <1>4, TypeCorrect, OneRunnerCorrect, QueuesCorrect, StackCorrect, TreeCorrect,
     NoLostWakeupCorrect, PTL DEF Spec

(* A root that has ended leaves no fiber, nothing queued and no awaiter,    *)
(* whatever its program did.                                                *)
THEOREM RootLastCorrect == Spec => []RootLast
<1>1. Init => Rooted
  BY DEF Init, Rooted
<1>2. TypeOK /\ TreeOK /\ Rooted /\ [Next]_vars => Rooted'
  BY RootedStep
<1>3. ASSUME TypeOK, QueueOK, TreeOK, NoLostWakeup, Rooted PROVE RootLast
  <2> SUFFICES ASSUME ~Live(Root)
               PROVE  /\ \A f \in Fiber : ~Live(f) /\ pending[f] = NoAwaiter
                      /\ readyQueue = <<>> /\ yieldQueue = <<>>
    BY DEF RootLast
  <2>1. \A f \in Fiber : ~Live(f)
    BY <1>3, DeadRootNoFibers
  <2>2. \A f \in Fiber : pending[f] = NoAwaiter
    BY <1>3, <2>1 DEF NoLostWakeup, SleepsSoundly, Live
  <2>3. \A f \in Fiber : f \notin Members(readyQueue) /\ f \notin Members(yieldQueue)
    BY <1>3, <2>1 DEF QueueOK, Live
  <2>4. ASSUME NEW q \in Seq(Fiber), \A f \in Fiber : f \notin Members(q) PROVE q = <<>>
    <3>1. ASSUME q # <<>> PROVE FALSE
      <4>1. 1 \in 1 .. Len(q) /\ q[1] \in Fiber
        BY <3>1
      <4> QED
        BY <2>4, <4>1 DEF Members
    <3> QED
      BY <3>1
  <2>5. readyQueue \in Seq(Fiber) /\ yieldQueue \in Seq(Fiber)
    BY <1>3 DEF TypeOK, SchedTypeOK
  <2>6. readyQueue = <<>> /\ yieldQueue = <<>>
    BY <2>3, <2>4, <2>5
  <2> QED
    BY <2>1, <2>2, <2>6
<1> QED
  BY <1>1, <1>2, <1>3, TypeCorrect, QueuesCorrect, TreeCorrect, NoLostWakeupCorrect, PTL DEF Spec

(* A dump that follows children from the root misses no fiber that lives. *)
THEOREM DumpReachesAllCorrect == Spec => []DumpReachesAll
<1>1. Init => Rooted
  BY DEF Init, Rooted
<1>2. TypeOK /\ TreeOK /\ Rooted /\ [Next]_vars => Rooted'
  BY RootedStep
<1>3. ASSUME TypeOK, TreeOK, Rooted PROVE DumpReachesAll
  <2> SUFFICES ASSUME NEW S \in SUBSET Fiber, Root \in S, \A p \in S : children[p] \subseteq S
               PROVE  \A f \in Fiber : Live(f) => f \in S
    BY DEF DumpReachesAll
  <2> DEFINE missed == {f \in Fiber : Live(f) /\ f \notin S}
  <2>1. missed \in SUBSET (Fiber \ {Root})
    OBVIOUS
  <2>2. ASSUME NEW c \in missed PROVE \E p \in missed : c \in children[p]
    <3>1. parent[c] \in Fiber
      BY <1>3, <2>1 DEF TreeOK, Live, TypeOK
    <3>2. c \in children[parent[c]]
      BY <1>3, <3>1 DEF TreeOK
    <3>3. Live(parent[c]) /\ parent[c] \notin S
      BY <1>3, <3>1, <3>2 DEF TreeOK, Unjoined
    <3> QED
      BY <3>1, <3>2, <3>3
  <2>3. missed = {}
    <3> HIDE DEF missed
    <3> QED
      BY <1>3, <2>1, <2>2 DEF Rooted
  <2> QED
    BY <2>3
<1> QED
  BY <1>1, <1>2, <1>3, TypeCorrect, TreeCorrect, PTL DEF Spec

=============================================================================
