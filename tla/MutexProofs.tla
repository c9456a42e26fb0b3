---------------------------- MODULE MutexProofs ----------------------------
(***************************************************************************
Mutex keeps the scheduler's queues and stack, excludes, keeps its wait list,
and never leaves a free lock to sleepers.
***************************************************************************)
EXTENDS Mutex, ProgramProofs

-----------------------------------------------------------------------------
(* Taking an element out of a queue. *)
LEMMA QueueWithout ==
    ASSUME NEW q \in Seq(Fiber), NEW f \in Fiber, NoRepeats(q)
    PROVE  /\ Without(q, f) \in Seq(Fiber)
           /\ NoRepeats(Without(q, f))
           /\ Members(Without(q, f)) = Members(q) \ {f}
<1>1. CASE f \notin Members(q)
  BY <1>1 DEF Without
<1>2. CASE f \in Members(q)
  <2>1. PICK i \in 1 .. Len(q) : q[i] = f /\ Without(q, f) = RemoveAt(q, i)
    BY <1>2 DEF Without, Members
  <2> DEFINE a == SubSeq(q, 1, i - 1)
             b == SubSeq(q, i + 1, Len(q))
  <2>2. /\ Len(q) \in Nat /\ i \in 1 .. Len(q)
        /\ 1 \in 1 .. Len(q) + 1 /\ i - 1 \in 0 .. Len(q)
        /\ i + 1 \in 1 .. Len(q) + 1 /\ Len(q) \in 0 .. Len(q)
    OBVIOUS
  <2>3. /\ a \in Seq(Fiber) /\ Len(a) = i - 1
        /\ \A j \in 1 .. i - 1 : a[j] = q[j]
    BY <2>2, SubSeqProperties
  <2>4. /\ b \in Seq(Fiber) /\ Len(b) = Len(q) - i
        /\ \A j \in 1 .. Len(q) - i : b[j] = q[i + j]
    BY <2>2, SubSeqProperties
  <2>5. Without(q, f) = a \o b
    BY <2>1 DEF RemoveAt
  <2> HIDE DEF a, b
  <2>6. /\ Members(a) = {q[j] : j \in 1 .. i - 1}
        /\ Members(b) = {q[j] : j \in i + 1 .. Len(q)}
    <3>1. Members(a) = {q[j] : j \in 1 .. i - 1}
      BY <2>3 DEF Members
    <3>2. Members(b) \subseteq {q[j] : j \in i + 1 .. Len(q)}
      BY <2>2, <2>4 DEF Members
    <3>3. ASSUME NEW j \in i + 1 .. Len(q) PROVE q[j] \in Members(b)
      <4>1. j - i \in 1 .. Len(q) - i /\ b[j - i] = q[j]
        BY <2>2, <2>4
      <4> QED
        BY <2>4, <4>1 DEF Members
    <3> QED
      BY <3>1, <3>2, <3>3
  <2>7. \A j, k \in 1 .. Len(q) : q[j] = q[k] => j = k
    BY DEF NoRepeats
  <2>8. NoRepeats(a)
    BY <2>2, <2>3, <2>7 DEF NoRepeats
  <2>9. NoRepeats(b)
    <3>1. ASSUME NEW j \in 1 .. Len(b), NEW k \in 1 .. Len(b), b[j] = b[k] PROVE j = k
      <4>1. /\ j \in Int /\ k \in Int
            /\ i + j \in 1 .. Len(q) /\ i + k \in 1 .. Len(q) /\ q[i + j] = q[i + k]
        BY <2>2, <2>4, <3>1
      <4>2. i + j = i + k
        BY <2>7, <4>1
      <4> QED
        BY <2>2, <4>1, <4>2
    <3> QED
      BY <3>1 DEF NoRepeats
  <2>10. Members(a) \cap Members(b) = {}
    <3>1. \A j \in 1 .. i - 1, k \in i + 1 .. Len(q) : q[j] # q[k]
      BY <2>2, <2>7
    <3> QED
      BY <2>6, <3>1
  <2>11. Members(a) \cup Members(b) = Members(q) \ {f}
    <3>1. Members(q) = {q[j] : j \in 1 .. Len(q)}
      BY DEF Members
    <3>2. \A j \in 1 .. Len(q) : q[j] # f <=> j \in 1 .. i - 1 \/ j \in i + 1 .. Len(q)
      BY <2>1, <2>2, <2>7
    <3>3. (1 .. i - 1) \cup (i + 1 .. Len(q)) \subseteq 1 .. Len(q)
      BY <2>2
    <3> QED
      BY <2>6, <3>1, <3>2, <3>3
  <2> QED
    BY <2>3, <2>4, <2>5, <2>8, <2>9, <2>10, <2>11, MembersOfConcat, NoRepeatsConcat, ConcatProperties
<1> QED
  BY <1>1, <1>2

-----------------------------------------------------------------------------
(***************************************************************************
The inductive invariant.  Besides the properties it says that a fiber is in
Wait only in the states that the loop of Wait goes through: so a fiber that
starts, yields or sleeps elsewhere is not one that the wait list may hold.
***************************************************************************)
LockStates ==
    \A f \in Fiber : op[f] = "lock" => state[f] \in {"Running", "Suspending", "Suspended", "Ready"}

MutexInv ==
    TypeOK /\ SchedInv /\ LockStates /\ Exclusion /\ WaitersListed /\ NoSleeperAtFreeLock

(* Steps that leave the mutex alone keep its invariant if they move no      *)
(* waiter out of the states of a waiter, nor a woken one.                   *)
LEMMA AloneKeepsMutex ==
    ASSUME MutexInv, SchedInv', ProgramTypeOK', UNCHANGED <<op, guards, lockOwner, waitList>>,
           \A f \in Fiber : op[f] = "lock" =>
               /\ state'[f] \in {"Running", "Suspending", "Suspended", "Ready"}
               /\ state'[f] = "Running" <=> state[f] = "Running"
               /\ state[f] = "Ready" => state'[f] = "Ready",
           \A f \in Fiber : Code(f, "lock") => running' = f
    PROVE  MutexInv'
<1>1. TypeOK' /\ LockStates' /\ Exclusion'
  BY DEF MutexInv, TypeOK, LockStates, Exclusion, IsLocked
<1>2. WaitersListed'
  BY DEF MutexInv, WaitersListed, LockStates
<1>3. NoSleeperAtFreeLock'
  <2> SUFFICES ASSUME ~IsLocked, waitList # <<>>
               PROVE  state'[Head(waitList)] = "Ready" \/ (running' # None /\ Code(running, "lock")')
    BY DEF NoSleeperAtFreeLock, IsLocked
  <2>1. Head(waitList) \in Fiber /\ op[Head(waitList)] = "lock"
    BY QueueTail, ElementOfSeq DEF MutexInv, WaitersListed, TypeOK, Members
  <2>2. CASE state[Head(waitList)] = "Ready"
    BY <2>1, <2>2
  <2>3. CASE running # None /\ Code(running, "lock")
    <3>1. running \in Fiber
      BY <2>3 DEF MutexInv, SchedInv, SchedTypeOK
    <3> QED
      BY <2>3, <3>1 DEF Code
  <2> QED
    BY <2>2, <2>3 DEF MutexInv, NoSleeperAtFreeLock
<1> QED
  BY <1>1, <1>2, <1>3 DEF MutexInv

LEMMA OtherwiseKeepsMutex ==
    ASSUME MutexInv, NEW f \in Fiber, Otherwise(f)
    PROVE  MutexInv'
<1>1. SchedInv' /\ ProgramTypeOK'
  BY ProgramKeepsSched, ProgramKeepsType DEF MutexInv, TypeOK, Otherwise
<1>2. UNCHANGED <<op, guards, lockOwner, waitList>>
  BY DEF Otherwise, OwnBusiness, Start, Sleep, Yield, Unwind, Finish
<1>3. state \in [Fiber -> State] /\ SchedInv /\ StackOK /\ LockStates
  BY DEF MutexInv, SchedInv, SchedTypeOK
<1>4. CASE Start(f)
  <2>1. state[f] = "Absent" /\ state' = [state EXCEPT ![f] = "Ready"]
    BY <1>3, <1>4, StartKeeps
  <2> QED
    BY <1>1, <1>2, <1>3, <1>4, <2>1, AloneKeepsMutex DEF LockStates, Start, Code
<1>5. CASE Sleep(f) \/ Yield(f) \/ Finish(f)
  <2>1. Code(f, "user") /\ \A g \in Fiber \ {f} : state'[g] = state[g]
    BY <1>3, <1>5 DEF Sleep, AwaitOn, Suspend, Yield, OmniYield, Finish
  <2>2. \A g \in Fiber : ~Code(g, "lock")
    BY <2>1 DEF Code
  <2> QED
    BY <1>1, <1>2, <1>3, <2>1, <2>2, AloneKeepsMutex DEF LockStates, Code
<1>6. CASE Unwind(f)
  <2>1. /\ f = running /\ state[f] \in {"Suspending", "Yielding"}
        /\ state' = [state EXCEPT ![f] = IF state[f] = "Suspending" THEN "Suspended" ELSE "Yielded"]
    BY <1>6 DEF Unwind, Parked
  <2>2. \A g \in Fiber : ~Code(g, "lock")
    BY <2>1 DEF Code
  <2> QED
    BY <1>1, <1>2, <1>3, <2>1, <2>2, AloneKeepsMutex DEF LockStates
<1> QED
  BY <1>4, <1>5, <1>6 DEF Otherwise, OwnBusiness

LEMMA HandlerKeepsMutex ==
    ASSUME MutexInv, Handler
    PROVE  MutexInv'
<1>1. SchedInv /\ LockStates /\ state \in [Fiber -> State]
  BY DEF MutexInv, SchedInv, SchedTypeOK
<1>2. Fire("elsewhere") /\ UNCHANGED <<op, running, guards, lockOwner, waitList>>
  BY DEF Handler, Elsewhere, Fire, Wake, Waiters
<1>3. /\ SchedInv'
      /\ state' = [f \in Fiber |-> IF awaiting[f] = "elsewhere" /\ state[f] = "Suspended"
                                      THEN "Ready" ELSE state[f]]
  BY <1>1, <1>2, FireKeeps
<1>4. ProgramTypeOK'
  BY <1>2, <1>3 DEF Fire, Wake, Waiters, ProgramTypeOK, SchedInv, MutexInv, TypeOK
<1>5. \A f \in Fiber : Code(f, "lock") => running' = f
  BY <1>2 DEF Code
<1> QED
  BY <1>1, <1>2, <1>3, <1>4, <1>5, AloneKeepsMutex DEF LockStates

LEMMA CallWaitKeepsMutex ==
    ASSUME MutexInv, NEW f \in Fiber, CallWait(f)
    PROVE  MutexInv'
<1>1. /\ Code(f, "user") /\ op' = [op EXCEPT ![f] = "lock"]
      /\ UNCHANGED <<schedVars, awaiting, guards, lockOwner, waitList>>
  BY DEF CallWait
<1>2. SchedInv'
  BY <1>1 DEF MutexInv, SchedInv, SchedTypeOK, QueueOK, StackOK, schedVars
<1>3. TypeOK' /\ LockStates' /\ Exclusion'
  BY <1>1 DEF MutexInv, TypeOK, ProgramTypeOK, SchedTypeOK, LockStates, Exclusion, IsLocked, schedVars, Code
<1>4. WaitersListed'
  BY <1>1 DEF MutexInv, TypeOK, WaitersListed, schedVars, Code
<1>5. NoSleeperAtFreeLock'
  BY <1>1, FiberAssumption DEF MutexInv, TypeOK, NoSleeperAtFreeLock, IsLocked, schedVars, Code
<1> QED
  BY <1>2, <1>3, <1>4, <1>5 DEF MutexInv

LEMMA WaitSuspendsKeepsMutex ==
    ASSUME MutexInv, NEW f \in Fiber, WaitSuspends(f)
    PROVE  MutexInv'
<1>1. /\ Code(f, "lock") /\ IsLocked /\ waitList' = Append(waitList, f)
      /\ state' = [state EXCEPT ![f] = "Suspending"]
      /\ UNCHANGED <<readyQueue, yieldQueue, running, op, awaiting, guards, lockOwner>>
  BY DEF WaitSuspends, Suspend
<1>2. SchedInv'
  BY SuspendKeeps DEF MutexInv, WaitSuspends
<1>3. f \notin Members(waitList)
  BY <1>1 DEF MutexInv, WaitersListed, Code
<1>4. /\ waitList' \in Seq(Fiber) /\ NoRepeats(waitList')
      /\ Members(waitList') = Members(waitList) \cup {f}
  BY <1>1, <1>3, QueueAppend DEF MutexInv, TypeOK, WaitersListed
<1>5. TypeOK' /\ LockStates' /\ Exclusion'
  BY <1>1, <1>2, <1>4 DEF MutexInv, TypeOK, ProgramTypeOK, SchedTypeOK, SchedInv, LockStates, Exclusion, IsLocked
<1>6. WaitersListed'
  BY <1>1, <1>4 DEF MutexInv, WaitersListed, SchedInv, SchedTypeOK, Code
<1> QED
  BY <1>1, <1>2, <1>5, <1>6 DEF MutexInv, NoSleeperAtFreeLock, IsLocked

LEMMA WaitReturnsKeepsMutex ==
    ASSUME MutexInv, NEW f \in Fiber, WaitReturns(f)
    PROVE  MutexInv'
<1>1. /\ Code(f, "lock") /\ ~IsLocked /\ lockOwner' = f /\ guards' = guards \cup {f}
      /\ op' = [op EXCEPT ![f] = "user"]
      /\ UNCHANGED <<schedVars, awaiting, waitList>>
  BY DEF WaitReturns
<1>2. SchedInv'
  BY <1>1 DEF MutexInv, SchedInv, SchedTypeOK, QueueOK, StackOK, schedVars
<1>3. TypeOK' /\ LockStates' /\ Exclusion'
  BY <1>1, FiberAssumption DEF MutexInv, TypeOK, ProgramTypeOK, SchedTypeOK, LockStates, Exclusion,
     IsLocked, schedVars
<1>4. WaitersListed'
  BY <1>1 DEF MutexInv, TypeOK, WaitersListed, schedVars, Code
<1>5. NoSleeperAtFreeLock'
  BY <1>1, FiberAssumption DEF NoSleeperAtFreeLock, IsLocked
<1> QED
  BY <1>2, <1>3, <1>4, <1>5 DEF MutexInv

LEMMA UnlockKeepsMutex ==
    ASSUME MutexInv, NEW f \in Fiber, Unlock(f)
    PROVE  MutexInv'
<1> DEFINE next == IF waitList = <<>> THEN {} ELSE {Head(waitList)}
<1>1. /\ Code(f, "user") /\ f \in guards /\ guards' = guards \ {f} /\ lockOwner' = None
      /\ Schedulable(state, next) /\ Schedule(state, next)
      /\ UNCHANGED <<continuation, yieldQueue, running, op, awaiting, waitList>>
  BY DEF Unlock
<1>2. /\ waitList # <<>> => Head(waitList) \in Fiber
      /\ next \in SUBSET Fiber
  BY QueueTail, ElementOfSeq DEF MutexInv, TypeOK, WaitersListed, Members
<1>3. /\ SchedInv'
      /\ state' = [g \in Fiber |-> IF g \in next /\ state[g] = "Suspended" THEN "Ready" ELSE state[g]]
  BY <1>1, <1>2, ScheduledKeeps DEF MutexInv
<1>4. TypeOK' /\ LockStates' /\ Exclusion'
  BY <1>1, <1>3 DEF MutexInv, TypeOK, ProgramTypeOK, SchedInv, LockStates, Exclusion, IsLocked
<1>5. WaitersListed'
  BY <1>1, <1>3 DEF MutexInv, WaitersListed
<1>6. NoSleeperAtFreeLock'
  <2>1. ASSUME waitList # <<>> PROVE state'[Head(waitList)] = "Ready"
    BY <1>1, <1>2, <1>3, <2>1 DEF Schedulable
  <2> QED
    BY <1>1, <2>1 DEF NoSleeperAtFreeLock
<1> QED
  BY <1>3, <1>4, <1>5, <1>6 DEF MutexInv

(* The resumed fiber leaves the list; if it was its first, it is in Wait and *)
(* about to look at the lock.                                               *)
LEMMA ResumesKeepsMutex ==
    ASSUME MutexInv, Resumes
    PROVE  MutexInv'
<1>1. /\ waitList' = Without(waitList, running')
      /\ UNCHANGED <<op, awaiting, guards, lockOwner>>
  BY DEF Resumes
<1>2. PICK f \in Fiber : running' = f
  BY RunKeeps DEF MutexInv, Resumes
<1>3. /\ SchedInv' /\ running = None /\ state[f] \in {"Ready", "Yielded"}
      /\ state' = [state EXCEPT ![f] = "Running"]
  BY <1>2, RunKeeps DEF MutexInv, Resumes
<1>4. /\ waitList' \in Seq(Fiber) /\ NoRepeats(waitList')
      /\ Members(waitList') = Members(waitList) \ {f}
  BY <1>1, <1>2, QueueWithout DEF MutexInv, TypeOK, WaitersListed
<1>5. TypeOK' /\ LockStates' /\ Exclusion'
  BY <1>1, <1>3, <1>4 DEF MutexInv, TypeOK, ProgramTypeOK, SchedTypeOK, SchedInv, LockStates, Exclusion, IsLocked
<1>6. WaitersListed'
  BY <1>1, <1>3, <1>4 DEF MutexInv, WaitersListed, SchedInv, SchedTypeOK
<1>7. NoSleeperAtFreeLock'
  <2> SUFFICES ASSUME ~IsLocked, waitList' # <<>>
               PROVE  state'[Head(waitList')] = "Ready" \/ (running' # None /\ Code(running, "lock")')
    BY <1>1 DEF NoSleeperAtFreeLock, IsLocked
  <2>1. CASE f \in Members(waitList)
    <3>1. op[f] = "lock"
      BY <2>1 DEF MutexInv, WaitersListed
    <3> QED
      BY <1>1, <1>2, <1>3, <3>1, FiberAssumption DEF Code, MutexInv, SchedInv, SchedTypeOK
  <2>2. CASE f \notin Members(waitList)
    <3>1. waitList' = waitList
      BY <1>1, <1>2, <2>2 DEF Without
    <3>2. state[Head(waitList)] = "Ready"
      BY <1>3, <3>1 DEF MutexInv, NoSleeperAtFreeLock
    <3>3. Head(waitList) \in Members(waitList) /\ Head(waitList) \in Fiber
      BY <3>1, QueueTail, ElementOfSeq DEF MutexInv, TypeOK, WaitersListed, Members
    <3> QED
      BY <1>3, <2>2, <3>1, <3>2, <3>3 DEF MutexInv, SchedInv, SchedTypeOK
  <2> QED
    BY <2>1, <2>2
<1> QED
  BY <1>3, <1>5, <1>6, <1>7 DEF MutexInv

LEMMA MutexStep == MutexInv /\ [Next]_vars => MutexInv'
<1> SUFFICES ASSUME MutexInv, [Next]_vars PROVE MutexInv'
  OBVIOUS
<1>1. CASE UNCHANGED vars
  BY <1>1 DEF vars, progVars, schedVars, MutexInv, TypeOK, ProgramTypeOK, SchedInv, SchedTypeOK, QueueOK,
              StackOK, LockStates, Exclusion, IsLocked, WaitersListed, NoSleeperAtFreeLock, Code
<1> QED
  BY <1>1, ResumesKeepsMutex, CallWaitKeepsMutex, WaitSuspendsKeepsMutex, WaitReturnsKeepsMutex,
     UnlockKeepsMutex, OtherwiseKeepsMutex, HandlerKeepsMutex DEF Next, Over

LEMMA MutexInit == Init => MutexInv
<1> SUFFICES ASSUME Init PROVE MutexInv
  OBVIOUS
<1>1. SchedInv /\ ProgramTypeOK
  BY ProgramInitKeeps DEF Init
<1>2. waitList \in Seq(Fiber)
  BY EmptySeq DEF Init
<1> QED
  BY <1>1, <1>2 DEF Init, ProgramInit, MutexInv, TypeOK, LockStates, Exclusion, IsLocked, WaitersListed,
                    NoRepeats, Members, NoSleeperAtFreeLock

(* At most one LockGuard lives, whoever barges in. *)
THEOREM ExclusionCorrect == Spec => []Exclusion
BY MutexInit, MutexStep, PTL DEF Spec, MutexInv

(* The wait list holds exactly the fibers that sleep in Wait. *)
THEOREM WaitersListedCorrect == Spec => []WaitersListed
BY MutexInit, MutexStep, PTL DEF Spec, MutexInv

(* A free mutex is never left to sleeping waiters. *)
THEOREM NoSleeperAtFreeLockCorrect == Spec => []NoSleeperAtFreeLock
BY MutexInit, MutexStep, PTL DEF Spec, MutexInv

=============================================================================
