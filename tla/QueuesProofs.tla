---------------------------- MODULE QueuesProofs ----------------------------
(***************************************************************************
No push is lost on the workers that sleep, and workers that look again never
pop an empty queue.  Between its test and its suspension a worker sleeps
already as far as the pushing threads are concerned: what holds of those that
sleep must hold of it (MissedIsReached), and it is the one that runs.
***************************************************************************)
EXTENDS Queues, ProgramProofs

Types ==
    /\ ProgramTypeOK
    /\ op \in [Fiber -> {"user", "await", "missed", "resumed", "pop"}]
    /\ queue \in Seq(Element)

(* Only the fiber that runs is between two steps of an await or a pop, and  *)
(* only one inside of an await has an awaiter.                              *)
Busy == {"await", "missed", "pop"}

InsideAwait ==
    \A f \in Fiber :
        /\ op[f] \in Busy => running = f /\ state[f] = "Running"
        /\ awaiting[f] = "queue" => op[f] = "resumed"

MissedIsReached ==
    queue # <<>> /\ (\E f \in Fiber : op[f] = "missed") => notifying \cup posted # {}

Inv == Types /\ SchedInv /\ WaitersAsleep /\ InsideAwait /\ PushReachesSleepers /\ MissedIsReached

(* Whoever runs is the only one who may be testing or popping. *)
LEMMA NobodyElse ==
    ASSUME Inv, Outside, NEW f \in Fiber
    PROVE  op[f] \notin Busy
BY FiberAssumption DEF Inv, InsideAwait, Busy, Outside, Code

(* What a step does to the queue and to those who sleep or are about to.    *)
LEMMA KeepsReached ==
    ASSUME Inv,
           \A f \in Fiber : /\ op'[f] \in Busy => running' = f /\ state'[f] = "Running"
                            /\ awaiting'[f] = "queue" => op'[f] = "resumed",
           \/ notifying' \cup posted' # {}
           \/ queue' = <<>>
           \/ \A f \in Fiber : awaiting'[f] # "queue" /\ op'[f] # "missed"
           \/ /\ UNCHANGED <<notifying, posted>>
              /\ queue = <<>> => queue' = <<>>
              /\ \A f \in Fiber : awaiting'[f] = "queue" \/ op'[f] = "missed" =>
                                     awaiting[f] = "queue" \/ op[f] = "missed"
    PROVE  InsideAwait' /\ PushReachesSleepers' /\ MissedIsReached'
BY DEF Inv, InsideAwait, PushReachesSleepers, MissedIsReached, Waiters

LEMMA TypesStep ==
    ASSUME Inv, SchedInv', op' \in [Fiber -> {"user", "await", "missed", "resumed", "pop"}],
           awaiting' \in [Fiber -> Context \cup {None}], queue' \in Seq(Element)
    PROVE  Types'
BY DEF Types, ProgramTypeOK, SchedInv

LEMMA EventPushKeeps ==
    ASSUME Inv, NEW e \in Element, EventPush(e)
    PROVE  Inv'
<1>1. SchedInv' /\ WaitersAsleep'
  BY FireKeeps, FireKeepsWaiters DEF Inv, EventPush
<1>2. /\ awaiting' = [f \in Fiber |-> IF awaiting[f] = "queue" THEN None ELSE awaiting[f]]
      /\ queue' = Append(queue, e) /\ UNCHANGED op
  BY DEF EventPush, Fire, Wake, Waiters, Pushes
<1>3. Types'
  BY <1>1, <1>2, TypesStep, AppendProperties DEF Inv, Types, ProgramTypeOK
<1>4. \A f \in Fiber : op[f] \notin Busy
  BY NobodyElse DEF EventPush
<1>5. \A f \in Fiber : awaiting'[f] # "queue"
  BY <1>2, QueuesAssumption, ProgramAssumption
<1> QED
  BY <1>1, <1>2, <1>3, <1>4, <1>5, KeepsReached DEF Inv, Busy

LEMMA ExternalPushKeeps ==
    ASSUME Inv, NEW e \in Element, ExternalPush(e)
    PROVE  Inv'
<1>1. UNCHANGED progVars /\ queue' = Append(queue, e) /\ e \in notifying'
  BY DEF ExternalPush, Pushes
<1>2. SchedInv' /\ WaitersAsleep'
  BY <1>1 DEF Inv, WaitersAsleep, SchedInv, SchedTypeOK, QueueOK, StackOK, progVars, schedVars
<1>3. Types'
  BY <1>1, <1>2, TypesStep, AppendProperties DEF Inv, Types, ProgramTypeOK, progVars
<1> QED
  BY <1>1, <1>2, <1>3, KeepsReached DEF Inv, InsideAwait, progVars, schedVars

(* Somebody who sleeps, or is about to, holds the context that is captured. *)
LEMMA NotifyKeeps ==
    ASSUME Inv, NEW e \in Element, Notify(e)
    PROVE  Inv'
<1>1. UNCHANGED progVars /\ UNCHANGED queue
  BY DEF Notify
<1>2. SchedInv' /\ WaitersAsleep'
  BY <1>1 DEF Inv, WaitersAsleep, SchedInv, SchedTypeOK, QueueOK, StackOK, progVars, schedVars
<1>3. Types'
  BY <1>1, <1>2, TypesStep DEF Inv, Types, ProgramTypeOK, progVars
<1>4. CASE Holders(op) = {}
  <2>1. \A f \in Fiber : awaiting[f] # "queue" /\ op[f] # "missed"
    BY <1>4 DEF Holders, Inv, InsideAwait
  <2> QED
    BY <1>1, <1>2, <1>3, <2>1, KeepsReached DEF Inv, InsideAwait, progVars, schedVars
<1>5. CASE Holders(op) # {}
  <2>1. e \in posted'
    BY <1>5 DEF Notify
  <2> QED
    BY <1>1, <1>2, <1>3, <2>1, KeepsReached DEF Inv, InsideAwait, progVars, schedVars
<1> QED
  BY <1>4, <1>5

LEMMA DeliversKeeps ==
    ASSUME Inv, NEW e \in Element, Delivers(e)
    PROVE  Inv'
<1>1. SchedInv' /\ WaitersAsleep'
  BY FireKeeps, FireKeepsWaiters DEF Inv, Delivers
<1>2. /\ awaiting' = [f \in Fiber |-> IF awaiting[f] = "queue" THEN None ELSE awaiting[f]]
      /\ running = None /\ UNCHANGED <<op, queue, running>>
  BY DEF Delivers, Fire, Wake, Waiters
<1>3. Types'
  BY <1>1, <1>2, TypesStep DEF Inv, Types, ProgramTypeOK
<1>4. \A f \in Fiber : awaiting'[f] # "queue" /\ op[f] \notin Busy
  BY <1>2, FiberAssumption, QueuesAssumption, ProgramAssumption DEF Inv, InsideAwait
<1> QED
  BY <1>1, <1>2, <1>3, <1>4, KeepsReached DEF Inv, Busy

LEMMA TestsKeeps ==
    ASSUME Inv, NEW f \in Fiber, Awaits(f) \/ Tests(f)
    PROVE  Inv'
<1>1. /\ running = f /\ state[f] = "Running" /\ op[f] \in {"user", "await"}
      /\ \/ op' = [op EXCEPT ![f] = "await"] \/ op' = [op EXCEPT ![f] = "resumed"]
         \/ op' = [op EXCEPT ![f] = "missed"] /\ queue = <<>>
      /\ UNCHANGED <<schedVars, awaiting, queue, notifying, posted>>
  BY DEF Awaits, Tests, At, Code, queueVars
<1>2. SchedInv' /\ WaitersAsleep'
  BY <1>1 DEF Inv, WaitersAsleep, SchedInv, SchedTypeOK, QueueOK, StackOK, schedVars
<1>3. Types'
  BY <1>1, <1>2, TypesStep DEF Inv, Types, ProgramTypeOK
<1>4. \A g \in Fiber : awaiting[g] = "queue" => op'[g] = "resumed"
  BY <1>1 DEF Inv, Types, InsideAwait
<1>5. \A g \in Fiber : op'[g] \in Busy => running' = g /\ state'[g] = "Running"
  BY <1>1 DEF Inv, Types, InsideAwait, Busy, schedVars
<1>6. queue' = <<>> \/ \A g \in Fiber : op'[g] = "missed" => op[g] = "missed"
  BY <1>1 DEF Inv, Types
<1> QED
  BY <1>1, <1>2, <1>3, <1>4, <1>5, <1>6, KeepsReached DEF Inv

(* The one that missed becomes one that sleeps. *)
LEMMA SuspendsKeeps ==
    ASSUME Inv, NEW f \in Fiber, Suspends(f)
    PROVE  Inv'
<1>1. /\ op[f] = "missed" /\ op' = [op EXCEPT ![f] = "resumed"]
      /\ awaiting' = [awaiting EXCEPT ![f] = "queue"]
      /\ UNCHANGED <<queue, notifying, posted, running>>
  BY DEF Suspends, At, Code, AwaitOn, queueVars
<1>2. SchedInv' /\ WaitersAsleep'
  BY SuspendKeeps, AwaitOnKeepsWaiters DEF Inv, Suspends, AwaitOn
<1>3. Types'
  BY <1>1, <1>2, TypesStep, QueuesAssumption DEF Inv, Types, ProgramTypeOK
<1>4. \A g \in Fiber : awaiting'[g] = "queue" => op'[g] = "resumed"
  BY <1>1 DEF Inv, Types, InsideAwait
<1>5. \A g \in Fiber : op'[g] \in Busy => running' = g /\ state'[g] = "Running"
  BY <1>1 DEF Inv, Types, InsideAwait, Busy
<1>6. \A g \in Fiber : awaiting'[g] = "queue" \/ op'[g] = "missed" => awaiting[g] = "queue" \/ op[g] = "missed"
  BY <1>1 DEF Inv, Types, ProgramTypeOK
<1> QED
  BY <1>1, <1>2, <1>3, <1>4, <1>5, <1>6, KeepsReached DEF Inv

(* The awaiter goes; if it was the last, so do the posted handlers, but then *)
(* nobody else sleeps.                                                       *)
LEMMA LooksKeeps ==
    ASSUME Inv, NEW f \in Fiber, Looks(f)
    PROVE  Inv'
<1>1. /\ op[f] = "resumed" /\ running = f /\ state[f] = "Running"
      /\ \/ op' = [op EXCEPT ![f] = "user"] \/ op' = [op EXCEPT ![f] = "pop"]
      /\ posted' = IF Holders(op') = {} THEN {} ELSE posted
      /\ UNCHANGED <<schedVars, awaiting, queue, notifying>>
  BY DEF Looks, At, Code
<1>2. SchedInv' /\ WaitersAsleep'
  BY <1>1 DEF Inv, WaitersAsleep, SchedInv, SchedTypeOK, QueueOK, StackOK, schedVars
<1>3. Types'
  BY <1>1, <1>2, TypesStep DEF Inv, Types, ProgramTypeOK
<1>4. awaiting[f] # "queue"
  BY <1>1, QueuesAssumption, ProgramAssumption DEF Inv, WaitersAsleep
<1>5. \A g \in Fiber : awaiting[g] = "queue" => op'[g] = "resumed"
  BY <1>1, <1>4 DEF Inv, Types, InsideAwait
<1>6. \A g \in Fiber : op'[g] \in Busy => running' = g /\ state'[g] = "Running"
  BY <1>1 DEF Inv, Types, InsideAwait, Busy, schedVars
<1>7. \A g \in Fiber : op'[g] = "missed" => op[g] = "missed"
  BY <1>1 DEF Inv, Types
<1>8. CASE Holders(op') = {}
  <2>1. \A g \in Fiber : awaiting[g] # "queue" /\ op'[g] # "missed"
    BY <1>5, <1>8 DEF Holders
  <2> QED
    BY <1>1, <1>2, <1>3, <1>5, <1>6, <2>1, KeepsReached DEF Inv
<1>9. CASE Holders(op') # {}
  BY <1>1, <1>2, <1>3, <1>5, <1>6, <1>7, <1>9, KeepsReached DEF Inv
<1> QED
  BY <1>8, <1>9

LEMMA PopFrontKeeps ==
    ASSUME Inv, NEW f \in Fiber, PopFront(f)
    PROVE  Inv'
<1>1. /\ op[f] = "pop" /\ op' = [op EXCEPT ![f] = "user"]
      /\ queue # <<>> /\ queue' = Tail(queue)
      /\ UNCHANGED <<schedVars, awaiting, notifying, posted>>
  BY DEF PopFront, At, Code
<1>2. SchedInv' /\ WaitersAsleep'
  BY <1>1 DEF Inv, WaitersAsleep, SchedInv, SchedTypeOK, QueueOK, StackOK, schedVars
<1>3. queue' \in Seq(Element)
  BY <1>1, HeadTailProperties DEF Inv, Types
<1>4. Types'
  BY <1>1, <1>2, <1>3, TypesStep DEF Inv, Types, ProgramTypeOK
<1>5. \A g \in Fiber : awaiting[g] = "queue" => op'[g] = "resumed"
  BY <1>1 DEF Inv, Types, InsideAwait
<1>6. \A g \in Fiber : op'[g] \in Busy => running' = g /\ state'[g] = "Running" /\ op'[g] = op[g]
  BY <1>1 DEF Inv, Types, InsideAwait, Busy, schedVars
<1> QED
  BY <1>1, <1>2, <1>4, <1>5, <1>6, KeepsReached DEF Inv

LEMMA ClearKeeps ==
    ASSUME Inv, Clear
    PROVE  Inv'
<1>1. UNCHANGED progVars /\ queue' = <<>>
  BY DEF Clear
<1>2. SchedInv' /\ WaitersAsleep'
  BY <1>1 DEF Inv, WaitersAsleep, SchedInv, SchedTypeOK, QueueOK, StackOK, progVars, schedVars
<1>3. Types'
  BY <1>1, <1>2, TypesStep, EmptySeq DEF Inv, Types, ProgramTypeOK, progVars
<1> QED
  BY <1>1, <1>2, <1>3, KeepsReached DEF Inv, InsideAwait, progVars, schedVars

(* Fibers that start, sleep, yield, unwind, end or are resumed are at other  *)
(* places than the queue, before and after.                                 *)
LEMMA MovesKeeps ==
    ASSUME Inv, SchedInv', WaitersAsleep', UNCHANGED <<op, queue, notifying, posted>>,
           awaiting' \in [Fiber -> Context \cup {None}],
           \A f \in Fiber : awaiting'[f] = "queue" => awaiting[f] = "queue",
           \A f \in Fiber : op[f] \notin Busy
    PROVE  Inv'
<1>1. Types'
  BY TypesStep DEF Inv, Types, ProgramTypeOK
<1> QED
  BY <1>1, KeepsReached DEF Inv, InsideAwait

LEMMA WorkerKeeps ==
    ASSUME Inv, NEW f \in Fiber, Works(f) \/ Moves(f)
    PROVE  Inv'
<1>1. /\ OwnBusiness(f) \/ Finish(f)
      /\ UNCHANGED <<op, queue, notifying, posted>>
  BY DEF Works, Moves, OwnBusiness, Start, Sleep, Yield, Unwind, Finish, queueVars
<1>2. SchedInv' /\ WaitersAsleep'
  BY <1>1, ProgramKeepsSched, ProgramKeepsWaiters DEF Inv
<1>3. UNCHANGED awaiting \/ awaiting' = [awaiting EXCEPT ![f] = "elsewhere"]
  BY <1>1 DEF OwnBusiness, Start, Sleep, AwaitOn, Yield, Unwind, Finish
<1>4. /\ awaiting' \in [Fiber -> Context \cup {None}]
      /\ \A g \in Fiber : awaiting'[g] = "queue" => awaiting[g] = "queue"
  BY <1>3, ProgramAssumption DEF Inv, Types, ProgramTypeOK
<1>5. \A g \in Fiber : op[g] \notin Busy
  <2>1. CASE Start(f)
    BY <1>1, <2>1, NobodyElse DEF Start
  <2>2. CASE Sleep(f) \/ Yield(f) \/ Finish(f)
    <3>1. Outside
      BY <2>2 DEF Sleep, Yield, Finish, Outside, Code
    <3> QED
      BY <3>1, NobodyElse
  <2>3. CASE Unwind(f)
    <3>1. f = running /\ state[f] \in {"Suspending", "Yielding"}
      BY <2>3 DEF Unwind, Parked
    <3> QED
      BY <3>1 DEF Inv, InsideAwait
  <2> QED
    BY <1>1, <2>1, <2>2, <2>3 DEF OwnBusiness
<1> QED
  BY <1>1, <1>2, <1>4, <1>5, MovesKeeps

LEMMA LoopKeeps ==
    ASSUME Inv, TimerExpires \/ Resumes
    PROVE  Inv'
<1>1. SchedInv' /\ WaitersAsleep'
  BY RunKeeps, RunKeepsWaiters, FireKeeps, FireKeepsWaiters DEF Inv, TimerExpires, Elsewhere, Resumes
<1>2. UNCHANGED <<op, queue, notifying, posted>>
  BY DEF TimerExpires, Elsewhere, Resumes, queueVars
<1>3. /\ awaiting' \in [Fiber -> Context \cup {None}]
      /\ \A g \in Fiber : awaiting'[g] = "queue" => awaiting[g] = "queue"
  BY QueuesAssumption, ProgramAssumption
     DEF TimerExpires, Elsewhere, Fire, Wake, Resumes, Inv, Types, ProgramTypeOK
<1>4. \A f \in Fiber : op[f] \notin Busy
  <2>1. CASE TimerExpires
    BY <2>1, NobodyElse DEF TimerExpires, Elsewhere
  <2>2. CASE Resumes
    BY <2>2, RunKeeps, FiberAssumption DEF Resumes, Inv, InsideAwait
  <2> QED
    BY <2>1, <2>2
<1> QED
  BY <1>1, <1>2, <1>3, <1>4, MovesKeeps

LEMMA Step == Inv /\ [Next]_vars => Inv'
<1> SUFFICES ASSUME Inv, [Next]_vars PROVE Inv'
  OBVIOUS
<1>1. CASE UNCHANGED vars
  BY <1>1
     DEF vars, progVars, schedVars, queueVars, Inv, Types, ProgramTypeOK, SchedInv, SchedTypeOK, QueueOK,
         StackOK, WaitersAsleep, InsideAwait, PushReachesSleepers, Waiters, MissedIsReached
<1> QED
  BY <1>1, EventPushKeeps, ExternalPushKeeps, NotifyKeeps, DeliversKeeps, TestsKeeps, SuspendsKeeps,
     LooksKeeps, PopFrontKeeps, ClearKeeps, WorkerKeeps, LoopKeeps
     DEF Next, AwaitStep, Over

LEMMA InitHolds == Init => Inv
<1> SUFFICES ASSUME Init PROVE Inv
  OBVIOUS
<1>1. SchedInv /\ ProgramTypeOK
  BY ProgramInitKeeps DEF Init
<1>2. \A f \in Fiber : op[f] = "user" /\ awaiting[f] = None
  BY DEF Init, ProgramInit
<1> QED
  BY <1>1, <1>2, EmptySeq, QueuesAssumption, ProgramAssumption
     DEF Init, ProgramInit, Inv, Types, WaitersAsleep, InsideAwait, Busy, PushReachesSleepers, MissedIsReached

(* While the queue holds something, those who sleep on it will be woken.    *)
THEOREM PushReachesSleepersCorrect == Spec => []PushReachesSleepers
BY InitHolds, Step, PTL DEF Spec, Inv

(* The queue is not touched between the look and the pop. *)
LEMMA PopStep ==
    ASSUME Rechecks, Inv, NoEmptyPop, [Next]_vars
    PROVE  NoEmptyPop'
<1>1. ASSUME NEW e \in Element, EventPush(e) \/ ExternalPush(e) PROVE NoEmptyPop'
  <2>1. queue' = Append(queue, e) /\ UNCHANGED op
    BY <1>1 DEF EventPush, ExternalPush, Pushes, progVars
  <2>2. queue' # <<>>
    BY <2>1, AppendProperties DEF Inv, Types
  <2> QED
    BY <2>2 DEF NoEmptyPop
<1>2. ASSUME UNCHANGED <<op, queue>> PROVE NoEmptyPop'
  BY <1>2 DEF NoEmptyPop
<1>3. ASSUME NEW f \in Fiber, Awaits(f) \/ Tests(f) \/ Suspends(f) \/ Looks(f) PROVE NoEmptyPop'
  <2>1. UNCHANGED queue /\ \A g \in Fiber : op'[g] = "pop" => op[g] = "pop" \/ queue # <<>>
    BY <1>3 DEF Awaits, Tests, Suspends, Looks, At, queueVars, Inv, Types
  <2> QED
    BY <2>1 DEF NoEmptyPop
<1>4. ASSUME NEW f \in Fiber, PopFront(f) PROVE NoEmptyPop'
  <2>1. running = f /\ op' = [op EXCEPT ![f] = "user"]
    BY <1>4 DEF PopFront, At, Code
  <2>2. \A g \in Fiber : op'[g] # "pop"
    BY <2>1 DEF Inv, Types, InsideAwait, Busy
  <2> QED
    BY <2>2 DEF NoEmptyPop
<1>5. CASE Clear
  <2>1. UNCHANGED op /\ \A f \in Fiber : op[f] # "pop"
    BY <1>5 DEF Clear, progVars
  <2> QED
    BY <2>1 DEF NoEmptyPop
<1>6. ASSUME NEW f \in Fiber, Works(f) \/ Moves(f) PROVE UNCHANGED <<op, queue>>
  BY <1>6 DEF Works, Moves, Start, Sleep, Yield, Unwind, Finish, queueVars
<1>7. ASSUME NEW e \in Element, Notify(e) \/ Delivers(e) PROVE UNCHANGED <<op, queue>>
  BY <1>7 DEF Notify, Delivers, progVars
<1>8. TimerExpires \/ Resumes \/ Over \/ UNCHANGED vars => UNCHANGED <<op, queue>>
  BY DEF TimerExpires, Elsewhere, Resumes, Over, vars, progVars, queueVars
<1> QED
  BY <1>1, <1>2, <1>3, <1>4, <1>5, <1>6, <1>7, <1>8 DEF Next, AwaitStep

(* A worker that looks again before it pops finds something, whatever the   *)
(* other workers took after the push that woke it.                          *)
THEOREM NoEmptyPopCorrect ==
    ASSUME Rechecks
    PROVE  Spec => []NoEmptyPop
<1>1. Init => NoEmptyPop
  BY DEF Init, ProgramInit, NoEmptyPop
<1>2. Inv /\ NoEmptyPop /\ [Next]_vars => NoEmptyPop'
  BY PopStep
<1> QED
  BY <1>1, <1>2, InitHolds, Step, PTL DEF Spec

=============================================================================
