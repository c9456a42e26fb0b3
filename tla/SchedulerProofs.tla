-------------------------- MODULE SchedulerProofs --------------------------
(***************************************************************************
The operators of Scheduler keep its queues and its stack in order, for every
set of fibers.  The proofs about the components cite these lemmas.
***************************************************************************)
EXTENDS Scheduler, FiniteSetTheorems, SequenceTheorems, TLAPS

-----------------------------------------------------------------------------
(* Walking a set gives a sequence of its members, each once. *)
LEMMA OrderingIsSeq ==
    ASSUME NEW S \in SUBSET Fiber, NEW order \in Orderings(S)
    PROVE  /\ order \in Seq(Fiber)
           /\ Len(order) \in Nat
           /\ Members(order) = S
           /\ NoRepeats(order)
<1>1. IsFiniteSet(S)
  BY FS_Subset, FiberAssumption
<1>2. Cardinality(S) \in Nat
  BY <1>1, FS_CardinalityType
<1>3. order \in [1 .. Cardinality(S) -> S]
  BY DEF Orderings, Bijection, Injection
<1>4. order \in Seq(S) /\ Len(order) = Cardinality(S)
  BY <1>2, <1>3
<1>5. order \in Seq(Fiber)
  BY <1>4, SeqMonotonic
<1>6. Members(order) = S
  BY <1>3, <1>4 DEF Members, Orderings, Bijection, Surjection
<1>7. NoRepeats(order)
  BY <1>3, <1>4 DEF NoRepeats, Orderings, Bijection, Injection, IsInjective
<1> QED
  BY <1>2, <1>4, <1>5, <1>6, <1>7

(* What Schedule does to the states and to the ready queue. *)
LEMMA ScheduleType ==
    ASSUME NEW st \in [Fiber -> State], NEW fs \in SUBSET Fiber,
           readyQueue \in Seq(Fiber), Schedule(st, fs)
    PROVE  /\ state' \in [Fiber -> State]
           /\ readyQueue' \in Seq(Fiber)
<1>1. Sleeping(st, fs) \in SUBSET Fiber
  BY DEF Sleeping
<1>2. PICK order \in Orderings(Sleeping(st, fs)) : readyQueue' = readyQueue \o order
  BY DEF Schedule
<1>3. order \in Seq(Fiber)
  BY <1>1, OrderingIsSeq
<1>4. readyQueue' \in Seq(Fiber)
  BY <1>2, <1>3, ConcatProperties
<1>5. state' \in [Fiber -> State]
  BY DEF Schedule, State
<1> QED
  BY <1>4, <1>5

-----------------------------------------------------------------------------
(* Queues as sets: what appending, concatenating and taking the head do. *)
LEMMA MembersOfConcat ==
    ASSUME NEW q \in Seq(Fiber), NEW r \in Seq(Fiber)
    PROVE  Members(q \o r) = Members(q) \cup Members(r)
<1>1. /\ Len(q) \in Nat /\ Len(r) \in Nat
      /\ Len(q \o r) = Len(q) + Len(r)
      /\ \A i \in 1 .. Len(q) + Len(r) :
            (q \o r)[i] = IF i <= Len(q) THEN q[i] ELSE r[i - Len(q)]
  BY ConcatProperties, LenProperties
<1>2. ASSUME NEW x \in Members(q \o r) PROVE x \in Members(q) \cup Members(r)
  BY <1>1, <1>2 DEF Members
<1>3. ASSUME NEW x \in Members(q) PROVE x \in Members(q \o r)
  BY <1>1, <1>3 DEF Members
<1>4. ASSUME NEW x \in Members(r) PROVE x \in Members(q \o r)
  <2>1. PICK j \in 1 .. Len(r) : x = r[j]
    BY <1>4 DEF Members
  <2>2. /\ Len(q) + j \in 1 .. Len(q) + Len(r)
        /\ (q \o r)[Len(q) + j] = r[j]
    BY <1>1
  <2> QED
    BY <1>1, <2>1, <2>2 DEF Members
<1> QED
  BY <1>2, <1>3, <1>4

LEMMA NoRepeatsConcat ==
    ASSUME NEW q \in Seq(Fiber), NEW r \in Seq(Fiber),
           NoRepeats(q), NoRepeats(r), Members(q) \cap Members(r) = {}
    PROVE  NoRepeats(q \o r)
<1>1. /\ Len(q) \in Nat /\ Len(r) \in Nat
      /\ Len(q \o r) = Len(q) + Len(r)
      /\ \A i \in 1 .. Len(q) + Len(r) :
            (q \o r)[i] = IF i <= Len(q) THEN q[i] ELSE r[i - Len(q)]
  BY ConcatProperties, LenProperties
<1> SUFFICES ASSUME NEW i \in 1 .. Len(q \o r), NEW j \in 1 .. Len(q \o r),
                    (q \o r)[i] = (q \o r)[j]
             PROVE  i = j
  BY DEF NoRepeats
<1>2. CASE i <= Len(q) /\ j <= Len(q)
  BY <1>1, <1>2 DEF NoRepeats
<1>3. CASE i > Len(q) /\ j > Len(q)
  <2>1. i - Len(q) \in 1 .. Len(r) /\ j - Len(q) \in 1 .. Len(r)
    BY <1>1, <1>3
  <2> QED
    BY <1>1, <1>3, <2>1 DEF NoRepeats
<1>4. CASE i <= Len(q) /\ j > Len(q)
  <2>1. (q \o r)[i] \in Members(q) /\ (q \o r)[j] \in Members(r)
    BY <1>1, <1>4 DEF Members
  <2> QED
    BY <2>1
<1>5. CASE i > Len(q) /\ j <= Len(q)
  <2>1. (q \o r)[i] \in Members(r) /\ (q \o r)[j] \in Members(q)
    BY <1>1, <1>5 DEF Members
  <2> QED
    BY <2>1
<1> QED
  BY <1>1, <1>2, <1>3, <1>4, <1>5

LEMMA QueueAppend ==
    ASSUME NEW q \in Seq(Fiber), NEW f \in Fiber, NoRepeats(q), f \notin Members(q)
    PROVE  /\ Append(q, f) \in Seq(Fiber)
           /\ NoRepeats(Append(q, f))
           /\ Members(Append(q, f)) = Members(q) \cup {f}
<1>1. <<f>> \in Seq(Fiber) /\ Append(q, f) = q \o <<f>>
  BY AppendIsConcat
<1>2. Members(<<f>>) = {f} /\ NoRepeats(<<f>>)
  BY DEF Members, NoRepeats
<1>3. Append(q, f) \in Seq(Fiber)
  BY AppendProperties
<1>4. Members(q \o <<f>>) = Members(q) \cup {f}
  BY <1>1, <1>2, MembersOfConcat
<1>5. NoRepeats(q \o <<f>>)
  <2>1. Members(q) \cap Members(<<f>>) = {}
    BY <1>2
  <2> QED
    BY <1>1, <1>2, <2>1, NoRepeatsConcat
<1> QED
  BY <1>1, <1>3, <1>4, <1>5

LEMMA QueueTail ==
    ASSUME NEW q \in Seq(Fiber), q # <<>>, NoRepeats(q)
    PROVE  /\ Head(q) \in Members(q)
           /\ Tail(q) \in Seq(Fiber)
           /\ NoRepeats(Tail(q))
           /\ Members(Tail(q)) = Members(q) \ {Head(q)}
<1>1. /\ Len(q) \in Nat \ {0} /\ Head(q) = q[1]
      /\ Tail(q) \in Seq(Fiber) /\ Len(Tail(q)) = Len(q) - 1
      /\ \A i \in 1 .. Len(Tail(q)) : Tail(q)[i] = q[i + 1]
  <2>1. Len(q) \in Nat \ {0}
    BY EmptySeq
  <2>2. Head(q) = q[1]
    OBVIOUS
  <2> QED
    BY <2>1, <2>2, HeadTailProperties
<1>2. Head(q) \in Members(q)
  BY <1>1 DEF Members
<1>3. NoRepeats(Tail(q))
  BY <1>1 DEF NoRepeats
<1>4. ASSUME NEW x \in Members(Tail(q)) PROVE x \in Members(q) \ {Head(q)}
  <2>1. PICK i \in 1 .. Len(Tail(q)) : x = Tail(q)[i]
    BY DEF Members
  <2>2. i + 1 \in 1 .. Len(q) /\ x = q[i + 1] /\ 1 \in 1 .. Len(q) /\ i + 1 # 1
    BY <1>1, <2>1
  <2> QED
    BY <1>1, <2>2 DEF Members, NoRepeats
<1>5. ASSUME NEW x \in Members(q), x # Head(q) PROVE x \in Members(Tail(q))
  <2>1. PICK i \in 1 .. Len(q) : x = q[i]
    BY <1>5 DEF Members
  <2>2. i - 1 \in 1 .. Len(Tail(q)) /\ Tail(q)[i - 1] = q[i]
    BY <1>1, <1>5, <2>1
  <2> QED
    BY <2>1, <2>2 DEF Members
<1> QED
  BY <1>1, <1>2, <1>3, <1>4, <1>5

-----------------------------------------------------------------------------
(***************************************************************************
The invariant of the scheduler, and the operators that keep it.
***************************************************************************)
SchedInv == SchedTypeOK /\ QueueOK /\ StackOK

(* A queue that holds exactly the fibers of S, each once. *)
Lists(q, S) == q \in Seq(Fiber) /\ NoRepeats(q) /\ Members(q) = S

ReadyIn(st) == {f \in Fiber : st[f] = "Ready"}
YieldIn(st) == {f \in Fiber : st[f] \in {"Yielding", "Yielded"}}

LEMMA QueuesAsLists ==
    ASSUME SchedTypeOK
    PROVE  QueueOK <=> Lists(readyQueue, ReadyIn(state)) /\ Lists(yieldQueue, YieldIn(state))
<1>1. Members(readyQueue) \subseteq Fiber /\ Members(yieldQueue) \subseteq Fiber
  BY ElementOfSeq DEF Members, SchedTypeOK
<1> QED
  BY <1>1 DEF QueueOK, Lists, ReadyIn, YieldIn, SchedTypeOK

LEMMA QueuesAsListsNext ==
    ASSUME SchedTypeOK'
    PROVE  QueueOK' <=> Lists(readyQueue', ReadyIn(state')) /\ Lists(yieldQueue', YieldIn(state'))
<1>1. Members(readyQueue') \subseteq Fiber /\ Members(yieldQueue') \subseteq Fiber
  BY ElementOfSeq DEF Members, SchedTypeOK
<1> QED
  BY <1>1 DEF QueueOK, Lists, ReadyIn, YieldIn, SchedTypeOK

(* Schedule makes the sleeping fibers Ready and queues each of them once. *)
LEMMA ScheduleEffect ==
    ASSUME NEW st \in [Fiber -> State], NEW fs \in SUBSET Fiber,
           Lists(readyQueue, ReadyIn(st)), Schedule(st, fs)
    PROVE  /\ state' \in [Fiber -> State]
           /\ state' = [f \in Fiber |-> IF f \in Sleeping(st, fs) THEN "Ready" ELSE st[f]]
           /\ Lists(readyQueue', ReadyIn(state'))
           /\ YieldIn(state') = YieldIn(st)
<1>1. Sleeping(st, fs) \in SUBSET Fiber
  BY DEF Sleeping
<1>2. PICK order \in Orderings(Sleeping(st, fs)) : readyQueue' = readyQueue \o order
  BY DEF Schedule
<1>3. order \in Seq(Fiber) /\ Members(order) = Sleeping(st, fs) /\ NoRepeats(order)
  BY <1>1, OrderingIsSeq
<1>4. readyQueue \in Seq(Fiber) /\ NoRepeats(readyQueue) /\ Members(readyQueue) = ReadyIn(st)
  BY DEF Lists
<1>5. state' = [f \in Fiber |-> IF f \in Sleeping(st, fs) THEN "Ready" ELSE st[f]]
  BY DEF Schedule
<1>6. ReadyIn(state') = ReadyIn(st) \cup Sleeping(st, fs)
  BY <1>1, <1>5 DEF ReadyIn
<1>7. ReadyIn(st) \cap Sleeping(st, fs) = {}
  BY DEF ReadyIn, Sleeping
<1>8. YieldIn(state') = YieldIn(st)
  BY <1>5 DEF YieldIn, Sleeping
<1>9. Members(readyQueue') = ReadyIn(state')
  BY <1>2, <1>3, <1>4, <1>6, MembersOfConcat
<1>10. NoRepeats(readyQueue')
  BY <1>2, <1>3, <1>4, <1>7, NoRepeatsConcat
<1>11. readyQueue' \in Seq(Fiber)
  BY <1>2, <1>3, <1>4, ConcatProperties
<1>12. state' \in [Fiber -> State]
  BY <1>5 DEF State
<1> QED
  BY <1>5, <1>8, <1>9, <1>10, <1>11, <1>12 DEF Lists

(* Scheduling fibers of which none sleeps queues nothing. *)
LEMMA ScheduleNobody ==
    ASSUME NEW st \in [Fiber -> State], NEW fs \in SUBSET Fiber,
           readyQueue \in Seq(Fiber), Sleeping(st, fs) = {}, Schedule(st, fs)
    PROVE  readyQueue' = readyQueue
<1>1. PICK order \in Orderings({}) : readyQueue' = readyQueue \o order
  BY DEF Schedule
<1>2. order \in Seq(Fiber) /\ Len(order) \in Nat /\ Members(order) = {}
  BY <1>1, OrderingIsSeq
<1>3. Len(order) = 0
  BY <1>2 DEF Members
<1>4. order = <<>>
  BY <1>2, <1>3, EmptySeq
<1> QED
  BY <1>1, <1>4

LEMMA RunReadyKeeps == SchedInv /\ RunReady => SchedInv' /\ running' \in Fiber
<1> SUFFICES ASSUME SchedInv, RunReady PROVE SchedInv' /\ running' \in Fiber
  OBVIOUS
<1>1. SchedTypeOK /\ QueueOK /\ StackOK
  BY DEF SchedInv
<1>2. readyQueue \in Seq(Fiber) /\ readyQueue # <<>> /\ NoRepeats(readyQueue)
  BY <1>1 DEF RunReady, SchedTypeOK, QueueOK
<1>3. /\ Head(readyQueue) \in Members(readyQueue)
      /\ Lists(readyQueue', Members(readyQueue) \ {Head(readyQueue)})
  BY <1>2, QueueTail DEF RunReady, Lists
<1>4. Head(readyQueue) \in Fiber /\ state[Head(readyQueue)] = "Ready"
  BY <1>1, <1>2, <1>3, HeadTailProperties DEF QueueOK
<1>5. SchedTypeOK'
  BY <1>1, <1>3, <1>4 DEF RunReady, Resume, SchedTypeOK, State, Lists
<1>6. ReadyIn(state') = ReadyIn(state) \ {Head(readyQueue)} /\ YieldIn(state') = YieldIn(state)
  BY <1>1, <1>4 DEF RunReady, Resume, ReadyIn, YieldIn, SchedTypeOK
<1>7. QueueOK'
  <2>1. Lists(readyQueue, ReadyIn(state)) /\ Lists(yieldQueue, YieldIn(state))
    BY <1>1, QueuesAsLists
  <2>2. Members(readyQueue) \ {Head(readyQueue)} = ReadyIn(state')
    BY <1>6, <2>1 DEF Lists
  <2>3. Lists(readyQueue', ReadyIn(state'))
    BY <1>3, <2>2
  <2>4. Lists(yieldQueue', YieldIn(state'))
    BY <1>6, <2>1 DEF RunReady
  <2> QED
    BY <1>5, <2>3, <2>4, QueuesAsListsNext
<1>8. StackOK'
  BY <1>1, <1>4, FiberAssumption DEF RunReady, Resume, StackOK, SchedTypeOK
<1> QED
  BY <1>4, <1>5, <1>7, <1>8 DEF SchedInv, RunReady, Resume

LEMMA RunYieldedKeeps == SchedInv /\ RunYielded => SchedInv' /\ running' \in Fiber
<1> SUFFICES ASSUME SchedInv, RunYielded PROVE SchedInv' /\ running' \in Fiber
  OBVIOUS
<1>1. SchedTypeOK /\ QueueOK /\ StackOK
  BY DEF SchedInv
<1>2. yieldQueue \in Seq(Fiber) /\ yieldQueue # <<>> /\ NoRepeats(yieldQueue)
  BY <1>1 DEF RunYielded, SchedTypeOK, QueueOK
<1>3. /\ Head(yieldQueue) \in Members(yieldQueue)
      /\ Lists(yieldQueue', Members(yieldQueue) \ {Head(yieldQueue)})
  BY <1>2, QueueTail DEF RunYielded, Lists
<1>4. Head(yieldQueue) \in Fiber /\ state[Head(yieldQueue)] = "Yielded"
  BY <1>1, <1>2, <1>3, HeadTailProperties DEF QueueOK, RunYielded, Resume
<1>5. SchedTypeOK'
  BY <1>1, <1>3, <1>4 DEF RunYielded, Resume, SchedTypeOK, State, Lists
<1>6. YieldIn(state') = YieldIn(state) \ {Head(yieldQueue)} /\ ReadyIn(state') = ReadyIn(state)
  BY <1>1, <1>4 DEF RunYielded, Resume, ReadyIn, YieldIn, SchedTypeOK
<1>7. QueueOK'
  <2>1. Lists(yieldQueue, YieldIn(state)) /\ Lists(readyQueue, ReadyIn(state))
    BY <1>1, QueuesAsLists
  <2>2. Members(yieldQueue) \ {Head(yieldQueue)} = YieldIn(state')
    BY <1>6, <2>1 DEF Lists
  <2>3. Lists(yieldQueue', YieldIn(state'))
    BY <1>3, <2>2
  <2>4. Lists(readyQueue', ReadyIn(state'))
    BY <1>6, <2>1 DEF RunYielded
  <2> QED
    BY <1>5, <2>3, <2>4, QueuesAsListsNext
<1>8. StackOK'
  BY <1>1, <1>4, FiberAssumption DEF RunYielded, Resume, StackOK, SchedTypeOK
<1> QED
  BY <1>4, <1>5, <1>7, <1>8 DEF SchedInv, RunYielded, Resume

(* StackOK of given values: the states st, the continuations and the stack. *)
StackFor(st, parked, stack) ==
    \A f \in Fiber :
        /\ f = stack <=> st[f] \in {"Running", "Suspending", "Yielding", "Finishing"}
        /\ f \in parked <=> st[f] \in {"Suspending", "Suspended", "Yielding", "Yielded", "Ready"}

(* Scheduling, in a step that has first changed the states to st. *)
LEMMA ScheduleKeeps ==
    ASSUME SchedInv, NEW st \in [Fiber -> State], NEW fs \in SUBSET Fiber,
           ReadyIn(st) = ReadyIn(state), YieldIn(st) = YieldIn(state),
           Schedule(st, fs), UNCHANGED yieldQueue,
           continuation' \in SUBSET Fiber, running' \in Fiber \cup {None},
           StackFor(st, continuation', running')
    PROVE  SchedInv'
<1>1. SchedTypeOK /\ QueueOK
  BY DEF SchedInv
<1>2. Lists(readyQueue, ReadyIn(st)) /\ Lists(yieldQueue, YieldIn(st))
  BY <1>1, QueuesAsLists
<1>3. /\ state' \in [Fiber -> State]
      /\ state' = [f \in Fiber |-> IF f \in Sleeping(st, fs) THEN "Ready" ELSE st[f]]
      /\ Lists(readyQueue', ReadyIn(state'))
      /\ YieldIn(state') = YieldIn(st)
  BY <1>2, ScheduleEffect
<1>4. SchedTypeOK'
  BY <1>1, <1>3 DEF SchedTypeOK, Lists
<1>5. Lists(yieldQueue', YieldIn(state'))
  BY <1>2, <1>3
<1>6. QueueOK'
  BY <1>3, <1>4, <1>5, QueuesAsListsNext
<1>7. StackOK'
  BY <1>3 DEF StackFor, StackOK, Sleeping
<1> QED
  BY <1>4, <1>6, <1>7 DEF SchedInv

(* A step that moves fibers only between states no queue knows of. *)
LEMMA RelabelKeeps ==
    ASSUME SchedInv, state' \in [Fiber -> State],
           ReadyIn(state') = ReadyIn(state), YieldIn(state') = YieldIn(state),
           UNCHANGED <<readyQueue, yieldQueue>>,
           continuation' \in SUBSET Fiber, running' \in Fiber \cup {None},
           StackFor(state', continuation', running')
    PROVE  SchedInv'
<1>1. SchedTypeOK /\ QueueOK
  BY DEF SchedInv
<1>2. Lists(readyQueue', ReadyIn(state')) /\ Lists(yieldQueue', YieldIn(state'))
  BY <1>1, QueuesAsLists
<1>3. SchedTypeOK'
  BY <1>1 DEF SchedTypeOK
<1>4. QueueOK'
  BY <1>2, <1>3, QueuesAsListsNext
<1>5. StackOK'
  BY DEF StackFor, StackOK
<1> QED
  BY <1>3, <1>4, <1>5 DEF SchedInv

LEMMA SuspendKeeps ==
    ASSUME SchedInv, NEW f \in Fiber, Suspend(f), UNCHANGED <<readyQueue, yieldQueue, running>>
    PROVE  SchedInv'
<1>1. SchedTypeOK /\ StackOK
  BY DEF SchedInv
<1>2. /\ state' \in [Fiber -> State]
      /\ continuation' \in SUBSET Fiber /\ running' \in Fiber \cup {None}
  BY <1>1 DEF Suspend, SchedTypeOK, State
<1>3. ReadyIn(state') = ReadyIn(state) /\ YieldIn(state') = YieldIn(state)
  BY <1>1 DEF Suspend, ReadyIn, YieldIn, SchedTypeOK
<1>4. StackFor(state', continuation', running')
  BY <1>1 DEF Suspend, StackFor, StackOK, SchedTypeOK
<1> QED
  BY <1>2, <1>3, <1>4, RelabelKeeps

LEMMA ParkedKeeps ==
    ASSUME SchedInv, NEW f \in Fiber, Parked(f)
    PROVE  SchedInv'
<1>1. SchedTypeOK /\ StackOK
  BY DEF SchedInv
<1>2. /\ state' \in [Fiber -> State]
      /\ continuation' \in SUBSET Fiber /\ running' \in Fiber \cup {None}
  BY <1>1 DEF Parked, SchedTypeOK, State
<1>3. ReadyIn(state') = ReadyIn(state) /\ YieldIn(state') = YieldIn(state)
  BY <1>1 DEF Parked, ReadyIn, YieldIn, SchedTypeOK
<1>4. StackFor(state', continuation', running')
  BY <1>1, FiberAssumption DEF Parked, StackFor, StackOK, SchedTypeOK
<1> QED
  BY <1>2, <1>3, <1>4, RelabelKeeps DEF Parked

LEMMA YieldKeeps ==
    ASSUME SchedInv, NEW f \in Fiber, OmniYield(f), UNCHANGED <<readyQueue, running>>
    PROVE  SchedInv'
<1>1. SchedTypeOK /\ StackOK
  BY DEF SchedInv
<1>2. Lists(readyQueue, ReadyIn(state)) /\ Lists(yieldQueue, YieldIn(state))
  BY QueuesAsLists DEF SchedInv
<1>3. YieldIn(state') = YieldIn(state) \cup {f} /\ ReadyIn(state') = ReadyIn(state)
  BY <1>1 DEF OmniYield, ReadyIn, YieldIn, SchedTypeOK
<1>4. Lists(yieldQueue', YieldIn(state'))
  <2>1. yieldQueue \in Seq(Fiber) /\ NoRepeats(yieldQueue) /\ Members(yieldQueue) = YieldIn(state)
    BY <1>2 DEF Lists
  <2>2. f \notin YieldIn(state)
    BY DEF OmniYield, YieldIn
  <2> QED
    BY <1>3, <2>1, <2>2, QueueAppend DEF OmniYield, Lists
<1>5. SchedTypeOK'
  BY <1>1, <1>4 DEF OmniYield, SchedTypeOK, State, Lists
<1>6. QueueOK'
  <2>1. Lists(readyQueue', ReadyIn(state'))
    BY <1>2, <1>3
  <2> QED
    BY <1>4, <1>5, <2>1, QueuesAsListsNext
<1>7. StackOK'
  BY <1>1 DEF OmniYield, StackOK, SchedTypeOK
<1> QED
  BY <1>5, <1>6, <1>7 DEF SchedInv

=============================================================================
