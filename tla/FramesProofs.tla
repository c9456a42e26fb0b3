---------------------------- MODULE FramesProofs ----------------------------
(***************************************************************************
The links of the coroutines make a call stack for each fiber, the stacks of
two fibers have no frame in common, and a fiber's stack grows and shrinks only
at the end where the fiber is.
***************************************************************************)
EXTENDS Frames, ProgramProofs

FramesTypeOK ==
    /\ ProgramTypeOK
    /\ op \in [Fiber -> {"user", "resume", "unwind"}]
    /\ live \subseteq AnyFrame
    /\ holder \in [Frame -> AnyFrame \cup {None}]
    /\ caller \in [Frame -> AnyFrame \cup {None}]
    /\ ret \in [Frame -> {"none", "value", "error"}]
    /\ at \in [Fiber -> AnyFrame \cup {None}]
    /\ callee \in [AnyFrame -> Frame \cup {None}]
    /\ suspended \in [Fiber -> AnyFrame \cup {None}]

(* s begins with f, and each link leads one step back.                      *)
IsStack(links, f, s) ==
    /\ s \in Seq(AnyFrame) /\ s # <<>> /\ s[1] = f
    /\ \A i \in 2 .. Len(s) : s[i] \in Frame /\ links[s[i]] = s[i - 1]
    /\ NoRepeats(s)

(* It is the stack of f: of calls that have not ended, each in the scope    *)
(* that awaits it.                                                          *)
StackIs(f, s) ==
    /\ IsStack(caller, f, s)
    /\ s[Len(s)] = at[f]
    /\ Members(s) \subseteq live
    /\ \A i \in 2 .. Len(s) :
          ret[s[i]] = "none" /\ holder[s[i]] = s[i - 1] /\ callee[s[i - 1]] = s[i]

Stacks == \A f \in live \cap Fiber : StackIs(f, Stack[f])

Apart == \A f, g \in live \cap Fiber : f # g => Members(Stack[f]) \cap Members(Stack[g]) = {}

(* A call that ended has left nothing in its scope, and SpawnFiber holds    *)
(* one coroutine, which has ended once it runs again.                       *)
Scopes ==
    /\ \A c \in live \cap Frame : ret[c] # "none" => Held(c) = {}
    /\ \A f \in Fiber : \A c, d \in Held(f) : c = d
    /\ \A f \in Fiber : at[f] = f /\ callee[f] # None => \A c \in Held(f) : ret[c] # "none"

Printed ==
    \A f \in Fiber : suspended[f] # None =>
       suspended[f] = at[f] /\ state[f] \in {"Suspending", "Suspended", "Yielding", "Yielded", "Ready"}

Results ==
    \A f \in Fiber :
       /\ op[f] # "user" => running = f /\ state[f] = "Running"
       /\ op[f] = "resume" => callee[at[f]] \in Held(at[f]) /\ ret[callee[at[f]]] # "none"
       /\ op[f] = "unwind" => at[f] # f

FramesInv ==
    /\ FramesTypeOK /\ SchedInv /\ FramesGoWithScope
    /\ Stacks /\ Apart /\ Scopes /\ Printed /\ Results

-----------------------------------------------------------------------------
(***************************************************************************
The walk finds the stack, if there is one: by induction on its steps, as the
first step that went elsewhere.
***************************************************************************)
LEMMA Least ==
    ASSUME NEW n \in Nat, NEW S \in SUBSET (0 .. n), S # {}
    PROVE  \E m \in S : \A k \in S : m <= k
<1> DEFINE T == {1 .. k : k \in S}
<1>1. T \subseteq FiniteSubsetsOf(1 .. n) /\ T # {}
  <2>1. ASSUME NEW k \in S PROVE 1 .. k \subseteq 1 .. n /\ IsFiniteSet(1 .. k)
    <3>1. 1 .. k \subseteq 1 .. n
      OBVIOUS
    <3>2. IsFiniteSet(1 .. k)
      BY FS_Interval
    <3> QED
      BY <3>1, <3>2
  <2> QED
    BY <2>1 DEF FiniteSubsetsOf
<1>2. PICK x \in T : \A y \in T : ~ (<<y, x>> \in StrictSubsetOrdering(1 .. n))
  <2>1. IsWellFoundedOn(StrictSubsetOrdering(1 .. n), FiniteSubsetsOf(1 .. n))
    BY FS_StrictSubsetOrderingWellFounded
  <2> HIDE DEF T
  <2> QED
    BY <1>1, <2>1, WFMin
<1>3. PICK m \in S : x = 1 .. m
  OBVIOUS
<1>4. ASSUME NEW k \in S, k < m PROVE FALSE
  <2>1. 1 .. k \in T
    OBVIOUS
  <2>2. 1 .. k \subseteq 1 .. m /\ m \in 1 .. m /\ m \notin 1 .. k
    BY <1>4
  <2>3. <<1 .. k, 1 .. m>> \in StrictSubsetOrdering(1 .. n)
    BY <2>2 DEF StrictSubsetOrdering
  <2> QED
    BY <1>2, <1>3, <2>1, <2>3
<1> QED
  BY <1>4

Walked(links, p, walk, n) == IF n = 0 THEN <<p>> ELSE Outwards(links, walk[n - 1])

(* A function that obeys the recursion shows that the one Walk names does.  *)
LEMMA WalkIsDefined ==
    ASSUME NEW links, NEW p, NEW g,
           g = [n \in 0 .. Cardinality(Frame) |-> Walked(links, p, g, n)]
    PROVE  \E w : /\ w = [n \in 0 .. Cardinality(Frame) |-> Walked(links, p, w, n)]
                  /\ Walk(links, p) = w[Cardinality(Frame)]
BY DEF Walk, Walked

LEMMA WalkIsUnique ==
    ASSUME NEW links, NEW p, NEW N \in Nat, NEW v, NEW w,
           v = [n \in 0 .. N |-> Walked(links, p, v, n)],
           w = [n \in 0 .. N |-> Walked(links, p, w, n)]
    PROVE  v[N] = w[N]
<1> DEFINE bad == {n \in 0 .. N : v[n] # w[n]}
<1>1. \A n \in 0 .. N : v[n] = Walked(links, p, v, n) /\ w[n] = Walked(links, p, w, n)
  OBVIOUS
<1>2. ASSUME bad # {} PROVE FALSE
  <2>1. PICK m \in bad : \A k \in bad : m <= k
    <3> HIDE DEF bad
    <3>1. bad \in SUBSET (0 .. N)
      BY DEF bad
    <3> QED
      BY <1>2, <3>1, Least
  <2>2. m # 0
    BY <1>1 DEF Walked
  <2>3. v[m - 1] = w[m - 1]
    BY <2>1, <2>2
  <2> QED
    BY <1>1, <2>2, <2>3 DEF Walked
<1> QED
  BY <1>2

LEMMA StackIsShort ==
    ASSUME NEW links, NEW f, NEW s, IsStack(links, f, s)
    PROVE  Cardinality(Frame) \in Nat /\ Len(s) \in Nat \ {0} /\ Len(s) <= Cardinality(Frame) + 1
<1> DEFINE g == [i \in 1 .. Len(s) - 1 |-> s[i + 1]]
<1>1. Len(s) \in Nat \ {0}
  BY DEF IsStack
<1>2. g \in Injection(1 .. Len(s) - 1, Frame)
  BY <1>1 DEF IsStack, NoRepeats, Injection, IsInjective
<1>3. IsFiniteSet(Frame)
  BY FramesAssumption
<1>4. Cardinality(Frame) \in Nat /\ Cardinality(1 .. Len(s) - 1) <= Cardinality(Frame)
  BY <1>2, <1>3, FS_CardinalityType, FS_Injection
<1>5. Cardinality(1 .. Len(s) - 1) = Len(s) - 1
  BY <1>1, FS_Interval
<1> QED
  BY <1>1, <1>4, <1>5

LEMMA SuffixGrows ==
    ASSUME NEW S, NEW s \in Seq(S), NEW k \in 1 .. Len(s)
    PROVE  /\ Head(SubSeq(s, k, Len(s))) = s[k]
           /\ k > 1 => <<s[k - 1]>> \o SubSeq(s, k, Len(s)) = SubSeq(s, k - 1, Len(s))
<1>1. Len(s) \in k .. Len(s)
  OBVIOUS
<1>2. Head(SubSeq(s, k, Len(s))) = s[k]
  BY <1>1, HeadTailOfSubSeq
<1>3. ASSUME k > 1 PROVE <<s[k - 1]>> \o SubSeq(s, k, Len(s)) = SubSeq(s, k - 1, Len(s))
  <2>1. k - 1 \in 1 .. Len(s) /\ Len(s) \in k - 1 .. Len(s) /\ (k - 1) + 1 = k
    BY <1>3
  <2>2. SubSeq(s, k - 1, Len(s)) = <<s[k - 1]>> \o SubSeq(s, (k - 1) + 1, Len(s))
    BY <2>1, SubSeqRecursiveFirst
  <2> QED
    BY <2>1, <2>2
<1> QED
  BY <1>2, <1>3

(* The dump's walk returns the chain of calls as it is, the outermost first *)
(* and complete, whatever its length.                                       *)
THEOREM WalkFinds ==
    ASSUME NEW links, NEW f \in Fiber, NEW s, IsStack(links, f, s)
    PROVE  Walk(links, s[Len(s)]) = s
<1> DEFINE N == Cardinality(Frame)
           L == Len(s)
           First(n) == IF L > n THEN L - n ELSE 1
           g == [n \in 0 .. N |-> SubSeq(s, First(n), L)]
<1>1. N \in Nat /\ L \in Nat \ {0} /\ L <= N + 1 /\ s \in Seq(AnyFrame)
  BY StackIsShort DEF IsStack
<1>2. f \notin Frame
  BY FramesAssumption
<1>3. \A n \in 0 .. N : First(n) \in 1 .. L
  BY <1>1
<1>4. \A n \in 0 .. N : Head(g[n]) = s[First(n)]
  BY <1>1, <1>3, SuffixGrows
<1>5. ASSUME NEW n \in 1 .. N PROVE g[n] = Outwards(links, g[n - 1])
  <2>1. n \in 0 .. N /\ n - 1 \in 0 .. N
    BY <1>1
  <2>2. CASE L > n
    <3>1. First(n - 1) = L - (n - 1) /\ First(n) = First(n - 1) - 1 /\ First(n - 1) \in 2 .. L
      BY <1>1, <2>1, <2>2
    <3>2. s[First(n - 1)] \in Frame /\ links[s[First(n - 1)]] = s[First(n)]
      BY <3>1 DEF IsStack
    <3>3. \A k \in 2 .. L : <<s[k - 1]>> \o SubSeq(s, k, L) = SubSeq(s, k - 1, L)
      BY <1>1, SuffixGrows
    <3>4. g[n] = SubSeq(s, First(n - 1) - 1, L) /\ g[n - 1] = SubSeq(s, First(n - 1), L)
      BY <2>1, <3>1
    <3> HIDE DEF g, First
    <3> QED
      BY <1>4, <2>1, <3>1, <3>2, <3>3, <3>4 DEF Outwards
  <2>3. CASE L <= n
    <3>1. First(n - 1) = 1 /\ First(n) = 1
      BY <1>1, <2>1, <2>3
    <3>2. g[n] = g[n - 1]
      BY <2>1, <3>1
    <3>3. Head(g[n - 1]) = f
      <4> HIDE DEF g, First
      <4> QED
        BY <1>4, <2>1, <3>1 DEF IsStack
    <3> HIDE DEF g
    <3> QED
      BY <1>2, <3>2, <3>3 DEF Outwards
  <2> QED
    BY <1>1, <2>2, <2>3
<1>6. g[0] = <<s[L]>>
  <2>1. SubSeq(s, L, L) = <<s[L]>> \o SubSeq(s, L + 1, L)
    BY <1>1, SubSeqRecursiveFirst
  <2>2. SubSeq(s, L + 1, L) = <<>>
    BY <1>1, SubSeqEmpty
  <2>3. SubSeq(s, L, L) = <<s[L]>>
    <3>1. <<s[L]>> \in Seq(AnyFrame)
      BY <1>1
    <3> QED
      BY <2>1, <2>2, <3>1, ConcatEmptySeq
  <2>4. First(0) = L /\ 0 \in 0 .. N
    BY <1>1
  <2> HIDE DEF N, L
  <2> QED
    BY <2>3, <2>4
<1>7. g[N] = s
  <2>1. First(N) = 1
    BY <1>1
  <2> QED
    BY <1>1, <2>1, SubSeqFull
<1>8. g = [n \in 0 .. N |-> Walked(links, s[L], g, n)]
  <2>1. \A n \in 0 .. N : n # 0 => n \in 1 .. N
    BY <1>1
  <2>2. \A n \in 0 .. N : g[n] = Walked(links, s[L], g, n)
    <3> HIDE DEF g
    <3> QED
      BY <1>5, <1>6, <2>1 DEF Walked
  <2> QED
    BY <2>2
<1> HIDE DEF g
<1> QED
  BY <1>1, <1>7, <1>8, WalkIsDefined, WalkIsUnique

-----------------------------------------------------------------------------
(***************************************************************************
What the invariant says of one fiber.
***************************************************************************)
LEMMA Kinds ==
    /\ \A f \in Fiber : f \in AnyFrame /\ f \notin Frame /\ f # None
    /\ \A c \in Frame : c \in AnyFrame /\ c \notin Fiber /\ c # None
    /\ None \notin AnyFrame
BY FramesAssumption, FiberAssumption DEF AnyFrame

LEMMA StackFacts ==
    ASSUME FramesInv, NEW f \in live \cap Fiber
    PROVE  /\ IsStack(caller, f, Stack[f])
           /\ Len(Stack[f]) \in Nat \ {0}
           /\ Stack[f][1] = f /\ Stack[f][Len(Stack[f])] = at[f]
           /\ Members(Stack[f]) \subseteq live
           /\ at[f] \in Members(Stack[f]) /\ f \in Members(Stack[f])
           /\ \A i \in 2 .. Len(Stack[f]) :
                 /\ ret[Stack[f][i]] = "none"
                 /\ holder[Stack[f][i]] = Stack[f][i - 1]
                 /\ callee[Stack[f][i - 1]] = Stack[f][i]
<1>1. StackIs(f, Stack[f])
  BY DEF FramesInv, Stacks
<1> HIDE DEF Stack
<1>2. Len(Stack[f]) \in Nat \ {0}
  BY <1>1 DEF StackIs, IsStack
<1>3. at[f] \in Members(Stack[f]) /\ f \in Members(Stack[f])
  BY <1>1, <1>2 DEF StackIs, IsStack, Members
<1> QED
  BY <1>1, <1>2, <1>3 DEF StackIs, IsStack

(* Where a fiber is, seen from there. *)
LEMMA WhereItIs ==
    ASSUME FramesInv, NEW f \in live \cap Fiber
    PROVE  \/ at[f] = f /\ Len(Stack[f]) = 1
           \/ /\ at[f] \in Frame /\ Len(Stack[f]) > 1
              /\ caller[at[f]] = Stack[f][Len(Stack[f]) - 1]
              /\ caller[at[f]] \in AnyFrame
              /\ ret[at[f]] = "none"
              /\ holder[at[f]] = caller[at[f]]
              /\ callee[caller[at[f]]] = at[f]
<1>1. PICK s : s = Stack[f]
  OBVIOUS
<1>2. /\ Len(s) \in Nat \ {0} /\ s[1] = f /\ s[Len(s)] = at[f] /\ s \in Seq(AnyFrame)
      /\ \A i \in 2 .. Len(s) :
            /\ s[i] \in Frame /\ caller[s[i]] = s[i - 1]
            /\ ret[s[i]] = "none" /\ holder[s[i]] = s[i - 1] /\ callee[s[i - 1]] = s[i]
  BY <1>1, StackFacts DEF IsStack
<1>3. PICK n \in Nat \ {0} : n = Len(s)
  BY <1>2
<1>4. CASE n = 1
  BY <1>1, <1>2, <1>3, <1>4
<1>5. CASE n > 1
  <2>1. n \in 2 .. n /\ n - 1 \in 1 .. n
    BY <1>5
  <2>2. s[n - 1] \in AnyFrame
    BY <1>2, <1>3, <2>1
  <2>3. /\ at[f] \in Frame /\ caller[at[f]] = s[n - 1] /\ ret[at[f]] = "none"
        /\ holder[at[f]] = s[n - 1] /\ callee[s[n - 1]] = at[f]
    BY <1>2, <1>3, <2>1
  <2>4. caller[at[f]] \in AnyFrame /\ holder[at[f]] = caller[at[f]] /\ callee[caller[at[f]]] = at[f]
    BY <2>2, <2>3
  <2> QED
    BY <1>1, <1>3, <1>5, <2>3, <2>4
<1>6. n = 1 \/ n > 1
  OBVIOUS
<1> QED
  BY <1>4, <1>5, <1>6

(* A coroutine held where a fiber is has not been called yet, or has ended. *)
LEMMA HeldIsInNoStack ==
    ASSUME FramesInv, NEW f \in live \cap Fiber, NEW c \in Held(at[f]), NEW g \in live \cap Fiber
    PROVE  c \notin Members(Stack[g])
<1> SUFFICES ASSUME c \in Members(Stack[g]) PROVE FALSE
  OBVIOUS
<1>1. c \in Frame /\ holder[c] = at[f]
  BY DEF Held
<1>2. PICK s : s = Stack[g]
  OBVIOUS
<1>3. /\ Len(s) \in Nat \ {0} /\ s[1] = g /\ s[Len(s)] = at[g]
      /\ NoRepeats(s)
      /\ \A i \in 2 .. Len(s) : holder[s[i]] = s[i - 1]
  BY <1>2, StackFacts DEF IsStack
<1>4. PICK i \in 1 .. Len(s) : s[i] = c
  BY <1>2 DEF Members
<1>5. i \in 2 .. Len(s) /\ i - 1 \in 1 .. Len(s) /\ Len(s) \in 1 .. Len(s) /\ i - 1 # Len(s)
  <2>1. i # 1
    BY <1>1, <1>3, <1>4, Kinds
  <2> QED
    BY <1>3, <2>1
<1>6. s[i - 1] = at[f]
  BY <1>1, <1>3, <1>4, <1>5
<1>7. at[f] \in Members(Stack[g]) /\ at[f] \in Members(Stack[f])
  BY <1>2, <1>5, <1>6, StackFacts DEF Members
<1>8. g = f
  BY <1>7 DEF FramesInv, Apart
<1> QED
  BY <1>3, <1>5, <1>6, <1>8 DEF NoRepeats

LEMMA AllInTheirOwnCode ==
    ASSUME FramesInv, running # None => state[running] # "Running" \/ op[running] = "user"
    PROVE  \A f \in Fiber : op[f] = "user"
BY FiberAssumption DEF FramesInv, Results

(* What is left to show of a stack after a step. *)
LEMMA NewStack ==
    ASSUME NEW f \in Fiber, f \in live', NEW s, IsStack(caller', f, s), s[Len(s)] = at'[f],
           Members(s) \subseteq live',
           \A i \in 2 .. Len(s) :
              ret'[s[i]] = "none" /\ holder'[s[i]] = s[i - 1] /\ callee'[s[i - 1]] = s[i]
    PROVE  Stack'[f] = s /\ StackIs(f, Stack[f])'
<1>1. Walk(caller', at'[f]) = s
  BY WalkFinds
<1>2. Stack'[f] = s
  BY <1>1 DEF Stack, Backtrace
<1> QED
  BY <1>2 DEF StackIs

LEMMA SameStack ==
    ASSUME FramesInv, NEW f \in live \cap Fiber, f \in live', at'[f] = at[f],
           Members(Stack[f]) \subseteq live',
           \A c \in Members(Stack[f]) \cap Frame :
              caller'[c] = caller[c] /\ ret'[c] = ret[c] /\ holder'[c] = holder[c],
           \A c \in Members(Stack[f]) \ {at[f]} : callee'[c] = callee[c]
    PROVE  Stack'[f] = Stack[f] /\ StackIs(f, Stack[f])'
<1>1. PICK s : s = Stack[f]
  OBVIOUS
<1>2. /\ IsStack(caller, f, s) /\ s[Len(s)] = at[f] /\ Len(s) \in Nat \ {0}
      /\ \A i \in 2 .. Len(s) :
            ret[s[i]] = "none" /\ holder[s[i]] = s[i - 1] /\ callee[s[i - 1]] = s[i]
  BY <1>1, StackFacts DEF FramesInv, Stacks, StackIs
<1>3. \A i \in 2 .. Len(s) :
         /\ s[i] \in Members(Stack[f]) \cap Frame
         /\ s[i - 1] \in Members(Stack[f]) \ {at[f]}
  <2> SUFFICES ASSUME NEW i \in 2 .. Len(s)
               PROVE  s[i] \in Members(Stack[f]) \cap Frame /\ s[i - 1] \in Members(Stack[f]) \ {at[f]}
    OBVIOUS
  <2>1. i \in 1 .. Len(s) /\ i - 1 \in 1 .. Len(s) /\ Len(s) \in 1 .. Len(s) /\ i - 1 # Len(s)
    BY <1>2
  <2> QED
    BY <1>1, <1>2, <2>1 DEF Members, IsStack, NoRepeats
<1>4. IsStack(caller', f, s)
  BY <1>2, <1>3 DEF IsStack
<1>5. \A i \in 2 .. Len(s) :
         ret'[s[i]] = "none" /\ holder'[s[i]] = s[i - 1] /\ callee'[s[i - 1]] = s[i]
  BY <1>2, <1>3
<1> QED
  BY <1>1, <1>2, <1>4, <1>5, NewStack

-----------------------------------------------------------------------------
(***************************************************************************
What each action does to the stacks, and that frames still go with the scope.
***************************************************************************)
Structure == FramesGoWithScope /\ Stacks /\ Apart /\ Scopes

LEMMA OneStackChanges ==
    ASSUME FramesInv, NEW f \in Fiber, NEW t,
           \A g \in Fiber \ {f} : g \in live' <=> g \in live,
           \A g \in (live \cap Fiber) \ {f} : Stack'[g] = Stack[g] /\ StackIs(g, Stack[g])',
           f \in live' => /\ Stack'[f] = t /\ StackIs(f, Stack[f])'
                          /\ \A g \in (live \cap Fiber) \ {f} : Members(t) \cap Members(Stack[g]) = {},
           f \notin live' => t = <<>>
    PROVE  Stacks' /\ Apart' /\ Stack' = [Stack EXCEPT ![f] = t]
<1>1. Stacks'
  BY DEF Stacks
<1>2. Apart'
  BY DEF Apart, FramesInv
<1>3. \A g \in Fiber : Stack'[g] = IF g = f THEN t ELSE Stack[g]
  <2>1. \A g \in Fiber : g \notin live' => Stack'[g] = <<>>
    BY DEF Stack
  <2>2. \A g \in Fiber : g \notin live => Stack[g] = <<>>
    BY DEF Stack
  <2> QED
    BY <2>1, <2>2
<1>4. Stack' = [g \in Fiber |-> Stack'[g]] /\ Stack = [g \in Fiber |-> Stack[g]]
  BY DEF Stack
<1> HIDE DEF Stack
<1>5. Stack' = [g \in Fiber |-> IF g = f THEN t ELSE Stack[g]]
  BY <1>3, <1>4
<1>6. [Stack EXCEPT ![f] = t] = [g \in Fiber |-> IF g = f THEN t ELSE Stack[g]]
  BY <1>4
<1> QED
  BY <1>1, <1>2, <1>5, <1>6

LEMMA SameFrames ==
    ASSUME FramesInv, UNCHANGED <<live, holder, caller, ret, at, callee>>,
           \A f \in Fiber : state'[f] \in {"Absent", "Finished"} <=> state[f] \in {"Absent", "Finished"}
    PROVE  Structure' /\ Stack' = Stack
<1>1. Stack' = Stack
  BY DEF Stack, Backtrace
<1>2. Stacks' /\ Apart'
  <2>1. \A f \in live \cap Fiber : StackIs(f, Stack[f])'
    BY StackFacts, SameStack
  <2> QED
    BY <1>1, <2>1 DEF FramesInv, Stacks, Apart
<1>3. FramesGoWithScope' /\ Scopes'
  BY DEF FramesInv, FramesGoWithScope, Scopes, Held
<1> QED
  BY <1>1, <1>2, <1>3 DEF Structure

LEMMA CreateShape ==
    ASSUME FramesInv, NEW f \in Fiber, NEW c \in Frame, Create(f, c)
    PROVE  Structure' /\ Stack' = Stack
<1>1. /\ f \in live /\ at[f] \in live /\ c \notin live /\ UNCHANGED <<state, at>>
      /\ live' = live \cup {c} /\ holder' = [holder EXCEPT ![c] = at[f]]
      /\ caller' = [caller EXCEPT ![c] = None] /\ ret' = [ret EXCEPT ![c] = "none"]
      /\ callee' = [callee EXCEPT ![c] = None]
      /\ at[f] = f => Held(f) = {} /\ callee[f] = None
  BY StackFacts DEF FramesInv, FramesGoWithScope, Create, Code, Set, progVars, schedVars
<1>2. FramesTypeOK /\ c \notin Fiber /\ c \in AnyFrame
  BY Kinds DEF FramesInv
<1>3. \A p : Held(p)' = IF p = at[f] THEN Held(p) \cup {c} ELSE Held(p)
  BY <1>1, <1>2 DEF Held, FramesTypeOK
<1>4. ASSUME NEW g \in live \cap Fiber PROVE Stack'[g] = Stack[g] /\ StackIs(g, Stack[g])'
  <2>1. Members(Stack[g]) \subseteq live
    BY StackFacts
  <2>2. c \notin Members(Stack[g])
    BY <1>1, <2>1
  <2> QED
    BY <1>1, <1>2, <2>1, <2>2, SameStack DEF FramesTypeOK
<1>5. Stack' = Stack
  BY <1>1, <1>2, <1>4 DEF Stack
<1>6. Stacks' /\ Apart'
  BY <1>1, <1>2, <1>4, <1>5 DEF FramesInv, Stacks, Apart
<1>7. FramesGoWithScope'
  BY <1>1, <1>2 DEF FramesInv, FramesGoWithScope, FramesTypeOK
<1>8. Scopes'
  <2>1. Held(c) = {} /\ c # at[f]
    BY <1>1 DEF FramesInv, FramesGoWithScope, Held
  <2>2. at[f] = f \/ (at[f] \in Frame /\ ret[at[f]] = "none")
    BY <1>1, WhereItIs
  <2>3. ASSUME NEW d \in live' \cap Frame, ret'[d] # "none" PROVE Held(d)' = {}
    BY <1>1, <1>2, <1>3, <2>2, <2>3, Kinds DEF FramesInv, Scopes, FramesTypeOK
  <2>4. ASSUME NEW g \in Fiber, NEW d \in Held(g)', NEW e \in Held(g)' PROVE d = e
    BY <1>1, <1>3, <2>2, Kinds DEF FramesInv, Scopes
  <2>5. ASSUME NEW g \in Fiber, at'[g] = g, callee'[g] # None, NEW d \in Held(g)' PROVE ret'[d] # "none"
    BY <1>1, <1>2, <1>3, <2>2, <2>5, Kinds DEF FramesInv, Scopes, FramesTypeOK, Held
  <2> QED
    BY <2>3, <2>4, <2>5 DEF Scopes
<1> QED
  BY <1>5, <1>6, <1>7, <1>8 DEF Structure

LEMMA DestroyShape ==
    ASSUME FramesInv, NEW f \in Fiber, NEW c \in Frame, Destroy(f, c)
    PROVE  Structure' /\ Stack' = Stack
<1>1. /\ f \in live /\ c \in Held(at[f]) /\ ret[c] # "none" /\ live' = live \ {c}
      /\ UNCHANGED <<state, holder, caller, ret, at, callee>>
  BY DEF FramesInv, FramesGoWithScope, Destroy, Code, progVars, schedVars
<1>2. c \notin Fiber /\ c \in live
  BY <1>1, Kinds DEF Held
<1>3. Held(c) = {} /\ \A p : Held(p)' = Held(p) \ {c}
  BY <1>1, <1>2 DEF FramesInv, Scopes, Held
<1>4. ASSUME NEW g \in live \cap Fiber PROVE Stack'[g] = Stack[g] /\ StackIs(g, Stack[g])'
  <2>1. Members(Stack[g]) \subseteq live /\ c \notin Members(Stack[g])
    BY <1>1, StackFacts, HeldIsInNoStack
  <2> QED
    BY <1>1, <1>2, <2>1, SameStack
<1>5. Stack' = Stack
  BY <1>1, <1>2, <1>4 DEF Stack
<1>6. Stacks' /\ Apart'
  BY <1>1, <1>2, <1>4, <1>5 DEF FramesInv, Stacks, Apart
<1>7. FramesGoWithScope'
  BY <1>1, <1>2, <1>3 DEF FramesInv, FramesGoWithScope, Held
<1>8. Scopes'
  BY <1>1, <1>3 DEF FramesInv, Scopes
<1> QED
  BY <1>5, <1>6, <1>7, <1>8 DEF Structure

LEMMA BeginShape ==
    ASSUME FramesInv, NEW f \in Fiber, Begin(f)
    PROVE  Structure' /\ Stack[f] = <<>> /\ Stack' = [Stack EXCEPT ![f] = <<f>>]
<1>1. /\ state[f] = "Absent" /\ state' = [state EXCEPT ![f] = "Ready"]
      /\ live' = live \cup {f} /\ at' = [at EXCEPT ![f] = f]
      /\ UNCHANGED <<holder, caller, ret, callee>>
  BY StartKeeps DEF FramesInv, Begin, Set
<1>2. state \in [Fiber -> State] /\ at \in [Fiber -> AnyFrame \cup {None}]
  BY DEF FramesInv, FramesTypeOK, SchedInv, SchedTypeOK
<1>3. f \notin live /\ f \notin Frame
  BY <1>1, Kinds DEF FramesInv, FramesGoWithScope
<1>4. \A p : Held(p)' = Held(p)
  BY <1>1, <1>3 DEF Held
<1>5. ASSUME NEW g \in live \cap Fiber
      PROVE  /\ Stack'[g] = Stack[g] /\ StackIs(g, Stack[g])'
             /\ Members(<<f>>) \cap Members(Stack[g]) = {}
  <2>1. g # f /\ Members(Stack[g]) \subseteq live
    BY <1>3, StackFacts
  <2>2. f \notin Members(Stack[g])
    BY <1>3, <2>1
  <2>3. Members(<<f>>) \cap Members(Stack[g]) = {}
    BY <2>2 DEF Members
  <2> QED
    BY <1>1, <1>2, <2>1, <2>3, SameStack
<1>6. Stack'[f] = <<f>> /\ StackIs(f, Stack[f])'
  <2>1. PICK s : s = <<f>>
    OBVIOUS
  <2>2. IsStack(caller', f, s) /\ Len(s) = 1 /\ Members(s) = {f}
    BY <2>1, Kinds DEF IsStack, NoRepeats, Members
  <2> QED
    BY <1>1, <1>2, <2>1, <2>2, NewStack
<1>7. Stacks' /\ Apart' /\ Stack' = [Stack EXCEPT ![f] = <<f>>]
  <2>1. PICK t : t = <<f>>
    OBVIOUS
  <2> QED
    BY <1>1, <1>5, <1>6, <2>1, OneStackChanges
<1>8. FramesGoWithScope'
  BY <1>1, <1>2, <1>3 DEF FramesInv, FramesGoWithScope
<1>9. Scopes'
  <2>1. Held(f) = {}
    BY <1>3 DEF FramesInv, FramesGoWithScope, Held
  <2> QED
    BY <1>1, <1>2, <1>3, <1>4, <2>1 DEF FramesInv, Scopes
<1>10. Stack[f] = <<>>
  BY <1>3 DEF Stack
<1> QED
  BY <1>7, <1>8, <1>9, <1>10 DEF Structure

LEMMA EndShape ==
    ASSUME FramesInv, NEW f \in Fiber, End(f)
    PROVE  Structure' /\ Len(Stack[f]) = 1 /\ Stack' = [Stack EXCEPT ![f] = <<>>]
<1>1. /\ state[f] = "Running" /\ state' = [state EXCEPT ![f] = "Finished"]
      /\ at[f] = f /\ callee[f] # None
      /\ live' = live \ (Held(f) \cup {f})
      /\ UNCHANGED <<holder, caller, ret, at, callee>>
  BY DEF End, Finish, Code
<1>2. state \in [Fiber -> State]
  BY DEF FramesInv, FramesTypeOK, SchedInv, SchedTypeOK
<1>3. f \in live /\ f \notin Frame
  BY <1>1, Kinds DEF FramesInv, FramesGoWithScope
<1>4. \A c \in Held(f) : c \in Frame /\ c \notin Fiber /\ Held(c) = {}
  BY <1>1, Kinds DEF FramesInv, Scopes, Held
<1>5. \A p : Held(p)' = Held(p) \ Held(f)
  BY <1>1, <1>3 DEF Held
<1>6. ASSUME NEW g \in (live \cap Fiber) \ {f}
      PROVE  g \in live' /\ Stack'[g] = Stack[g] /\ StackIs(g, Stack[g])'
  <2>1. g \in live' /\ Members(Stack[g]) \subseteq live
    BY <1>1, <1>4, StackFacts
  <2>2. f \notin Members(Stack[g])
    BY <1>3, StackFacts DEF FramesInv, Apart
  <2>3. Held(f) \cap Members(Stack[g]) = {}
    BY <1>1, <1>3, HeldIsInNoStack
  <2>4. Members(Stack[g]) \subseteq live'
    BY <1>1, <2>1, <2>2, <2>3
  <2> QED
    BY <1>1, <2>1, <2>4, SameStack
<1>7. Stacks' /\ Apart' /\ Stack' = [Stack EXCEPT ![f] = <<>>]
  <2>1. PICK t : t = <<>>
    OBVIOUS
  <2> QED
    BY <1>1, <1>6, <2>1, OneStackChanges
<1>8. FramesGoWithScope'
  <2>1. \A c \in live' \cap Frame : holder'[c] \in live'
    BY <1>1, <1>4 DEF FramesInv, FramesGoWithScope, Held
  <2>2. live' \cap Fiber = {g \in Fiber : state'[g] \notin {"Absent", "Finished"}}
    BY <1>1, <1>2, <1>4 DEF FramesInv, FramesGoWithScope
  <2> QED
    BY <2>1, <2>2 DEF FramesGoWithScope
<1>9. Scopes'
  BY <1>1, <1>5 DEF FramesInv, Scopes
<1>10. Len(Stack[f]) = 1
  BY <1>1, <1>3, WhereItIs
<1> QED
  BY <1>7, <1>8, <1>9, <1>10 DEF Structure

LEMMA CoAwaitShape ==
    ASSUME FramesInv, NEW f \in Fiber, NEW c \in Frame, CoAwait(f, c)
    PROVE  /\ Structure'
           /\ \A g \in live \cap Fiber : c \notin Members(Stack[g])
           /\ Stack[f] # <<>> /\ Stack' = [Stack EXCEPT ![f] = Append(Stack[f], c)]
<1>1. /\ f \in live /\ c \in Held(at[f]) /\ ret[c] = "none"
      /\ caller' = [caller EXCEPT ![c] = at[f]]
      /\ callee' = [callee EXCEPT ![at[f]] = c]
      /\ at' = [at EXCEPT ![f] = c]
      /\ UNCHANGED <<state, live, holder, ret>>
  BY DEF FramesInv, FramesGoWithScope, CoAwait, Code, Set, progVars, schedVars
<1>2. FramesTypeOK /\ c \in live /\ holder[c] = at[f] /\ at[f] \in live /\ at[f] \in AnyFrame
  BY <1>1, StackFacts DEF FramesInv, FramesTypeOK, Held
<1>3. \A p : Held(p)' = Held(p)
  BY <1>1 DEF Held
<1>4. \A g \in live \cap Fiber : c \notin Members(Stack[g])
  BY <1>1, HeldIsInNoStack
<1>5. ASSUME NEW g \in (live \cap Fiber) \ {f}
      PROVE  Stack'[g] = Stack[g] /\ StackIs(g, Stack[g])' /\ at[f] \notin Members(Stack[g])
  <2>1. at[f] \notin Members(Stack[g])
    BY <1>1, StackFacts DEF FramesInv, Apart
  <2>2. \A p \in Members(Stack[g]) : p \in live /\ p # c /\ p # at[f]
    BY <1>4, <2>1, StackFacts
  <2> QED
    BY <1>1, <1>2, <2>1, <2>2, SameStack DEF FramesTypeOK
<1>6. PICK s : s = Stack[f]
  OBVIOUS
<1>7. PICK n \in Nat \ {0} : n = Len(s)
  BY <1>1, <1>6, StackFacts
<1>8. /\ s \in Seq(AnyFrame) /\ s[1] = f /\ s[n] = at[f] /\ NoRepeats(s) /\ Members(s) \subseteq live
      /\ \A i \in 2 .. n :
            /\ s[i] \in Frame /\ caller[s[i]] = s[i - 1] /\ ret[s[i]] = "none"
            /\ holder[s[i]] = s[i - 1] /\ callee[s[i - 1]] = s[i]
      /\ \A i \in 1 .. n : s[i] # c
  BY <1>1, <1>4, <1>6, <1>7, StackFacts DEF IsStack, Members
<1>9. PICK t : t = Append(s, c)
  OBVIOUS
<1>10. /\ t \in Seq(AnyFrame) /\ Len(t) = n + 1 /\ t[n + 1] = c
       /\ \A i \in 1 .. n : t[i] = s[i]
  BY <1>2, <1>7, <1>8, <1>9, Kinds
<1>11. Members(t) = Members(s) \cup {c}
  <2>1. Members(t) = {t[i] : i \in 1 .. n + 1} /\ Members(s) = {s[i] : i \in 1 .. n}
    BY <1>7, <1>10 DEF Members
  <2> QED
    BY <1>10, <2>1
<1>12. \A i \in 2 .. n + 1 :
          /\ t[i] \in Frame /\ caller'[t[i]] = t[i - 1] /\ ret'[t[i]] = "none"
          /\ holder'[t[i]] = t[i - 1] /\ callee'[t[i - 1]] = t[i]
  <2> SUFFICES ASSUME NEW i \in 2 .. n + 1
               PROVE  /\ t[i] \in Frame /\ caller'[t[i]] = t[i - 1] /\ ret'[t[i]] = "none"
                      /\ holder'[t[i]] = t[i - 1] /\ callee'[t[i - 1]] = t[i]
    OBVIOUS
  <2>1. CASE i = n + 1
    <3>1. t[i] = c /\ t[i - 1] = at[f]
      BY <1>8, <1>10, <2>1
    <3> QED
      BY <1>1, <1>2, <3>1 DEF FramesTypeOK
  <2>2. CASE i # n + 1
    <3>1. i \in 2 .. n /\ i \in 1 .. n /\ i - 1 \in 1 .. n /\ i - 1 # n /\ n \in 1 .. n
      BY <2>2
    <3>2. t[i] = s[i] /\ t[i - 1] = s[i - 1] /\ s[i] # c /\ s[i - 1] # at[f] /\ s[i - 1] \in AnyFrame
      BY <1>7, <1>8, <1>10, <3>1 DEF NoRepeats
    <3> QED
      BY <1>1, <1>2, <1>8, <3>1, <3>2 DEF FramesTypeOK
  <2> QED
    BY <2>1, <2>2
<1>13. NoRepeats(t)
  <2> SUFFICES ASSUME NEW i \in 1 .. n + 1, NEW j \in 1 .. n + 1, t[i] = t[j] PROVE i = j
    BY <1>10 DEF NoRepeats
  <2> QED
    BY <1>7, <1>8, <1>10 DEF NoRepeats
<1>14. Stack'[f] = t /\ StackIs(f, Stack[f])'
  <2>1. t # <<>> /\ t[1] = f
    BY <1>8, <1>10
  <2>2. IsStack(caller', f, t)
    BY <1>10, <1>12, <1>13, <2>1 DEF IsStack
  <2>3. t[Len(t)] = at'[f] /\ Members(t) \subseteq live'
    BY <1>1, <1>2, <1>8, <1>10, <1>11 DEF FramesTypeOK
  <2> QED
    BY <1>1, <1>10, <1>12, <2>2, <2>3, NewStack
<1>15. \A g \in (live \cap Fiber) \ {f} : Members(t) \cap Members(Stack[g]) = {}
  BY <1>1, <1>4, <1>6, <1>11 DEF FramesInv, Apart
<1>16. Stacks' /\ Apart' /\ Stack' = [Stack EXCEPT ![f] = t]
  BY <1>1, <1>5, <1>14, <1>15, OneStackChanges
<1>17. FramesGoWithScope'
  BY <1>1 DEF FramesInv, FramesGoWithScope
<1>18. Scopes'
  <2>1. at[f] = f \/ at[f] \notin Fiber
    BY <1>1, WhereItIs, Kinds
  <2>2. c \notin Fiber
    BY Kinds
  <2> QED
    BY <1>1, <1>2, <1>3, <2>1, <2>2 DEF FramesInv, Scopes, FramesTypeOK
<1>19. Stack[f] # <<>>
  BY <1>6, <1>7, <1>8
<1> QED
  BY <1>4, <1>6, <1>9, <1>16, <1>17, <1>18, <1>19 DEF Structure

LEMMA EndsShape ==
    ASSUME FramesInv, NEW f \in Fiber, state[f] = "Running", NEW r \in {"value", "error"}, Ends(f, r)
    PROVE  /\ Structure'
           /\ Len(Stack[f]) > 1
           /\ Stack' = [Stack EXCEPT ![f] = SubSeq(Stack[f], 1, Len(Stack[f]) - 1)]
           /\ at[f] \in live' \cap Frame /\ ret'[at[f]] = r
           /\ holder'[at[f]] = at'[f] /\ callee'[at'[f]] = at[f]
<1>1. /\ f \in live /\ at[f] \in Frame
      /\ \A c \in Held(at[f]) : ret[c] # "none"
      /\ live' = live \ Held(at[f])
      /\ ret' = [ret EXCEPT ![at[f]] = r]
      /\ at' = [at EXCEPT ![f] = caller[at[f]]]
      /\ UNCHANGED <<state, holder, caller, callee>>
  BY DEF FramesInv, FramesGoWithScope, Ends, Set, schedVars
<1>2. FramesTypeOK /\ at[f] \notin Fiber
  BY <1>1, Kinds DEF FramesInv
<1>3. /\ Len(Stack[f]) > 1 /\ caller[at[f]] = Stack[f][Len(Stack[f]) - 1] /\ caller[at[f]] \in AnyFrame
      /\ ret[at[f]] = "none" /\ holder[at[f]] = caller[at[f]] /\ callee[caller[at[f]]] = at[f]
  BY <1>1, <1>2, WhereItIs
<1>4. ret'[at[f]] = r /\ at'[f] = caller[at[f]] /\ r # "none" /\ \A c \in Frame : c # at[f] => ret'[c] = ret[c]
  BY <1>1, <1>2 DEF FramesTypeOK
<1>5. \A g \in live \cap Fiber : Members(Stack[g]) \subseteq live'
  BY <1>1, StackFacts, HeldIsInNoStack
<1>6. at[f] \in live' /\ at[f] \in live /\ f \in live'
  BY <1>1, <1>5, StackFacts
<1>7. /\ \A p : Held(p)' = Held(p) \ Held(at[f])
      /\ \A c \in Held(at[f]) : c \in Frame /\ c \notin Fiber /\ Held(c) = {}
  BY <1>1, Kinds DEF Held, FramesInv, Scopes
<1>8. ASSUME NEW g \in (live \cap Fiber) \ {f}
      PROVE  g \in live' /\ Stack'[g] = Stack[g] /\ StackIs(g, Stack[g])'
  <2>1. g \in live'
    BY <1>1, <1>7
  <2>2. at[f] \notin Members(Stack[g])
    BY <1>1, StackFacts DEF FramesInv, Apart
  <2> QED
    BY <1>1, <1>2, <1>4, <1>5, <2>1, <2>2, SameStack DEF FramesTypeOK
<1>9. PICK s : s = Stack[f]
  OBVIOUS
<1>10. PICK n \in Nat \ {0} : n = Len(s)
  BY <1>1, <1>9, StackFacts
<1>11. /\ s \in Seq(AnyFrame) /\ s[1] = f /\ s[n] = at[f] /\ NoRepeats(s) /\ Members(s) \subseteq live'
       /\ \A i \in 2 .. n :
             /\ s[i] \in Frame /\ caller[s[i]] = s[i - 1] /\ ret[s[i]] = "none"
             /\ holder[s[i]] = s[i - 1] /\ callee[s[i - 1]] = s[i]
  <2>1. f \in live \cap Fiber
    BY <1>1
  <2>2. /\ IsStack(caller, f, s) /\ s[1] = f /\ s[n] = at[f]
        /\ \A i \in 2 .. n :
              ret[s[i]] = "none" /\ holder[s[i]] = s[i - 1] /\ callee[s[i - 1]] = s[i]
    BY <1>9, <1>10, <2>1, StackFacts
  <2>3. Members(s) \subseteq live'
    BY <1>5, <1>9, <2>1
  <2>4. /\ s \in Seq(AnyFrame) /\ NoRepeats(s)
        /\ \A i \in 2 .. n : s[i] \in Frame /\ caller[s[i]] = s[i - 1]
    BY <1>10, <2>2 DEF IsStack
  <2> QED
    BY <2>2, <2>3, <2>4
<1>12. PICK m \in Nat \ {0} : n = m + 1
  <2>1. n > 1
    BY <1>3, <1>9, <1>10
  <2> QED
    BY <2>1
<1>13. PICK t : t = SubSeq(s, 1, m)
  OBVIOUS
<1>14. /\ t \in Seq(AnyFrame) /\ Len(t) = m
       /\ \A i \in 1 .. m : t[i] = s[i]
  <2>1. \A i \in 1 .. m : s[i] \in AnyFrame
    <3>1. \A i \in 1 .. m : i \in 1 .. Len(s)
      BY <1>10, <1>12
    <3> QED
      BY <1>11, <3>1
  <2> QED
    BY <1>12, <1>13, <2>1, SubSeqProperties
<1>15. Members(t) \subseteq Members(s)
  BY <1>10, <1>12, <1>14 DEF Members
<1>16. \A i \in 2 .. m :
          /\ t[i] \in Frame /\ caller'[t[i]] = t[i - 1] /\ ret'[t[i]] = "none"
          /\ holder'[t[i]] = t[i - 1] /\ callee'[t[i - 1]] = t[i]
  <2> SUFFICES ASSUME NEW i \in 2 .. m
               PROVE  /\ t[i] \in Frame /\ caller'[t[i]] = t[i - 1] /\ ret'[t[i]] = "none"
                      /\ holder'[t[i]] = t[i - 1] /\ callee'[t[i - 1]] = t[i]
    OBVIOUS
  <2>1. i \in 2 .. n /\ i \in 1 .. n /\ i \in 1 .. m /\ i - 1 \in 1 .. m /\ i # n /\ n \in 1 .. n
    BY <1>12
  <2>2. t[i] = s[i] /\ t[i - 1] = s[i - 1] /\ s[i] # at[f]
    BY <1>10, <1>11, <1>14, <2>1 DEF NoRepeats
  <2> QED
    BY <1>1, <1>4, <1>11, <2>1, <2>2
<1>17. Stack'[f] = t /\ StackIs(f, Stack[f])'
  <2>1. t # <<>> /\ t[1] = f /\ t[m] = s[m]
    BY <1>11, <1>14
  <2>2. NoRepeats(t)
    BY <1>10, <1>11, <1>12, <1>14 DEF NoRepeats
  <2>3. IsStack(caller', f, t)
    BY <1>14, <1>16, <2>1, <2>2 DEF IsStack
  <2>4. t[Len(t)] = at'[f]
    BY <1>3, <1>4, <1>9, <1>10, <1>12, <1>14, <2>1
  <2>5. Members(t) \subseteq live'
    BY <1>11, <1>15
  <2> QED
    BY <1>6, <1>14, <1>16, <2>3, <2>4, <2>5, NewStack
<1>18. \A g \in (live \cap Fiber) \ {f} : Members(t) \cap Members(Stack[g]) = {}
  BY <1>1, <1>9, <1>15 DEF FramesInv, Apart
<1>19. Stacks' /\ Apart' /\ Stack' = [Stack EXCEPT ![f] = t]
  <2>1. \A g \in Fiber \ {f} : g \in live' <=> g \in live
    BY <1>1, <1>7
  <2> QED
    BY <1>6, <1>8, <1>17, <1>18, <2>1, OneStackChanges
<1>20. FramesGoWithScope'
  <2>1. \A c \in live' \cap Frame : holder'[c] \in live'
    BY <1>1, <1>7 DEF FramesInv, FramesGoWithScope, Held
  <2>2. live' \cap Fiber = {g \in Fiber : state'[g] \notin {"Absent", "Finished"}}
    BY <1>1, <1>7 DEF FramesInv, FramesGoWithScope
  <2> QED
    BY <2>1, <2>2 DEF FramesGoWithScope
<1>21. at[f] \in live' \cap Frame /\ holder[at[f]] = at'[f]
  BY <1>1, <1>3, <1>4, <1>6
<1>22. Scopes'
  <2>1. ASSUME NEW d \in live' \cap Frame, ret'[d] # "none" PROVE Held(d)' = {}
    BY <1>1, <1>4, <1>7, <2>1 DEF FramesInv, Scopes
  <2>2. ASSUME NEW g \in Fiber, NEW d \in Held(g)', NEW e \in Held(g)' PROVE d = e
    BY <1>7 DEF FramesInv, Scopes
  <2>3. ASSUME NEW g \in Fiber, at'[g] = g, callee'[g] # None, NEW d \in Held(g)' PROVE ret'[d] # "none"
    <3>1. d \in Held(g) /\ d \in Frame
      BY <1>7 DEF Held
    <3>2. CASE g = f
      <4>1. at[f] \in Held(g)
        BY <1>6, <1>21, <2>3, <3>2 DEF Held
      <4>2. d = at[f]
        BY <3>1, <4>1 DEF FramesInv, Scopes
      <4> QED
        BY <1>4, <4>2
    <3>3. CASE g # f
      <4>1. at[g] = g /\ callee[g] # None
        BY <1>1, <1>2, <2>3, <3>3 DEF FramesTypeOK
      <4> QED
        BY <1>4, <3>1, <4>1 DEF FramesInv, Scopes
    <3> QED
      BY <3>2, <3>3
  <2> QED
    BY <2>1, <2>2, <2>3 DEF Scopes
<1>23. t = SubSeq(Stack[f], 1, Len(Stack[f]) - 1)
  BY <1>9, <1>10, <1>12, <1>13
<1> QED
  BY <1>1, <1>3, <1>4, <1>19, <1>20, <1>21, <1>22, <1>23 DEF Structure

-----------------------------------------------------------------------------
(***************************************************************************
Each action keeps the invariant.
***************************************************************************)
LEMMA QuietKeepsProgram ==
    ASSUME FramesInv, UNCHANGED <<schedVars, awaiting>>
    PROVE  SchedInv' /\ ProgramTypeOK'
BY DEF FramesInv, FramesTypeOK, ProgramTypeOK, SchedInv, SchedTypeOK, QueueOK, StackOK, schedVars

LEMMA CallsKeepFrames ==
    ASSUME FramesInv, NEW f \in Fiber, NEW c \in Frame, Create(f, c) \/ CoAwait(f, c) \/ Destroy(f, c)
    PROVE  FramesInv'
<1>1. /\ UNCHANGED <<schedVars, awaiting, op, suspended>>
      /\ state[f] = "Running" /\ running = f /\ op[f] = "user"
  BY DEF Create, CoAwait, Destroy, Code, progVars
<1>2. SchedInv' /\ ProgramTypeOK'
  BY <1>1, QuietKeepsProgram
<1>3. Structure'
  BY CreateShape, CoAwaitShape, DestroyShape
<1>4. c \in AnyFrame
  BY Kinds
<1>5. at[f] \in AnyFrame /\ at \in [Fiber -> AnyFrame \cup {None}]
  BY <1>1, StackFacts DEF FramesInv, FramesTypeOK, FramesGoWithScope
<1>6. FramesTypeOK'
  BY <1>1, <1>2, <1>4, <1>5 DEF FramesInv, FramesTypeOK, Create, CoAwait, Destroy, Set
<1>7. \A g \in Fiber : op[g] = "user"
  BY <1>1, AllInTheirOwnCode
<1>8. \A g \in Fiber : g # f => at'[g] = at[g]
  BY <1>5 DEF Create, CoAwait, Destroy, Set
<1>9. Printed'
  BY <1>1, <1>8 DEF FramesInv, Printed, schedVars
<1>10. Results'
  BY <1>1, <1>7 DEF Results
<1> QED
  BY <1>2, <1>3, <1>6, <1>9, <1>10 DEF FramesInv, Structure

LEMMA EndsKeepFrames ==
    ASSUME FramesInv, NEW f \in Fiber, Return(f) \/ Throw(f)
    PROVE  FramesInv'
<1>1. /\ state[f] = "Running" /\ running = f
      /\ UNCHANGED <<schedVars, awaiting, holder, caller, callee>>
      /\ op' = [op EXCEPT ![f] = "resume"]
      /\ at' = [at EXCEPT ![f] = caller[at[f]]]
      /\ suspended' = suspended \/ suspended' = [suspended EXCEPT ![f] = None]
      /\ at[f] \in Frame
      /\ live' = live \ Held(at[f])
  BY DEF Return, Throw, Code, Ends, Set
<1>2. PICK r \in {"value", "error"} : Ends(f, r)
  BY DEF Return, Throw
<1>3. /\ Structure'
      /\ at[f] \in live' \cap Frame /\ ret'[at[f]] = r
      /\ holder'[at[f]] = at'[f] /\ callee'[at'[f]] = at[f]
  BY <1>1, <1>2, EndsShape
<1>4. SchedInv' /\ ProgramTypeOK'
  BY <1>1, QuietKeepsProgram
<1>5. FramesTypeOK'
  <2>1. ret' = [ret EXCEPT ![at[f]] = r]
    BY <1>2 DEF Ends, Set
  <2>2. caller[at[f]] \in AnyFrame \cup {None} /\ None \in AnyFrame \cup {None}
    BY <1>1 DEF FramesInv, FramesTypeOK
  <2> QED
    BY <1>1, <1>4, <2>1, <2>2 DEF FramesInv, FramesTypeOK
<1>6. at \in [Fiber -> AnyFrame \cup {None}] /\ suspended \in [Fiber -> AnyFrame \cup {None}]
      /\ op \in [Fiber -> {"user", "resume", "unwind"}]
  BY DEF FramesInv, FramesTypeOK
<1>7. Printed'
  BY <1>1, <1>6 DEF FramesInv, Printed, schedVars
<1>8. Results'
  <2>1. \A g \in Fiber : g # f => op'[g] = "user"
    BY <1>1, <1>6 DEF FramesInv, Results
  <2>2. op'[f] = "resume" /\ ret'[callee'[at'[f]]] # "none" /\ callee'[at'[f]] \in Held(at[f])'
    BY <1>1, <1>3, <1>6 DEF Held
  <2> QED
    BY <1>1, <2>1, <2>2 DEF Results, schedVars
<1> QED
  BY <1>3, <1>4, <1>5, <1>7, <1>8 DEF FramesInv, Structure

LEMMA TakesKeepFrames ==
    ASSUME FramesInv, NEW f \in Fiber, Takes(f) \/ Catch(f)
    PROVE  FramesInv'
<1>1. /\ UNCHANGED <<schedVars, awaiting, frameVars>>
      /\ \/ op' = [op EXCEPT ![f] = "user"]
         \/ op' = [op EXCEPT ![f] = "unwind"] /\ at[f] # f
      /\ state[f] = "Running" /\ running = f
  BY DEF Takes, Catch, Code, Set
<1>2. SchedInv' /\ ProgramTypeOK'
  BY <1>1, QuietKeepsProgram
<1>3. Structure'
  BY <1>1, SameFrames DEF frameVars, schedVars
<1>4. FramesTypeOK'
  BY <1>1, <1>2 DEF FramesInv, FramesTypeOK, frameVars
<1>5. Printed'
  BY <1>1 DEF FramesInv, Printed, frameVars, schedVars
<1>6. Results'
  BY <1>1 DEF FramesInv, FramesTypeOK, Results, frameVars, schedVars, Held
<1> QED
  BY <1>2, <1>3, <1>4, <1>5, <1>6 DEF FramesInv, Structure

LEMMA TracesKeepsFrames ==
    ASSUME FramesInv, NEW f \in Fiber, Traces(f)
    PROVE  FramesInv'
<1>1. /\ UNCHANGED <<schedVars, awaiting, op, live, holder, caller, ret, at, callee>>
      /\ suspended' = [suspended EXCEPT ![f] = None]
  BY DEF Traces, Set, progVars
<1>2. SchedInv' /\ ProgramTypeOK'
  BY <1>1, QuietKeepsProgram
<1>3. Structure'
  BY <1>1, SameFrames DEF schedVars
<1>4. FramesTypeOK'
  BY <1>1, <1>2 DEF FramesInv, FramesTypeOK
<1>5. Printed'
  BY <1>1 DEF FramesInv, FramesTypeOK, Printed, schedVars
<1>6. Results'
  BY <1>1 DEF FramesInv, Results, schedVars, Held
<1> QED
  BY <1>2, <1>3, <1>4, <1>5, <1>6 DEF FramesInv, Structure

LEMMA BeginKeepsFrames ==
    ASSUME FramesInv, NEW f \in Fiber, Begin(f)
    PROVE  FramesInv'
<1>1. /\ state[f] = "Absent" /\ state' = [state EXCEPT ![f] = "Ready"]
      /\ at' = [at EXCEPT ![f] = f] /\ live' = live \cup {f}
      /\ UNCHANGED <<running, op, awaiting, holder, caller, ret, callee, suspended>>
      /\ Outside /\ SchedInv' /\ f \in AnyFrame
  BY StartKeeps, Kinds DEF FramesInv, Begin, Start, Set
<1>2. Structure'
  BY BeginShape
<1>3. FramesTypeOK'
  BY <1>1 DEF FramesInv, FramesTypeOK, ProgramTypeOK, SchedInv
<1>4. Printed'
  BY <1>1 DEF FramesInv, FramesTypeOK, Printed, SchedInv, SchedTypeOK
<1>5. \A g \in Fiber : op'[g] = "user"
  BY <1>1, AllInTheirOwnCode DEF Outside, Code
<1>6. Results'
  BY <1>5 DEF Results
<1> QED
  BY <1>1, <1>2, <1>3, <1>4, <1>6 DEF FramesInv, Structure

LEMMA EndKeepsFrames ==
    ASSUME FramesInv, NEW f \in Fiber, End(f)
    PROVE  FramesInv'
<1>1. /\ state[f] = "Running" /\ op[f] = "user" /\ running = f
      /\ live' = live \ (Held(f) \cup {f})
      /\ UNCHANGED <<op, awaiting, holder, caller, ret, at, callee, suspended>>
  BY DEF End, Finish, Code
<1>2. SchedInv' /\ state' = [state EXCEPT ![f] = "Finished"]
  BY FinishKeeps DEF FramesInv, End
<1>3. Structure'
  BY EndShape
<1>4. FramesTypeOK'
  BY <1>1, <1>2 DEF FramesInv, FramesTypeOK, ProgramTypeOK, SchedInv
<1>5. Printed'
  BY <1>1, <1>2 DEF FramesInv, Printed, SchedInv, SchedTypeOK
<1>6. \A g \in Fiber : op'[g] = "user"
  BY <1>1, AllInTheirOwnCode
<1>7. Results'
  BY <1>6 DEF Results
<1> QED
  BY <1>2, <1>3, <1>4, <1>5, <1>7 DEF FramesInv, Structure

LEMMA ParkKeepsFrames ==
    ASSUME FramesInv, NEW f \in Fiber, Park(f)
    PROVE  FramesInv'
<1>1. /\ state[f] = "Running" /\ op[f] = "user" /\ running = f
      /\ \/ state' = [state EXCEPT ![f] = "Suspending"]
         \/ state' = [state EXCEPT ![f] = "Yielding"]
      /\ suspended' = [suspended EXCEPT ![f] = at[f]]
      /\ UNCHANGED <<op, live, holder, caller, ret, at, callee>>
  BY DEF Park, Parks, Sleep, AwaitOn, Suspend, Yield, OmniYield, Code, Set
<1>2. SchedInv' /\ ProgramTypeOK'
  <2>1. OwnBusiness(f)
    BY DEF Park, Parks, OwnBusiness
  <2> QED
    BY <2>1, ProgramKeepsSched, ProgramKeepsType DEF FramesInv, FramesTypeOK
<1>3. Structure'
  BY <1>1, SameFrames DEF FramesInv, SchedInv, SchedTypeOK
<1>4. FramesTypeOK'
  BY <1>1, <1>2 DEF FramesInv, FramesTypeOK
<1>5. Printed'
  BY <1>1 DEF FramesInv, FramesTypeOK, Printed, SchedInv, SchedTypeOK
<1>6. \A g \in Fiber : op'[g] = "user"
  BY <1>1, AllInTheirOwnCode
<1>7. Results'
  BY <1>6 DEF Results
<1> QED
  BY <1>2, <1>3, <1>4, <1>5, <1>7 DEF FramesInv, Structure

LEMMA UnwindsKeepsFrames ==
    ASSUME FramesInv, NEW f \in Fiber, Unwinds(f)
    PROVE  FramesInv'
<1>1. /\ state[f] \in {"Suspending", "Yielding"} /\ running = f
      /\ \/ state' = [state EXCEPT ![f] = "Suspended"]
         \/ state' = [state EXCEPT ![f] = "Yielded"]
      /\ UNCHANGED <<op, frameVars>>
  BY DEF Unwinds, Unwind, Parked
<1>2. SchedInv' /\ ProgramTypeOK'
  <2>1. OwnBusiness(f)
    BY DEF Unwinds, OwnBusiness
  <2> QED
    BY <2>1, ProgramKeepsSched, ProgramKeepsType DEF FramesInv, FramesTypeOK
<1>3. Structure'
  BY <1>1, SameFrames DEF FramesInv, SchedInv, SchedTypeOK, frameVars
<1>4. FramesTypeOK'
  BY <1>1, <1>2 DEF FramesInv, FramesTypeOK, frameVars
<1>5. Printed'
  BY <1>1 DEF FramesInv, Printed, SchedInv, SchedTypeOK, frameVars
<1>6. \A g \in Fiber : op'[g] = "user"
  BY <1>1, AllInTheirOwnCode
<1>7. Results'
  BY <1>6 DEF Results
<1> QED
  BY <1>2, <1>3, <1>4, <1>5, <1>7 DEF FramesInv, Structure

(* The fiber that is resumed takes its note back. *)
LEMMA ResumesKeepsFrames ==
    ASSUME FramesInv, Resumes
    PROVE  FramesInv'
<1>1. /\ SchedInv' /\ running = None /\ running' \in Fiber
      /\ state[running'] \in {"Ready", "Yielded"}
      /\ state' = [state EXCEPT ![running'] = "Running"]
  BY RunKeeps DEF FramesInv, Resumes
<1>2. /\ suspended' = [suspended EXCEPT ![running'] = None]
      /\ UNCHANGED <<op, awaiting, live, holder, caller, ret, at, callee>>
  BY DEF Resumes, Set
<1>3. Structure'
  BY <1>1, <1>2, SameFrames DEF FramesInv, SchedInv, SchedTypeOK
<1>4. FramesTypeOK'
  BY <1>1, <1>2 DEF FramesInv, FramesTypeOK, ProgramTypeOK, SchedInv
<1>5. Printed'
  BY <1>1, <1>2 DEF FramesInv, FramesTypeOK, Printed, SchedInv, SchedTypeOK
<1>6. \A g \in Fiber : op'[g] = "user"
  BY <1>1, <1>2, AllInTheirOwnCode
<1>7. Results'
  BY <1>6 DEF Results
<1> QED
  BY <1>1, <1>3, <1>4, <1>5, <1>7 DEF FramesInv, Structure

LEMMA HandlerKeepsFrames ==
    ASSUME FramesInv, Handler
    PROVE  FramesInv'
<1>1. /\ Outside /\ UNCHANGED <<op, running, frameVars>>
      /\ awaiting' = [f \in Fiber |-> IF awaiting[f] = "elsewhere" THEN None ELSE awaiting[f]]
  BY DEF Handler, Elsewhere, Fire, Wake, Waiters
<1>2. /\ SchedInv'
      /\ state' = [f \in Fiber |-> IF awaiting[f] = "elsewhere" /\ state[f] = "Suspended"
                                       THEN "Ready" ELSE state[f]]
  BY FireKeeps DEF FramesInv, Handler, Elsewhere
<1>3. Structure'
  BY <1>1, <1>2, SameFrames DEF frameVars
<1>4. FramesTypeOK'
  BY <1>1, <1>2 DEF FramesInv, FramesTypeOK, ProgramTypeOK, SchedInv, frameVars
<1>5. Printed'
  BY <1>1, <1>2 DEF FramesInv, Printed, frameVars
<1>6. \A g \in Fiber : op'[g] = "user"
  BY <1>1, AllInTheirOwnCode DEF Outside, Code
<1>7. Results'
  BY <1>6 DEF Results
<1> QED
  BY <1>2, <1>3, <1>4, <1>5, <1>7 DEF FramesInv, Structure

LEMMA FramesStay == FramesInv /\ UNCHANGED vars => FramesInv' /\ Stack' = Stack
<1> SUFFICES ASSUME FramesInv, UNCHANGED vars PROVE FramesInv' /\ Stack' = Stack
  OBVIOUS
<1>1. UNCHANGED <<schedVars, op, awaiting, frameVars>>
  BY DEF vars, progVars
<1>2. SchedInv' /\ ProgramTypeOK'
  BY <1>1, QuietKeepsProgram
<1>3. Structure' /\ Stack' = Stack
  BY <1>1, SameFrames DEF frameVars, schedVars
<1>4. FramesTypeOK' /\ Printed' /\ Results'
  BY <1>1, <1>2 DEF FramesInv, FramesTypeOK, Printed, Results, frameVars, schedVars, Held
<1> QED
  BY <1>2, <1>3, <1>4 DEF FramesInv, Structure

LEMMA FramesStep == FramesInv /\ [Next]_vars => FramesInv'
<1> SUFFICES ASSUME FramesInv, [Next]_vars PROVE FramesInv'
  OBVIOUS
<1>1. CASE Resumes \/ Handler \/ Over \/ UNCHANGED vars
  BY <1>1, ResumesKeepsFrames, HandlerKeepsFrames, FramesStay DEF Over
<1>2. ASSUME NEW f \in Fiber,
             Begin(f) \/ Return(f) \/ Throw(f) \/ Takes(f) \/ Catch(f)
                \/ Park(f) \/ Unwinds(f) \/ Traces(f) \/ End(f)
      PROVE  FramesInv'
  BY <1>2, BeginKeepsFrames, EndsKeepFrames, TakesKeepFrames, ParkKeepsFrames, UnwindsKeepsFrames,
     TracesKeepsFrames, EndKeepsFrames
<1>3. ASSUME NEW f \in Fiber, NEW c \in Frame, Create(f, c) \/ CoAwait(f, c) \/ Destroy(f, c)
      PROVE  FramesInv'
  BY <1>3, CallsKeepFrames
<1> QED
  BY <1>1, <1>2, <1>3 DEF Next

LEMMA FramesInit == Init => FramesInv
<1> SUFFICES ASSUME Init PROVE FramesInv
  OBVIOUS
<1>1. SchedInv /\ ProgramTypeOK
  BY ProgramInitKeeps DEF Init
<1>2. FramesTypeOK
  BY <1>1 DEF Init, ProgramInit, FramesTypeOK
<1>3. FramesGoWithScope /\ Stacks /\ Apart /\ Scopes
  BY DEF Init, ProgramInit, FramesGoWithScope, Stacks, Apart, Scopes, Held
<1>4. Printed /\ Results
  BY DEF Init, ProgramInit, Printed, Results
<1> QED
  BY <1>1, <1>2, <1>3, <1>4 DEF FramesInv

(* What DumpCallStack relies on, of the links that the invariant describes. *)
LEMMA DumpFollows == FramesInv => DumpSeesLiveFrames
<1> SUFFICES ASSUME FramesInv, NEW f \in Fiber, suspended[f] # None
             PROVE  /\ suspended[f] = at[f] /\ state[f] # "Running"
                    /\ Members(Backtrace(suspended[f])) \subseteq live
                    /\ Head(Backtrace(suspended[f])) = f
  BY DEF DumpSeesLiveFrames
<1>1. suspended[f] = at[f] /\ state[f] \notin {"Running", "Absent", "Finished"}
  BY DEF FramesInv, Printed
<1>2. f \in live
  BY <1>1 DEF FramesInv, FramesGoWithScope
<1>3. Stack[f] = Backtrace(suspended[f])
  BY <1>1, <1>2 DEF Stack
<1> QED
  BY <1>1, <1>2, <1>3, StackFacts

(* A fiber that prints all fibers walks, from each one that noted where it   *)
(* parked, over frames that live, to its outermost one.                     *)
THEOREM DumpSeesLiveFramesCorrect == Spec => []DumpSeesLiveFrames
BY FramesInit, FramesStep, DumpFollows, PTL DEF Spec

(* Frames go with the scope that holds them. *)
THEOREM FramesGoWithScopeCorrect == Spec => []FramesGoWithScope
<1>1. FramesInv => FramesGoWithScope
  BY DEF FramesInv
<1> QED
  BY <1>1, FramesInit, FramesStep, PTL DEF Spec

(* What a frame asks its callers is answered at the bottom of its stack:    *)
(* the frames up to it are a stack themselves.                              *)
LEMMA OneFiberFollows == FramesInv => FrameHasOneFiber
<1> SUFFICES ASSUME FramesInv, NEW f \in live \cap Fiber, NEW c \in Members(Stack[f])
             PROVE  Head(Backtrace(c)) = f
  BY DEF FrameHasOneFiber
<1>1. PICK s : s = Stack[f]
  OBVIOUS
<1>2. IsStack(caller, f, s)
  BY <1>1, StackFacts
<1>3. PICK k \in 1 .. Len(s) : c = s[k]
  BY <1>1 DEF Members
<1>4. PICK upTo : upTo = SubSeq(s, 1, k)
  OBVIOUS
<1>5. s \in Seq(AnyFrame) /\ s # <<>> /\ Len(s) \in Nat
  BY <1>2 DEF IsStack
<1>6. /\ upTo \in Seq(AnyFrame) /\ Len(upTo) = k
      /\ \A i \in 1 .. k : upTo[i] = s[i]
  <2>1. k \in Nat /\ k <= Len(s) /\ 1 .. k \subseteq 1 .. Len(s)
    BY <1>3, <1>5
  <2>2. \A i \in 1 .. k : s[i] \in AnyFrame
    BY <1>5, <2>1
  <2> QED
    BY <1>4, <1>5, <2>1, <2>2, SubSeqProperties
<1>7. IsStack(caller, f, upTo)
  <2>1. k \in Nat \ {0} /\ 1 .. k \subseteq 1 .. Len(s) /\ 2 .. k \subseteq 2 .. Len(s)
    BY <1>3, <1>5
  <2>2. upTo # <<>> /\ upTo[1] = f
    BY <1>2, <1>6, <2>1 DEF IsStack
  <2>3. \A i \in 2 .. k : upTo[i] = s[i] /\ upTo[i - 1] = s[i - 1]
    BY <1>6, <2>1
  <2>4. \A i \in 2 .. k : upTo[i] \in Frame /\ caller[upTo[i]] = upTo[i - 1]
    BY <1>2, <2>1, <2>3 DEF IsStack
  <2>5. \A i, j \in 1 .. k : upTo[i] = upTo[j] => i = j
    BY <1>2, <1>6, <2>1 DEF IsStack, NoRepeats
  <2> QED
    BY <1>6, <2>2, <2>4, <2>5 DEF IsStack, NoRepeats
<1>8. Backtrace(c) = upTo
  BY <1>3, <1>6, <1>7, WalkFinds DEF Backtrace
<1> QED
  BY <1>2, <1>3, <1>6, <1>8 DEF IsStack

(* Every frame of every call finds the fiber that makes the call, and no    *)
(* other, however deep the call is.                                         *)
THEOREM FrameHasOneFiberCorrect == Spec => []FrameHasOneFiber
BY FramesInit, FramesStep, OneFiberFollows, PTL DEF Spec

-----------------------------------------------------------------------------
(***************************************************************************
Every step of the coroutines is a step of the call stacks or leaves them.
***************************************************************************)
LEMMA NoResult ==
    ASSUME \A f \in Fiber : op[f] = "user", UNCHANGED op
    PROVE  Result' = Result /\ \A f \in Fiber : Result[f] = "none"
BY DEF Result

LEMMA BeginMaps ==
    ASSUME FramesInv, NEW f \in Fiber, Begin(f)
    PROVE  AsCallStack!Enter(f)
<1>1. Stack[f] = <<>> /\ Stack' = [Stack EXCEPT ![f] = <<f>>]
  BY BeginShape
<1>2. UNCHANGED op /\ Outside
  BY DEF Begin, Start
<1>3. \A g \in Fiber : op[g] = "user"
  BY <1>2, AllInTheirOwnCode DEF Outside, Code
<1> QED
  BY <1>1, <1>2, <1>3, NoResult DEF AsCallStack!Enter, AsCallStack!Put

LEMMA CoAwaitMaps ==
    ASSUME FramesInv, NEW f \in Fiber, NEW c \in Frame, CoAwait(f, c)
    PROVE  AsCallStack!Call(f, c)
<1>1. /\ \A g \in live \cap Fiber : c \notin Members(Stack[g])
      /\ Stack[f] # <<>> /\ Stack' = [Stack EXCEPT ![f] = Append(Stack[f], c)]
  BY CoAwaitShape
<1>2. UNCHANGED op /\ \A g \in Fiber : op[g] = "user"
  BY AllInTheirOwnCode DEF CoAwait, Code, progVars
<1>3. \A g \in Fiber : \A i \in DOMAIN Stack[g] : Stack[g][i] # c
  <2> SUFFICES ASSUME NEW g \in Fiber, NEW i \in DOMAIN Stack[g] PROVE Stack[g][i] # c
    OBVIOUS
  <2>1. CASE g \in live
    <3>1. DOMAIN Stack[g] = 1 .. Len(Stack[g])
      BY <2>1, StackFacts DEF IsStack
    <3> QED
      BY <1>1, <2>1, <3>1 DEF Members
  <2>2. CASE g \notin live
    BY <2>2 DEF Stack
  <2> QED
    BY <2>1, <2>2
<1> QED
  BY <1>1, <1>2, <1>3, NoResult DEF AsCallStack!Call, AsCallStack!Put

LEMMA EndsMaps ==
    ASSUME FramesInv, NEW f \in Fiber, Return(f) \/ Throw(f)
    PROVE  \E r \in {"value", "error"} : AsCallStack!End(f, r)
<1>1. PICK r \in {"value", "error"} : Ends(f, r)
  BY DEF Return, Throw
<1>2. /\ state[f] = "Running" /\ running = f /\ op[f] \in {"user", "unwind"}
      /\ op' = [op EXCEPT ![f] = "resume"]
  BY DEF Return, Throw, Code, Ends, Set
<1>3. /\ Len(Stack[f]) > 1
      /\ Stack' = [Stack EXCEPT ![f] = SubSeq(Stack[f], 1, Len(Stack[f]) - 1)]
      /\ callee'[at'[f]] = at[f] /\ ret'[at[f]] = r
  BY <1>1, <1>2, EndsShape
<1>4. op \in [Fiber -> {"user", "resume", "unwind"}]
  BY DEF FramesInv, FramesTypeOK
<1>5. \A g \in Fiber : g # f => op[g] = "user" /\ op'[g] = "user"
  BY <1>2, <1>4 DEF FramesInv, Results
<1>6. op'[f] = "resume"
  BY <1>2, <1>4
<1>7. Result[f] = "none" /\ Result' = [Result EXCEPT ![f] = r]
  BY <1>2, <1>3, <1>5, <1>6 DEF Result
<1> QED
  BY <1>3, <1>7 DEF AsCallStack!End, AsCallStack!Put

LEMMA TakesMaps ==
    ASSUME FramesInv, NEW f \in Fiber, Takes(f)
    PROVE  AsCallStack!Take(f)
<1>1. /\ UNCHANGED <<schedVars, frameVars>> /\ op[f] = "resume"
      /\ \/ op' = [op EXCEPT ![f] = "user"]
         \/ op' = [op EXCEPT ![f] = "unwind"]
  BY DEF Takes, Code, Set
<1>2. Stack' = Stack
  BY <1>1, SameFrames DEF frameVars, schedVars
<1>3. Result[f] # "none"
  BY <1>1 DEF FramesInv, Results, Result
<1>4. Result' = [Result EXCEPT ![f] = "none"]
  BY <1>1 DEF FramesInv, FramesTypeOK, Result, frameVars
<1> QED
  BY <1>2, <1>3, <1>4 DEF AsCallStack!Take, AsCallStack!Put

LEMMA EndMaps ==
    ASSUME FramesInv, NEW f \in Fiber, End(f)
    PROVE  AsCallStack!Leave(f)
<1>1. Len(Stack[f]) = 1 /\ Stack' = [Stack EXCEPT ![f] = <<>>]
  BY EndShape
<1>2. UNCHANGED op /\ \A g \in Fiber : op[g] = "user"
  BY AllInTheirOwnCode DEF End, Finish, Code
<1> QED
  BY <1>1, <1>2, NoResult DEF AsCallStack!Leave, AsCallStack!Put

(* The rest leaves the stacks and the results alone. *)
LEMMA CatchStutters ==
    ASSUME FramesInv, NEW f \in Fiber, Catch(f)
    PROVE  Stack' = Stack /\ Result' = Result
<1>1. UNCHANGED <<schedVars, frameVars>> /\ op[f] = "unwind" /\ op' = [op EXCEPT ![f] = "user"]
  BY DEF Catch, Code, Set
<1>2. Stack' = Stack
  BY <1>1, SameFrames DEF frameVars, schedVars
<1> QED
  BY <1>1, <1>2 DEF FramesInv, FramesTypeOK, Result, frameVars

LEMMA HoldingStutters ==
    ASSUME FramesInv, NEW f \in Fiber, NEW c \in Frame, Create(f, c) \/ Destroy(f, c)
    PROVE  Stack' = Stack /\ Result' = Result
<1>1. UNCHANGED op /\ \A g \in Fiber : op[g] = "user"
  BY AllInTheirOwnCode DEF Create, Destroy, Code, progVars
<1> QED
  BY <1>1, NoResult, CreateShape, DestroyShape

LEMMA ParkStutters ==
    ASSUME FramesInv, NEW f \in Fiber, Park(f) \/ Unwinds(f) \/ Traces(f)
    PROVE  Stack' = Stack /\ Result' = Result
<1>1. /\ UNCHANGED <<live, holder, caller, ret, at, callee, op>>
      /\ running = f /\ (op[f] = "user" \/ state[f] # "Running")
      /\ \A g \in Fiber : state'[g] \in {"Absent", "Finished"} <=> state[g] \in {"Absent", "Finished"}
  BY DEF FramesInv, SchedInv, SchedTypeOK, Park, Parks, Sleep, AwaitOn, Suspend, Yield, OmniYield, Code,
         Unwinds, Unwind, Parked, Traces, frameVars, progVars, schedVars
<1>2. Stack' = Stack
  BY <1>1, SameFrames
<1> QED
  BY <1>1, <1>2, NoResult, AllInTheirOwnCode

LEMMA LoopStutters ==
    ASSUME FramesInv, Resumes \/ Handler
    PROVE  Stack' = Stack /\ Result' = Result
<1>1. CASE Resumes
  <2>1. /\ running = None /\ UNCHANGED <<live, holder, caller, ret, at, callee, op>>
        /\ running' \in Fiber /\ state[running'] \in {"Ready", "Yielded"}
        /\ state' = [state EXCEPT ![running'] = "Running"]
    BY <1>1, RunKeeps DEF FramesInv, Resumes
  <2>2. Stack' = Stack
    BY <2>1, SameFrames DEF FramesInv, SchedInv, SchedTypeOK
  <2> QED
    BY <2>1, <2>2, NoResult, AllInTheirOwnCode
<1>2. CASE Handler
  <2>1. Outside /\ UNCHANGED <<frameVars, op>>
    BY <1>2 DEF Handler, Elsewhere
  <2>2. state' = [f \in Fiber |-> IF awaiting[f] = "elsewhere" /\ state[f] = "Suspended"
                                     THEN "Ready" ELSE state[f]]
    BY <1>2, FireKeeps DEF FramesInv, Handler, Elsewhere
  <2>3. Stack' = Stack
    BY <2>1, <2>2, SameFrames DEF frameVars
  <2> QED
    BY <2>1, <2>3, NoResult, AllInTheirOwnCode DEF Outside, Code
<1> QED
  BY <1>1, <1>2

LEMMA StepMaps == FramesInv /\ [Next]_vars => [AsCallStack!Next]_(AsCallStack!vars)
<1> SUFFICES ASSUME FramesInv, [Next]_vars PROVE [AsCallStack!Next]_(AsCallStack!vars)
  OBVIOUS
<1>1. CASE Resumes \/ Handler
  BY <1>1, LoopStutters DEF AsCallStack!vars
<1>2. CASE Over \/ UNCHANGED vars
  <2>1. UNCHANGED vars
    BY <1>2 DEF Over
  <2>2. Result' = Result
    BY <2>1 DEF Result, vars, progVars, frameVars
  <2> QED
    BY <2>1, <2>2, FramesStay DEF AsCallStack!vars
<1>3. ASSUME NEW f \in Fiber, Begin(f) \/ Return(f) \/ Throw(f) \/ Takes(f) \/ End(f)
      PROVE  AsCallStack!Next
  BY <1>3, BeginMaps, EndsMaps, TakesMaps, EndMaps DEF AsCallStack!Next
<1>4. ASSUME NEW f \in Fiber, Catch(f) \/ Park(f) \/ Unwinds(f) \/ Traces(f)
      PROVE  UNCHANGED AsCallStack!vars
  BY <1>4, CatchStutters, ParkStutters DEF AsCallStack!vars
<1>5. ASSUME NEW f \in Fiber, NEW c \in Frame, CoAwait(f, c)
      PROVE  AsCallStack!Next
  BY <1>5, CoAwaitMaps DEF AsCallStack!Next
<1>6. ASSUME NEW f \in Fiber, NEW c \in Frame, Create(f, c) \/ Destroy(f, c)
      PROVE  UNCHANGED AsCallStack!vars
  BY <1>6, HoldingStutters DEF AsCallStack!vars
<1> QED
  BY <1>1, <1>2, <1>3, <1>4, <1>5, <1>6 DEF Next

LEMMA InitMaps == Init => AsCallStack!Init
BY DEF Init, ProgramInit, Stack, Result, AsCallStack!Init

(* The links that coroutines keep make a call stack for each fiber: a call   *)
(* pushes a frame that is in no stack, and its result goes, once, to the    *)
(* frame below.                                                             *)
THEOREM FramesAreCallStacks == Spec => ImplementsCallStack
BY FramesInit, FramesStep, InitMaps, StepMaps, PTL DEF Spec, ImplementsCallStack, AsCallStack!Spec

=============================================================================
