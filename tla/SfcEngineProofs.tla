--------------------------- MODULE SfcEngineProofs --------------------------
(***************************************************************************)
(* Proofs about one executing chart, for every chart, every delay and      *)
(* every bound on the timers: which transitions the loop over the document *)
(* order fires, and that the step timers tell the time a step has stayed.  *)
(*                                                                         *)
(* Firing is a recursive function, so its facts need induction.  The       *)
(* induction principle used is a fact about sets (IntervalInduction); it   *)
(* comes from the well-foundedness of inclusion on finite sets.            *)
(***************************************************************************)
EXTENDS SfcEngine, Integers, FiniteSetTheorems, WellFoundedInduction, TLAPS

-----------------------------------------------------------------------------
(* Induction over an interval, stated with sets.                           *)

(* Every set of natural numbers that is not empty has a least element: the *)
(* intervals 1 .. n of its elements are finite sets, ordered by inclusion. *)
LEMMA LeastNumber ==
  ASSUME NEW S \in SUBSET Nat, S # {}
  PROVE  \E m \in S : \A n \in S : m <= n
<1> DEFINE I == {1 .. n : n \in S}
<1>1. IsWellFoundedOn(StrictSubsetOrdering(Nat), FiniteSubsetsOf(Nat))
  BY FS_StrictSubsetOrderingWellFounded
<1>2. I \subseteq FiniteSubsetsOf(Nat)
  <2>1. ASSUME NEW n \in S PROVE 1 .. n \in FiniteSubsetsOf(Nat)
    <3>1. IsFiniteSet(1 .. n)
      BY FS_Interval
    <3> QED BY <3>1 DEF FiniteSubsetsOf
  <2> QED BY <2>1
<1>3. I # {}
  OBVIOUS
<1>4. \E x \in I : \A y \in I : ~ (<<y, x>> \in StrictSubsetOrdering(Nat))
  <2> HIDE DEF I
  <2> QED BY <1>1, <1>2, <1>3, WFMin
<1>5. PICK m \in S : \A n \in S : ~ (<<1 .. n, 1 .. m>> \in StrictSubsetOrdering(Nat))
  BY <1>4
<1>6. ASSUME NEW n \in S, n < m PROVE FALSE
  <2>1. 1 .. n \subseteq 1 .. m /\ m \in 1 .. m /\ m \notin 1 .. n
    BY <1>6, SMT
  <2>2. <<1 .. n, 1 .. m>> \in (SUBSET Nat) \X (SUBSET Nat)
    BY SMT
  <2>3. <<1 .. n, 1 .. m>> \in StrictSubsetOrdering(Nat)
    BY <2>1, <2>2 DEF StrictSubsetOrdering
  <2> QED BY <2>3, <1>5
<1> QED BY <1>6, SMT

(* A set that holds 0 and, with each number below N, the next one, holds   *)
(* every number up to N.                                                   *)
LEMMA IntervalInduction ==
  ASSUME NEW N \in Nat, NEW S, 0 \in S, \A n \in 0 .. N - 1 : n \in S => n + 1 \in S
  PROVE  \A n \in 0 .. N : n \in S
<1> DEFINE B == {n \in 0 .. N : n \notin S}
<1> SUFFICES ASSUME B # {} PROVE FALSE
  OBVIOUS
<1>1. B \in SUBSET Nat
  OBVIOUS
<1>2. PICK m \in B : \A n \in B : m <= n
  <2> HIDE DEF B
  <2> QED BY <1>1, LeastNumber
<1>3. m # 0 /\ m \in 0 .. N /\ m \notin S
  OBVIOUS
<1>4. m - 1 \in 0 .. N - 1 /\ m - 1 \in S
  BY <1>2, <1>3
<1> QED BY <1>3, <1>4

-----------------------------------------------------------------------------
(* What the loop over the transitions fires.                               *)

(* One step of the loop, on the set of transitions that fired before it.   *)
TryNext(cs, tm, new, truth, F, tr) ==
  IF /\ tr \in Ready(chart, cs, new) /\ Holds(tr, tm, truth)
     /\ From[tr] \cap Exited(F) = {}
  THEN F \cup {tr} ELSE F

(* The loop, up to transition n: its value after every prefix.             *)
IsLoop(cs, tm, new, truth, n, f) ==
  f = [i \in 0 .. n |-> IF i = 0 THEN {}
                        ELSE TryNext(cs, tm, new, truth, f[i - 1], Order[chart][i])]

(* The recursive definition of Firing defines a function.                  *)
LEMMA LoopExists ==
  ASSUME chart \in Charts, NEW cs, NEW tm, NEW new, NEW truth
  PROVE  \E f : IsLoop(cs, tm, new, truth, Len(Order[chart]), f)
<1> DEFINE L == Len(Order[chart])
           Step(F, i) == TryNext(cs, tm, new, truth, F, Order[chart][i])
           S == {n \in 0 .. L : \E f : IsLoop(cs, tm, new, truth, n, f)}
<1>0. L \in Nat
  BY OrderAssumption
<1> HIDE DEF L, Step
<1>1. 0 \in S
  <2> DEFINE z == [i \in 0 .. 0 |-> {}]
  <2>1. \A i \in 0 .. 0 : i = 0
    OBVIOUS
  <2>2. z = [i \in 0 .. 0 |-> IF i = 0 THEN {} ELSE Step(z[i - 1], i)]
    BY <2>1, Zenon
  <2>3. IsLoop(cs, tm, new, truth, 0, z)
    <3> HIDE DEF z
    <3> QED BY <2>2, Zenon DEF IsLoop, Step
  <2> QED BY <2>3, <1>0
<1>2. ASSUME NEW n \in 0 .. L - 1, n \in S PROVE n + 1 \in S
  <2>1. PICK f : IsLoop(cs, tm, new, truth, n, f)
    BY <1>2
  <2>2. f = [i \in 0 .. n |-> IF i = 0 THEN {} ELSE Step(f[i - 1], i)]
    BY <2>1, Zenon DEF IsLoop, Step
  <2> DEFINE v == Step(f[n], n + 1)
             g == [i \in 0 .. n + 1 |-> IF i = n + 1 THEN v ELSE f[i]]
  <2>3. ASSUME NEW i \in 0 .. n + 1
        PROVE  g[i] = IF i = 0 THEN {} ELSE Step(g[i - 1], i)
    <3>1. CASE i = n + 1
      <4>1. g[i] = v /\ g[i - 1] = f[n] /\ i # 0
        BY <3>1, <1>0
      <4> HIDE DEF g
      <4> QED BY <4>1, <3>1
    <3>2. CASE i # n + 1
      <4>1. i \in 0 .. n /\ g[i] = f[i] /\ (i # 0 => g[i - 1] = f[i - 1])
        BY <3>2, <1>0
      <4> HIDE DEF g
      <4> QED BY <4>1, <2>2
    <3> QED BY <3>1, <3>2
  <2>4. g = [i \in 0 .. n + 1 |-> IF i = 0 THEN {} ELSE Step(g[i - 1], i)]
    <3>1. g = [i \in 0 .. n + 1 |-> g[i]]
      OBVIOUS
    <3> HIDE DEF g
    <3> QED BY <3>1, <2>3
  <2>5. IsLoop(cs, tm, new, truth, n + 1, g)
    <3> HIDE DEF g
    <3> QED BY <2>4, Zenon DEF IsLoop, Step
  <2>6. n + 1 \in 0 .. L
    BY <1>0
  <2> QED BY <2>5, <2>6
<1>3. L \in S
  <2> HIDE DEF S
  <2> QED BY <1>0, <1>1, <1>2, IntervalInduction
<1> QED BY <1>3 DEF L

(* Firing is the last value of the loop.                                   *)
LEMMA FiringIsLoop ==
  ASSUME chart \in Charts, NEW cs, NEW tm, NEW new, NEW truth
  PROVE  \E f : /\ IsLoop(cs, tm, new, truth, Len(Order[chart]), f)
                /\ Firing(cs, tm, new, truth) = f[Len(Order[chart])]
<1> DEFINE Body(f) ==
      [i \in 0 .. Len(Order[chart]) |->
         IF i = 0 THEN {}
         ELSE IF /\ Order[chart][i] \in Ready(chart, cs, new) /\ Holds(Order[chart][i], tm, truth)
                 /\ From[Order[chart][i]] \cap Exited(f[i - 1]) = {}
              THEN f[i - 1] \cup {Order[chart][i]} ELSE f[i - 1]]
           loop == CHOOSE f : f = Body(f)
<1>1. \A f : IsLoop(cs, tm, new, truth, Len(Order[chart]), f) <=> f = Body(f)
  BY DEF IsLoop, TryNext
<1>2. Firing(cs, tm, new, truth) = loop[Len(Order[chart])]
  BY Zenon DEF Firing
<1>3. loop = Body(loop)
  <2>1. \E f : f = Body(f)
    BY LoopExists, <1>1
  <2> HIDE DEF Body
  <2> QED BY <2>1, Zenon
<1> HIDE DEF Body, loop
<1> QED BY <1>1, <1>2, <1>3

(* After every prefix of the loop: what fired is in the prefix, was ready, *)
(* has a condition that holds, shares no step, and stays fired.            *)
PrefixFacts(cs, tm, new, truth, f, n) ==
  /\ f[n] \subseteq {Order[chart][i] : i \in 1 .. n}
  /\ f[n] \subseteq Ready(chart, cs, new)
  /\ \A tr \in f[n] : Holds(tr, tm, truth)
  /\ Disjoint(f[n])
  /\ \A m \in 0 .. n : f[m] \subseteq f[n]

LEMMA LoopPrefix ==
  ASSUME chart \in Charts, NEW cs, NEW tm, NEW new, NEW truth, NEW f,
         IsLoop(cs, tm, new, truth, Len(Order[chart]), f)
  PROVE  \A n \in 0 .. Len(Order[chart]) : PrefixFacts(cs, tm, new, truth, f, n)
<1> DEFINE L == Len(Order[chart])
           S == {n \in 0 .. L : PrefixFacts(cs, tm, new, truth, f, n)}
<1>0. L \in Nat
  BY OrderAssumption
<1>1. /\ f[0] = {}
      /\ \A n \in 0 .. L - 1 : f[n + 1] = TryNext(cs, tm, new, truth, f[n], Order[chart][n + 1])
  <2> HIDE DEF L
  <2>1. 0 \in 0 .. L /\ \A n \in 0 .. L - 1 : n + 1 \in 0 .. L /\ n + 1 # 0 /\ (n + 1) - 1 = n
    BY <1>0
  <2>2. f = [i \in 0 .. L |-> IF i = 0 THEN {}
                              ELSE TryNext(cs, tm, new, truth, f[i - 1], Order[chart][i])]
    BY DEF IsLoop, L
  <2> QED BY <2>1, <2>2
<1>2. 0 \in S
  <2>1. \A m \in 0 .. 0 : m = 0
    OBVIOUS
  <2> QED BY <1>0, <1>1, <2>1 DEF PrefixFacts, Disjoint
<1>3. ASSUME NEW n \in 0 .. L - 1, n \in S PROVE n + 1 \in S
  <2> DEFINE tr == Order[chart][n + 1]
  <2>1. /\ n \in Nat /\ n + 1 \in 0 .. L /\ n + 1 \in 1 .. n + 1
        /\ 1 .. n \subseteq 1 .. n + 1
        /\ \A m \in 0 .. n + 1 : m \in 0 .. n \/ m = n + 1
    BY <1>0
  <2>2. PrefixFacts(cs, tm, new, truth, f, n)
    BY <1>3
  <2>3. f[n + 1] = TryNext(cs, tm, new, truth, f[n], tr)
    BY <1>1
  <2> HIDE DEF L
  <2>4. CASE /\ tr \in Ready(chart, cs, new) /\ Holds(tr, tm, truth)
             /\ From[tr] \cap Exited(f[n]) = {}
    <3>1. f[n + 1] = f[n] \cup {tr}
      BY <2>3, <2>4 DEF TryNext
    <3>2. \A u \in f[n] : From[u] \cap From[tr] = {}
      BY <2>4 DEF Exited
    <3>3. Disjoint(f[n + 1])
      BY <2>2, <3>1, <3>2 DEF PrefixFacts, Disjoint
    <3>4. f[n + 1] \subseteq {Order[chart][i] : i \in 1 .. n + 1}
      BY <2>1, <2>2, <3>1 DEF PrefixFacts
    <3>5. \A m \in 0 .. n + 1 : f[m] \subseteq f[n + 1]
      BY <2>1, <2>2, <3>1 DEF PrefixFacts
    <3>6. f[n + 1] \subseteq Ready(chart, cs, new) /\ \A u \in f[n + 1] : Holds(u, tm, truth)
      BY <2>2, <2>4, <3>1 DEF PrefixFacts
    <3>7. PrefixFacts(cs, tm, new, truth, f, n + 1)
      BY <3>3, <3>4, <3>5, <3>6 DEF PrefixFacts
    <3> QED BY <3>7, <2>1
  <2>5. CASE ~ (/\ tr \in Ready(chart, cs, new) /\ Holds(tr, tm, truth)
                /\ From[tr] \cap Exited(f[n]) = {})
    <3>1. f[n + 1] = f[n]
      BY <2>3, <2>5 DEF TryNext
    <3>2. f[n + 1] \subseteq {Order[chart][i] : i \in 1 .. n + 1}
      BY <2>1, <2>2, <3>1 DEF PrefixFacts
    <3>3. \A m \in 0 .. n + 1 : f[m] \subseteq f[n + 1]
      BY <2>1, <2>2, <3>1 DEF PrefixFacts
    <3>4. PrefixFacts(cs, tm, new, truth, f, n + 1)
      BY <2>2, <3>1, <3>2, <3>3 DEF PrefixFacts
    <3> QED BY <3>4, <2>1
  <2> QED BY <2>4, <2>5
<1>4. \A n \in 0 .. L : n \in S
  <2> HIDE DEF S
  <2> QED BY <1>0, <1>2, <1>3, IntervalInduction
<1> QED BY <1>4

(* A scan fires exactly the transitions whose condition holds, that are    *)
(* ready, and whose steps no transition EARLIER in the document takes:     *)
(* priority is document order, nothing fires twice, and no transition that *)
(* could fire is passed over.                                              *)
THEOREM FiringIsDocumentOrder ==
  ASSUME chart \in Charts, NEW cs, NEW tm, NEW new, NEW truth
  PROVE  LET F == Firing(cs, tm, new, truth) IN
         /\ F \subseteq Ready(chart, cs, new)
         /\ Disjoint(F)
         /\ \A i \in DOMAIN Order[chart] :
              Order[chart][i] \in F <=>
                /\ Order[chart][i] \in Ready(chart, cs, new)
                /\ Holds(Order[chart][i], tm, truth)
                /\ \A j \in 1 .. i - 1 :
                     Order[chart][j] \in F => From[Order[chart][j]] \cap From[Order[chart][i]] = {}
<1> DEFINE L == Len(Order[chart])
           F == Firing(cs, tm, new, truth)
           ord == Order[chart]
<1>0. L \in Nat /\ DOMAIN ord = 1 .. L
  BY OrderAssumption
<1>1. PICK f : IsLoop(cs, tm, new, truth, L, f) /\ F = f[L]
  BY FiringIsLoop
<1>2. \A n \in 0 .. L : PrefixFacts(cs, tm, new, truth, f, n)
  BY <1>1, LoopPrefix
<1>3. PrefixFacts(cs, tm, new, truth, f, L)
  BY <1>0, <1>2
<1>4. F \subseteq Ready(chart, cs, new) /\ Disjoint(F) /\ \A tr \in F : Holds(tr, tm, truth)
  BY <1>1, <1>3 DEF PrefixFacts
<1>5. ASSUME NEW i \in 1 .. L,
             ord[i] \in Ready(chart, cs, new), Holds(ord[i], tm, truth),
             \A j \in 1 .. i - 1 : ord[j] \in F => From[ord[j]] \cap From[ord[i]] = {}
      PROVE  ord[i] \in F
  <2>1. i - 1 \in 0 .. L /\ i \in 0 .. L /\ i # 0
    BY <1>0
  <2>2. f[i] = TryNext(cs, tm, new, truth, f[i - 1], ord[i])
    BY <1>1, <2>1 DEF IsLoop
  <2>3. f[i - 1] \subseteq F /\ f[i - 1] \subseteq {ord[j] : j \in 1 .. i - 1}
    BY <1>1, <1>2, <1>3, <2>1 DEF PrefixFacts
  <2>4. From[ord[i]] \cap Exited(f[i - 1]) = {}
    BY <1>5, <2>3 DEF Exited
  <2>5. ord[i] \in f[i]
    BY <1>5, <2>2, <2>4 DEF TryNext
  <2> QED BY <1>1, <1>3, <2>1, <2>5 DEF PrefixFacts
<1>6. ASSUME NEW i \in 1 .. L, ord[i] \in F, NEW j \in 1 .. i - 1, ord[j] \in F
      PROVE  From[ord[j]] \cap From[ord[i]] = {}
  <2>1. ord[i] # ord[j]
    BY <1>0, OrderAssumption
  <2> QED BY <1>4, <1>6, <2>1 DEF Disjoint
<1> QED
  <2> HIDE DEF L, F, ord
  <2>1. \A i \in DOMAIN ord :
          ord[i] \in F <=>
            /\ ord[i] \in Ready(chart, cs, new)
            /\ Holds(ord[i], tm, truth)
            /\ \A j \in 1 .. i - 1 : ord[j] \in F => From[ord[j]] \cap From[ord[i]] = {}
    BY <1>0, <1>4, <1>5, <1>6
  <2> QED BY <1>4, <2>1 DEF F, ord

-----------------------------------------------------------------------------
(* The inductive invariant: types, the code's timers and flags against the *)
(* history, and the deadline of NeverOverdue.                              *)

TypeOK ==
  /\ chart \in Charts /\ state \in ChartState /\ halted \in BOOLEAN
  /\ t \in [Steps -> 0 .. MaxTime] /\ stay \in [Steps -> 0 .. MaxTime]
  /\ fresh \in SUBSET Steps /\ fired \in SUBSET Trans

(* A timer is the number of scans the step has completed, and the steps    *)
(* flagged fresh are those whose entry actions are owed.                   *)
TimersTellTime == t = stay /\ fresh = state.pending

IInv == TypeOK /\ TimersTellTime /\ NeverOverdue

LEMMA ChartData ==
  ASSUME NEW c \in Charts
  PROVE  /\ Start(c) \in ChartState /\ Start(c).active = Start(c).pending
         /\ ApplyAbort(c) \in ChartState /\ ApplyAbort(c).active = ApplyAbort(c).pending
         /\ ApplyAbort(c).aborted
         /\ AbortStep[c] # NoStep => /\ AbortStep[c] \in Steps /\ ApplyAbort(c).running
                                     /\ ApplyAbort(c).active = {AbortStep[c]}
         /\ Idle \in ChartState /\ Idle.active = Idle.pending /\ ~Idle.running
<1>1. Initial[c] \in Steps /\ (AbortStep[c] # NoStep => AbortStep[c] \in Steps)
  BY ChartAssumption
<1>2. /\ Idle \in ChartState /\ Idle.active = {} /\ Idle.pending = {}
      /\ Idle.running = FALSE /\ Idle.aborted = FALSE
  BY DEF Idle, ChartState
<1>3. Start(c) \in ChartState /\ Start(c).active = Start(c).pending
  BY <1>1 DEF Start, ChartState
<1>4. CASE AbortStep[c] = NoStep
  <2>1. ApplyAbort(c) = [Idle EXCEPT !.aborted = TRUE]
    BY <1>4 DEF ApplyAbort
  <2>2. /\ ApplyAbort(c) \in ChartState /\ ApplyAbort(c).active = ApplyAbort(c).pending
        /\ ApplyAbort(c).aborted
    BY <1>2, <2>1 DEF ChartState
  <2> QED BY <1>2, <1>3, <1>4, <2>2
<1>5. CASE AbortStep[c] # NoStep
  <2>1. ApplyAbort(c) = [active |-> {AbortStep[c]}, running |-> TRUE,
                         aborted |-> TRUE, pending |-> {AbortStep[c]}]
    BY <1>5 DEF ApplyAbort
  <2>2. /\ ApplyAbort(c) \in ChartState /\ ApplyAbort(c).active = ApplyAbort(c).pending
        /\ ApplyAbort(c).aborted /\ ApplyAbort(c).running
        /\ ApplyAbort(c).active = {AbortStep[c]}
    BY <1>1, <1>5, <2>1 DEF ChartState
  <2> QED BY <1>1, <1>2, <1>3, <2>2
<1> QED BY <1>4, <1>5

LEMMA StopData ==
  ASSUME NEW cs \in ChartState
  PROVE  Stop(cs) \in ChartState /\ Stop(cs).active = Stop(cs).pending /\ ~Stop(cs).running
<1>1. /\ Idle \in ChartState /\ Idle.active = {} /\ Idle.pending = {} /\ Idle.running = FALSE
  BY DEF Idle, ChartState
<1> QED BY <1>1 DEF Stop, ChartState

LEMMA ZeroType == Zero \in [Steps -> 0 .. MaxTime] /\ \A s \in Steps : Zero[s] = 0
  BY OrderAssumption DEF Zero

LEMMA TickType == \A n \in 0 .. MaxTime : Tick(n) \in 0 .. MaxTime
  BY OrderAssumption DEF Tick

(* A reset of the steps establishes the invariant whatever held before.    *)
LEMMA BeginInv ==
  ASSUME NEW cs \in ChartState, cs.active = cs.pending, Begin(cs),
         chart' \in Charts, halted' \in BOOLEAN
  PROVE  IInv'
<1>1. cs.active \in SUBSET Steps
  BY DEF ChartState
<1>2. TypeOK'
  BY <1>1, ZeroType DEF TypeOK, Begin
<1>3. TimersTellTime'
  BY DEF TimersTellTime, Begin
<1>4. NeverOverdue'
  <2>1. \A tr \in Trans : From[tr] \subseteq Steps
    BY ChartAssumption
  <2>2. \A s \in Steps : stay'[s] = 0
    BY ZeroType DEF Begin
  <2>3. \A tr \in Timed : Delay[tr] \in Int
    BY OrderAssumption
  <2> QED BY <2>1, <2>2, <2>3, Z3 DEF NeverOverdue, TransOf
<1> QED BY <1>2, <1>3, <1>4 DEF IInv

(* What a scan of a running chart does with the transitions F it fires.    *)
ScanEffect(F, tm) ==
  /\ F \subseteq Ready(chart, state, {}) /\ Disjoint(F)
  /\ \A tr \in F : tr \in Timed => \A s \in From[tr] : tm[s] >= Delay[tr]
  /\ \A tr \in TransOf(chart) \cap Timed :
       /\ tr \in Ready(chart, state, {}) /\ \A s \in From[tr] : tm[s] >= Delay[tr]
       /\ \A u \in TransOf(chart) : u # tr => From[u] \cap From[tr] = {}
       => tr \in F
  /\ state' = After(state, F) /\ fired' = F /\ fresh' = {}
  /\ t' = [s \in Steps |-> IF s \in Entered(state, F) THEN 0 ELSE tm[s]]
  /\ stay' = [s \in Steps |-> IF s \in Entered(state, F) THEN 0
                              ELSE IF s \in state.active \ state.pending
                                   THEN Tick(stay[s]) ELSE stay[s]]
  /\ chart' = chart /\ halted' = halted

LEMMA ScanDoes ==
  ASSUME IInv, Scan
  PROVE  \E F : ScanEffect(F, Advanced(state, t, fresh))
<1> DEFINE tm == Advanced(state, t, fresh)
<1>1. PICK truth \in SUBSET (TransOf(chart) \ Timed) : Executed(state, t, stay, fresh, {}, truth)
  BY DEF Scan
<1> DEFINE F == Firing(state, tm, {}, truth)
<1>2. chart \in Charts
  BY DEF IInv, TypeOK
<1>3. /\ F \subseteq Ready(chart, state, {}) /\ Disjoint(F)
      /\ \A i \in DOMAIN Order[chart] :
           Order[chart][i] \in F <=>
             /\ Order[chart][i] \in Ready(chart, state, {})
             /\ Holds(Order[chart][i], tm, truth)
             /\ \A j \in 1 .. i - 1 :
                  Order[chart][j] \in F => From[Order[chart][j]] \cap From[Order[chart][i]] = {}
  BY <1>2, FiringIsDocumentOrder
<1>4. /\ state' = After(state, F) /\ fired' = F /\ fresh' = {}
      /\ t' = [s \in Steps |-> IF s \in Entered(state, F) THEN 0 ELSE tm[s]]
      /\ stay' = [s \in Steps |-> IF s \in Entered(state, F) THEN 0
                                  ELSE IF s \in state.active \ state.pending
                                       THEN Tick(stay[s]) ELSE stay[s]]
  BY <1>1 DEF Executed
<1>5. chart' = chart /\ halted' = halted
  BY DEF Scan
<1> HIDE DEF F, tm
<1>6. \A tr \in TransOf(chart) : \E i \in DOMAIN Order[chart] : Order[chart][i] = tr
  BY <1>2, OrderAssumption
<1>7. F \subseteq TransOf(chart)
  BY <1>3 DEF Ready
<1>8. \A tr \in F : tr \in Timed => \A s \in From[tr] : tm[s] >= Delay[tr]
  BY <1>3, <1>6, <1>7 DEF Holds
<1>9. ASSUME NEW tr \in TransOf(chart) \cap Timed,
             tr \in Ready(chart, state, {}), \A s \in From[tr] : tm[s] >= Delay[tr],
             \A u \in TransOf(chart) : u # tr => From[u] \cap From[tr] = {}
      PROVE  tr \in F
  <2>1. PICK i \in DOMAIN Order[chart] : Order[chart][i] = tr
    BY <1>6
  <2>2. Holds(tr, tm, truth)
    BY <1>9 DEF Holds
  <2>3. \A j \in 1 .. i - 1 : j \in DOMAIN Order[chart] /\ j # i
    BY <1>2, OrderAssumption
  <2>4. \A j \in 1 .. i - 1 : Order[chart][j] # tr
    BY <1>2, <2>1, <2>3, OrderAssumption
  <2>5. \A j \in 1 .. i - 1 :
          Order[chart][j] \in F => From[Order[chart][j]] \cap From[tr] = {}
    BY <1>7, <1>9, <2>4
  <2> QED BY <1>3, <1>9, <2>1, <2>2, <2>5
<1>10. ScanEffect(F, tm)
  BY <1>3, <1>4, <1>5, <1>8, <1>9 DEF ScanEffect
<1> QED BY <1>10 DEF tm

(* In a scan of a running chart the timers and the history advance alike:  *)
(* by one for a step that had run its entry actions.                       *)
LEMMA ScanTimers ==
  ASSUME IInv, NEW F, ScanEffect(F, Advanced(state, t, fresh))
  PROVE  /\ t' = stay' /\ t' \in [Steps -> 0 .. MaxTime]
         /\ \A s \in Steps : /\ Advanced(state, t, fresh)[s] \in 0 .. MaxTime
                             /\ s \in state.active => Advanced(state, t, fresh)[s] = Completed(s)
<1> DEFINE tm == Advanced(state, t, fresh)
<1>1. t = stay /\ fresh = state.pending /\ t \in [Steps -> 0 .. MaxTime]
  BY DEF IInv, TimersTellTime, TypeOK
<1>2. tm = [s \in Steps |-> IF s \in state.active \ state.pending THEN Tick(stay[s]) ELSE stay[s]]
  BY <1>1 DEF Advanced
<1>3. \A s \in Steps : stay[s] \in 0 .. MaxTime /\ Tick(stay[s]) \in 0 .. MaxTime
  BY <1>1, TickType
<1>4. \A s \in Steps : /\ tm[s] \in 0 .. MaxTime
                       /\ s \in state.active => tm[s] = Completed(s)
                       /\ tm[s] = IF s \in state.active \ state.pending
                                  THEN Tick(stay[s]) ELSE stay[s]
  <2> HIDE DEF tm
  <2> QED BY <1>2, <1>3 DEF Completed
<1>5. /\ t' = [s \in Steps |-> IF s \in Entered(state, F) THEN 0 ELSE tm[s]]
      /\ stay' = [s \in Steps |-> IF s \in Entered(state, F) THEN 0
                                  ELSE IF s \in state.active \ state.pending
                                       THEN Tick(stay[s]) ELSE stay[s]]
  BY DEF ScanEffect
<1> HIDE DEF tm
<1>6. t' = stay'
  BY <1>4, <1>5
<1>7. t' \in [Steps -> 0 .. MaxTime]
  BY <1>4, <1>5, OrderAssumption
<1> QED BY <1>4, <1>6, <1>7 DEF tm

(* A scan keeps the invariant: a timed step whose deadline has come, and   *)
(* which nothing else leaves, is left by the scan that reaches it.         *)
LEMMA ScanInv ==
  ASSUME IInv, NEW F, ScanEffect(F, Advanced(state, t, fresh)), state.running
  PROVE  IInv'
<1> DEFINE tm == Advanced(state, t, fresh)
<1>1. /\ F \subseteq Ready(chart, state, {}) /\ state' = After(state, F)
      /\ fired' = F /\ fresh' = {} /\ chart' = chart /\ halted' = halted
      /\ t' = [s \in Steps |-> IF s \in Entered(state, F) THEN 0 ELSE tm[s]]
      /\ \A tr \in TransOf(chart) \cap Timed :
           /\ tr \in Ready(chart, state, {}) /\ \A s \in From[tr] : tm[s] >= Delay[tr]
           /\ \A u \in TransOf(chart) : u # tr => From[u] \cap From[tr] = {}
           => tr \in F
  BY DEF ScanEffect
<1>2. t' = stay' /\ t' \in [Steps -> 0 .. MaxTime] /\ \A s \in Steps : tm[s] \in 0 .. MaxTime
  BY ScanTimers
<1> HIDE DEF tm
<1>3. state \in ChartState /\ chart \in Charts /\ halted \in BOOLEAN
  BY DEF IInv, TypeOK
<1>4. F \subseteq Trans
  BY <1>1 DEF Ready, TransOf
<1>5. Targets(F) \subseteq Steps
  BY <1>4, ChartAssumption DEF Targets
<1>6. /\ state' \in ChartState /\ state'.pending = {} /\ state'.aborted = state.aborted
      /\ state'.active = (state.active \ Exited(F)) \cup Targets(F)
  BY <1>1, <1>3, <1>5 DEF After, ChartState
<1>7. TypeOK'
  BY <1>1, <1>2, <1>3, <1>4, <1>6 DEF TypeOK
<1>8. TimersTellTime'
  BY <1>1, <1>2, <1>6 DEF TimersTellTime
<1>9. ASSUME NEW tr \in TransOf(chart) \cap Timed,
             From[tr] \subseteq state'.active, state.aborted => InAbort(tr),
             \A u \in TransOf(chart) : u # tr => From[u] \cap From[tr] = {},
             NEW s \in From[tr], Delay[tr] > 0, ~ (stay'[s] < Delay[tr])
      PROVE  FALSE
  <2>1. From[tr] = {s} /\ s \in Steps /\ tr \in Trans /\ Delay[tr] \in 0 .. MaxTime /\ MaxTime \in Nat
    BY OrderAssumption
  <2>2. t'[s] \in 0 .. MaxTime /\ t'[s] >= Delay[tr]
    BY <1>2, <1>9, <2>1
  <2>3. s \notin Entered(state, F) /\ t'[s] = tm[s]
    BY <1>1, <1>9, <2>1, <2>2
  <2>4. s \in state.active \ Exited(F)
    BY <1>6, <1>9, <2>3 DEF Entered
  <2>5. tr \in Ready(chart, state, {})
    BY <1>9, <2>1, <2>4 DEF Ready
  <2>6. tr \in F
    BY <1>1, <1>9, <2>1, <2>2, <2>3, <2>5
  <2> QED BY <2>1, <2>4, <2>6 DEF Exited
<1>10. NeverOverdue'
  BY <1>1, <1>6, <1>9 DEF NeverOverdue, TransOf, InAbort, AbortSet
<1> QED BY <1>7, <1>8, <1>10 DEF IInv

(* The abort step cannot be left in the scan that enters it: the latch     *)
(* fires nothing, whether the chart is executed or faults.                 *)
LEMMA LatchFiresNothing ==
  ASSUME chart \in Charts, AbortStep[chart] # NoStep, NEW tm, NEW truth
  PROVE  Firing(ApplyAbort(chart), tm, {AbortStep[chart]}, truth) = {}
<1>1. ApplyAbort(chart).active = {AbortStep[chart]}
  BY ChartData
<1>2. Ready(chart, ApplyAbort(chart), {AbortStep[chart]}) = {}
  <2>1. \A tr \in TransOf(chart) : From[tr] # {}
    BY ChartAssumption DEF TransOf
  <2> QED BY <1>1, <2>1 DEF Ready
<1>3. Firing(ApplyAbort(chart), tm, {AbortStep[chart]}, truth)
        \subseteq Ready(chart, ApplyAbort(chart), {AbortStep[chart]})
  BY FiringIsDocumentOrder
<1> QED BY <1>2, <1>3

LEMMA AbortExecuted ==
  ASSUME IInv, AbortStep[chart] # NoStep, halted' = FALSE, chart' = chart, NEW truth,
         Executed(ApplyAbort(chart), Zero, Zero, {AbortStep[chart]}, {AbortStep[chart]}, truth)
  PROVE  IInv' /\ fired' = {}
<1> DEFINE cs == ApplyAbort(chart)
           a == AbortStep[chart]
           tm == Advanced(cs, Zero, {a})
           F == Firing(cs, tm, {a}, truth)
<1>1. chart \in Charts
  BY DEF IInv, TypeOK
<1>2. /\ cs \in ChartState /\ cs.active = {a} /\ cs.pending = {a} /\ cs.running
      /\ a \in Steps
  BY <1>1, ChartData
<1>3. F = {}
  BY <1>1, LatchFiresNothing
<1>4. /\ state' = After(cs, F) /\ fired' = F /\ fresh' = {}
      /\ t' = [s \in Steps |-> IF s \in Entered(cs, F) THEN 0 ELSE tm[s]]
      /\ stay' = [s \in Steps |-> IF s \in Entered(cs, F) THEN 0
                                  ELSE IF s \in cs.active \ cs.pending
                                       THEN Tick(Zero[s]) ELSE Zero[s]]
  BY DEF Executed
<1>5. tm = Zero
  BY <1>2 DEF Advanced, Zero
<1> HIDE DEF F, tm, cs, a
<1>6. Exited(F) = {} /\ Targets(F) = {} /\ Entered(cs, F) = {}
  BY <1>3 DEF Exited, Targets, Entered
<1>7. t' = Zero /\ stay' = Zero
  BY <1>2, <1>4, <1>5, <1>6 DEF Zero
<1>8. state' \in ChartState /\ state'.pending = {}
  BY <1>2, <1>4, <1>6 DEF After, ChartState
<1>9. TypeOK'
  BY <1>1, <1>3, <1>4, <1>7, <1>8, ZeroType DEF TypeOK
<1>10. TimersTellTime'
  BY <1>4, <1>7, <1>8 DEF TimersTellTime
<1>11. NeverOverdue'
  <2>1. \A tr \in Trans : From[tr] \subseteq Steps
    BY ChartAssumption
  <2>2. \A s \in Steps : stay'[s] = 0
    BY <1>7, ZeroType
  <2>3. \A tr \in Timed : Delay[tr] \in Int
    BY OrderAssumption
  <2> QED BY <2>1, <2>2, <2>3, Z3 DEF NeverOverdue, TransOf
<1> QED BY <1>3, <1>4, <1>9, <1>10, <1>11 DEF IInv

(* The latch, in all its cases, keeps the invariant and fires nothing.     *)
LEMMA AbortInv ==
  ASSUME IInv, AbortScan
  PROVE  IInv' /\ fired' = {} /\ state'.aborted /\ ~state.aborted
<1>1. chart \in Charts /\ chart' = chart /\ halted \in BOOLEAN /\ ~state.aborted
  BY DEF IInv, TypeOK, AbortScan
<1>2. /\ ApplyAbort(chart) \in ChartState /\ ApplyAbort(chart).aborted
      /\ ApplyAbort(chart).active = ApplyAbort(chart).pending
  BY <1>1, ChartData
<1>3. ASSUME Begin(ApplyAbort(chart)), halted' \in BOOLEAN
      PROVE  IInv' /\ fired' = {} /\ state'.aborted
  <2>1. IInv'
    BY <1>1, <1>2, <1>3, BeginInv
  <2>2. fired' = {} /\ state' = ApplyAbort(chart)
    BY <1>3 DEF Begin
  <2> QED BY <1>2, <2>1, <2>2
<1>4. CASE AbortStep[chart] = NoStep
  BY <1>1, <1>3, <1>4 DEF AbortScan
<1>5. CASE AbortStep[chart] # NoStep
  <2>1. \/ Begin(ApplyAbort(chart)) /\ halted' = TRUE
        \/ /\ halted' = FALSE
           /\ \E truth \in SUBSET (TransOf(chart) \ Timed) :
                Executed(ApplyAbort(chart), Zero, Zero, {AbortStep[chart]}, {AbortStep[chart]}, truth)
    BY <1>5 DEF AbortScan
  <2>2. CASE Begin(ApplyAbort(chart)) /\ halted' = TRUE
    BY <1>1, <1>3, <2>2
  <2>3. CASE /\ halted' = FALSE
             /\ \E truth \in SUBSET (TransOf(chart) \ Timed) :
                  Executed(ApplyAbort(chart), Zero, Zero, {AbortStep[chart]}, {AbortStep[chart]}, truth)
    <3>1. PICK truth : Executed(ApplyAbort(chart), Zero, Zero, {AbortStep[chart]}, {AbortStep[chart]}, truth)
      BY <2>3
    <3>2. IInv' /\ fired' = {}
      BY <1>1, <1>5, <2>3, <3>1, AbortExecuted
    <3>3. state'.aborted
      <4>1. \E F : state' = After(ApplyAbort(chart), F)
        BY <3>1 DEF Executed
      <4> QED BY <1>2, <4>1 DEF After, ChartState
    <3> QED BY <1>1, <3>2, <3>3
  <2> QED BY <2>1, <2>2, <2>3
<1> QED BY <1>4, <1>5

LEMMA InitInv == Init => IInv
<1> SUFFICES ASSUME Init PROVE IInv
  OBVIOUS
<1>1. /\ Idle \in ChartState /\ Idle.active = {} /\ Idle.pending = {}
  BY DEF Idle, ChartState
<1>2. /\ chart \in Charts /\ state = Idle /\ t = Zero /\ fresh = {} /\ halted = FALSE
      /\ fired = {} /\ stay = Zero
  BY DEF Init
<1>3. TypeOK /\ TimersTellTime
  BY <1>1, <1>2, ZeroType DEF TypeOK, TimersTellTime
<1>4. NeverOverdue
  <2>1. \A tr \in Trans : From[tr] # {}
    BY ChartAssumption
  <2> QED BY <1>1, <1>2, <2>1 DEF NeverOverdue, TransOf
<1> QED BY <1>3, <1>4 DEF IInv

LEMMA UnchangedInv ==
  ASSUME IInv, UNCHANGED <<chart, state, t, fresh, stay>>,
         halted' \in BOOLEAN, fired' = {} \/ UNCHANGED fired
  PROVE  IInv'
<1>1. TypeOK' /\ TimersTellTime'
  BY DEF IInv, TypeOK, TimersTellTime
<1>2. NeverOverdue'
  BY DEF IInv, NeverOverdue, TransOf, InAbort, AbortSet
<1> QED BY <1>1, <1>2 DEF IInv

LEMMA NextInv == IInv /\ [Next]_vars => IInv'
<1> SUFFICES ASSUME IInv, [Next]_vars PROVE IInv'
  OBVIOUS
<1>0. chart \in Charts /\ state \in ChartState /\ halted \in BOOLEAN
  BY DEF IInv, TypeOK
<1>1. CASE StartSfc
  BY <1>0, <1>1, ChartData, BeginInv DEF StartSfc
<1>2. CASE StopSfc
  BY <1>0, <1>2, StopData, BeginInv DEF StopSfc
<1>3. CASE ClearAbort
  BY <1>0, <1>3, ChartData, BeginInv DEF ClearAbort
<1>4. CASE ClearFaults
  BY <1>4, UnchangedInv DEF ClearFaults
<1>5. CASE Scan
  BY <1>5, ScanDoes, ScanInv DEF Scan
<1>6. CASE Fault
  BY <1>6, UnchangedInv DEF Fault
<1>7. CASE AbortScan
  BY <1>7, AbortInv
<1>8. CASE UNCHANGED vars
  BY <1>0, <1>8, UnchangedInv DEF vars
<1> QED BY <1>1, <1>2, <1>3, <1>4, <1>5, <1>6, <1>7, <1>8 DEF Next

-----------------------------------------------------------------------------
(* The theorems.                                                           *)

(* Every reachable state has its types, every step timer of the code is    *)
(* the number of scans the step has completed, and the fresh flags are the *)
(* entry actions owed.                                                     *)
THEOREM TimersAreTrue == Spec => [](TypeOK /\ TimersTellTime)
<1>1. IInv => TypeOK /\ TimersTellTime
  BY DEF IInv
<1> QED BY InitInv, NextInv, <1>1, PTL DEF Spec

(* A timed step whose transition is its only way out is never found past   *)
(* its delay at the end of a scan, whatever starts, stops, faults and      *)
(* aborts came before.                                                     *)
THEOREM TimedStepsAreLeft == Spec => []NeverOverdue
<1>1. IInv => NeverOverdue
  BY DEF IInv
<1> QED BY InitInv, NextInv, <1>1, PTL DEF Spec

LEMMA StepLeavesOnTime ==
  IInv /\ [Next]_vars =>
    [\A tr \in fired' : tr \in Timed => \A s \in From[tr] : Completed(s) >= Delay[tr]]_vars
<1> SUFFICES ASSUME IInv, Next
             PROVE  \A tr \in fired' : tr \in Timed =>
                      \A s \in From[tr] : Completed(s) >= Delay[tr]
  BY DEF vars
<1>1. CASE Scan
  <2>1. PICK F : ScanEffect(F, Advanced(state, t, fresh))
    BY <1>1, ScanDoes
  <2>2. fired' = F /\ \A tr \in F : /\ From[tr] \subseteq state.active
                                    /\ tr \in Timed => \A s \in From[tr] :
                                         Advanced(state, t, fresh)[s] >= Delay[tr]
    BY <2>1 DEF ScanEffect, Ready
  <2>3. \A s \in Steps : s \in state.active => Advanced(state, t, fresh)[s] = Completed(s)
    BY <2>1, ScanTimers
  <2>4. \A tr \in Timed : From[tr] \subseteq Steps
    BY OrderAssumption, ChartAssumption
  <2> HIDE DEF Advanced
  <2> QED BY <2>2, <2>3, <2>4
<1>2. CASE ~ Scan
  <2>1. fired' = {}
    BY <1>2, AbortInv DEF Next, StartSfc, StopSfc, ClearAbort, ClearFaults, Fault, Begin
  <2> QED BY <2>1
<1> QED BY <1>1, <1>2

(* No transition with a delay fires before its step has completed that     *)
(* many scans, the one that fires it included.                             *)
THEOREM DelaysAreKept == Spec => LeftOnTime
  BY InitInv, NextInv, StepLeavesOnTime, PTL DEF Spec, LeftOnTime

LEMMA StepIsChartStep ==
  IInv /\ [Next]_vars =>
    [state.running /\ state'.running /\ state' # Start(chart) /\ state'.aborted = state.aborted =>
       /\ fired' \subseteq Ready(chart, state, {}) /\ Disjoint(fired')
       /\ state' = After(state, fired') \/ UNCHANGED state]_vars
<1> SUFFICES ASSUME IInv, Next, state.running, state'.running, state' # Start(chart),
                    state'.aborted = state.aborted
             PROVE  /\ fired' \subseteq Ready(chart, state, {}) /\ Disjoint(fired')
                    /\ state' = After(state, fired') \/ UNCHANGED state
  BY DEF vars
<1>0. state \in ChartState /\ chart \in Charts
  BY DEF IInv, TypeOK
<1>1. ~ StartSfc
  BY DEF StartSfc, Begin
<1>2. ~ StopSfc
  BY <1>0, StopData DEF StopSfc, Begin
<1>3. ~ ClearAbort
  BY <1>0, ChartData DEF ClearAbort, Begin
<1>4. ~ AbortScan
  BY AbortInv
<1>5. CASE ClearFaults \/ Fault
  BY <1>5 DEF ClearFaults, Fault, Disjoint
<1>6. CASE Scan
  BY <1>6, ScanDoes DEF ScanEffect
<1> QED BY <1>1, <1>2, <1>3, <1>4, <1>5, <1>6 DEF Next

(* A chart that goes on running moves by transitions that were ready and   *)
(* share no step, or not at all: the chart scan Simulator is built on.     *)
THEOREM ScansAreChartSteps == Spec => ChartStep
  BY InitInv, NextInv, StepIsChartStep, PTL DEF Spec, ChartStep
=============================================================================
