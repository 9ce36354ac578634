--------------------------- MODULE PlcRuntimeProofs -------------------------
(***************************************************************************)
(* Proofs about the PLC runtime, for every set of tags, every program list *)
(* and every program body: forces hold, a program that faults leaves no    *)
(* trace in the scan, timers keep time and edges count once on every       *)
(* program that calls its blocks each scan, a quotient belongs with its    *)
(* remainder at every width of the integers, blocks keep the types of      *)
(* their fields, and the image is typed if every program keeps types.      *)
(***************************************************************************)
EXTENDS PlcHistory, FiniteSetTheorems, WellFoundedInduction, TLAPS

-----------------------------------------------------------------------------
(* Induction over an interval, stated with sets.                           *)

(* Every set of natural numbers that is not empty has a least element: the *)
(* intervals 1 .. n of its elements are finite sets, ordered by inclusion. *)
LEMMA LeastNumber ==
  ASSUME NEW S \in SUBSET Nat, S # {}
  PROVE  \E m \in S : \A n \in S : m <= n
<1> DEFINE I == {1 .. n : n \in S}
<1>1. IsWellFoundedOn(StrictSubsetOrdering(Nat), FiniteSubsetsOf(Nat))
  BY FS_StrictSubsetOrderingWellFounded
<1>2. I \subseteq FiniteSubsetsOf(Nat)
  <2>1. ASSUME NEW n \in S PROVE 1 .. n \in FiniteSubsetsOf(Nat)
    <3>1. IsFiniteSet(1 .. n)
      BY FS_Interval
    <3> QED BY <3>1 DEF FiniteSubsetsOf
  <2> QED BY <2>1
<1>3. I # {}
  OBVIOUS
<1>4. \E x \in I : \A y \in I : ~ (<<y, x>> \in StrictSubsetOrdering(Nat))
  <2> HIDE DEF I
  <2> QED BY <1>1, <1>2, <1>3, WFMin
<1>5. PICK m \in S : \A n \in S : ~ (<<1 .. n, 1 .. m>> \in StrictSubsetOrdering(Nat))
  BY <1>4
<1>6. ASSUME NEW n \in S, n < m PROVE FALSE
  <2>1. 1 .. n \subseteq 1 .. m /\ m \in 1 .. m /\ m \notin 1 .. n
    BY <1>6, SMT
  <2>2. <<1 .. n, 1 .. m>> \in (SUBSET Nat) \X (SUBSET Nat)
    BY SMT
  <2>3. <<1 .. n, 1 .. m>> \in StrictSubsetOrdering(Nat)
    BY <2>1, <2>2 DEF StrictSubsetOrdering
  <2> QED BY <2>3, <1>5
<1> QED BY <1>6, SMT

(* A set that holds 0 and, with each number below N, the next one, holds   *)
(* every number up to N.                                                   *)
LEMMA IntervalInduction ==
  ASSUME NEW N \in Nat, NEW S, 0 \in S, \A n \in 0 .. N - 1 : n \in S => n + 1 \in S
  PROVE  \A n \in 0 .. N : n \in S
<1> DEFINE B == {n \in 0 .. N : n \notin S}
<1> SUFFICES ASSUME B # {} PROVE FALSE
  OBVIOUS
<1>1. B \in SUBSET Nat
  OBVIOUS
<1>2. PICK m \in B : \A n \in B : m <= n
  <2> HIDE DEF B
  <2> QED BY <1>1, LeastNumber
<1>3. m # 0 /\ m \in 0 .. N /\ m \notin S
  OBVIOUS
<1>4. m - 1 \in 0 .. N - 1 /\ m - 1 \in S
  BY <1>2, <1>3
<1> QED BY <1>3, <1>4

-----------------------------------------------------------------------------
(* The shape of the memory.                                                *)

(* A store with a value for each of these names.                           *)
Over(store, names) == store = [n \in names |-> store[n]]

Parts == {"input", "told", "output", "global", "sys", "local"}
IsMem(m) ==
  /\ Over(m, Parts)
  /\ Over(m.input, TagsOf("in"))
  /\ Over(m.told, TagsOf("in"))
  /\ Over(m.output, TagsOf("out"))
  /\ Over(m.global, DOMAIN MergedGlobals(Programs))
  /\ Over(m.local, Names)
  /\ \A x \in Names : Over(m.local[x], Owned(Named(x), "local"))

(* The program list: a sequence in which no name occurs twice.             *)
IsList ==
  /\ Len(Programs) \in Nat
  /\ DOMAIN Programs = 1 .. Len(Programs)
  /\ \A i, j \in DOMAIN Programs : Programs[i].name = Programs[j].name => i = j

IsForces(f) == Over(f, DOMAIN f) /\ DOMAIN f \subseteq Forceable

(* The part of ForcesHold that is about what is forced.                    *)
Pinned(f, m) ==
  \A k \in DOMAIN f :
    f[k] = CASE k[1] = "local" -> m.local[k[2]][k[3]]
             [] OTHER          -> m[k[1]][k[3]]

ForcesInv == IsList /\ IsMem(mem) /\ IsForces(forced) /\ ForcesHold

(* A program is found by its name.                                         *)
LEMMA NamedIsUnique ==
  ASSUME IsList, NEW i \in DOMAIN Programs
  PROVE  Programs[i].name \in Names /\ Named(Programs[i].name) = Programs[i]
<1> DEFINE p == Programs[i]
<1>1. p \in Elements(Programs)
  BY DEF Elements
<1>2. \A q \in Elements(Programs) : q.name = p.name => q = p
  BY Zenon DEF IsList, Elements
<1>3. p.name \in Names
  BY <1>1 DEF Names
<1>4. Named(p.name) = p
  <2> HIDE DEF p
  <2> QED BY <1>1, <1>2, Zenon DEF Named
<1> QED BY <1>3, <1>4

(* The plan is a constant of a behaviour, and so is all that it gives.     *)
LEMMA PlanIsKept ==
  ASSUME plan' = plan
  PROVE  /\ Programs' = Programs /\ Names' = Names /\ Forceable' = Forceable
         /\ \A x : Named(x)' = Named(x)
<1>1. Programs' = Programs
  BY DEF Programs
<1>2. Names' = Names
  BY <1>1 DEF Names
<1>3. \A x : Named(x)' = Named(x)
  BY <1>1, Zenon DEF Named
<1>4. Forceable' = Forceable
  BY <1>1, Zenon DEF Forceable
<1> QED BY <1>1, <1>2, <1>3, <1>4

(* What is an image stays one while the plan stays.                        *)
LEMMA MemIsKept ==
  ASSUME plan' = plan, IsMem(mem')
  PROVE  IsMem(mem)'
BY PlanIsKept, Zenon DEF IsMem

(* What a local force is about.                                            *)
LEMMA ForceableKinds ==
  ASSUME IsList, NEW k \in Forceable
  PROVE  \/ k = <<"input", "", k[3]>> /\ k[3] \in TagsOf("in")
         \/ k = <<"output", "", k[3]>> /\ k[3] \in TagsOf("out")
         \/ k = <<"global", "", k[3]>> /\ k[3] \in DOMAIN MergedGlobals(Programs)
         \/ k[1] = "local" /\ k = <<"local", k[2], k[3]>> /\ k[2] \in Names /\ k[3] \in Owned(Named(k[2]), "local")
<1>1. CASE \E p \in Elements(Programs) :
             k \in {<<"local", p.name, n>> : n \in {x \in Owned(p, "local") : p.syms[x].fb = "none"}}
  <2>0. PICK p \in Elements(Programs) :
               k \in {<<"local", p.name, n>> : n \in {x \in Owned(p, "local") : p.syms[x].fb = "none"}}
    BY <1>1
  <2>1. PICK n \in Owned(p, "local") : k = <<"local", p.name, n>>
    BY <2>0
  <2>2. PICK i \in DOMAIN Programs : p = Programs[i]
    BY DEF Elements
  <2>3. Named(p.name) = p /\ p.name \in Names
    BY <2>2, NamedIsUnique
  <2>4. k[1] = "local" /\ k[2] = p.name /\ k[3] = n
    BY <2>1
  <2> QED BY <2>1, <2>3, <2>4
<1>2. CASE k \in {<<"input", "", n>> : n \in TagsOf("in")}
  <2>1. PICK n \in TagsOf("in") : k = <<"input", "", n>>
    BY <1>2
  <2>2. k[3] = n
    BY <2>1
  <2> QED BY <2>1, <2>2
<1>3. CASE k \in {<<"output", "", n>> : n \in TagsOf("out")}
  <2>1. PICK n \in TagsOf("out") : k = <<"output", "", n>>
    BY <1>3
  <2>2. k[3] = n
    BY <2>1
  <2> QED BY <2>1, <2>2
<1>4. CASE k \in {<<"global", "", n>> : n \in {x \in DOMAIN MergedGlobals(Programs) :
                                            MergedGlobals(Programs)[x].fb = "none"}}
  <2>1. PICK n \in DOMAIN MergedGlobals(Programs) : k = <<"global", "", n>>
    BY <1>4
  <2>2. k[3] = n
    BY <2>1
  <2> QED BY <2>1, <2>2
<1> QED BY <1>1, <1>2, <1>3, <1>4, Zenon DEF Forceable

(* _apply_forces keeps the shape of the memory, gives what is forced its   *)
(* value and changes nothing else.                                         *)
LEMMA ForcesAreApplied ==
  ASSUME IsList, NEW f, IsForces(f), NEW m, IsMem(m)
  PROVE  /\ IsMem(ApplyForces(f, m)) /\ Pinned(f, ApplyForces(f, m))
         /\ ApplyForces(f, m).told = m.told /\ ApplyForces(f, m).sys = m.sys
         /\ \A n \in TagsOf("in") :
              <<"input", "", n>> \notin DOMAIN f => ApplyForces(f, m).input[n] = m.input[n]
<1> DEFINE w == ApplyForces(f, m)
<1>0. /\ Over(w, Parts)
      /\ w.input = Pin(f, "input", "", m.input) /\ w.output = Pin(f, "output", "", m.output)
      /\ w.global = Pin(f, "global", "", m.global)
      /\ w.told = m.told /\ w.sys = m.sys
  <2>1. Over(m, Parts)
    BY DEF IsMem
  <2> QED BY <2>1 DEF ApplyForces, Over, Parts
<1>1. w.local = [p \in DOMAIN m.local |-> Pin(f, "local", p, m.local[p])]
  <2>1. Over(m, Parts)
    BY DEF IsMem
  <2> QED BY <2>1 DEF ApplyForces, Over, Parts
<1>2. DOMAIN m.input = TagsOf("in") /\ DOMAIN m.output = TagsOf("out")
      /\ DOMAIN m.global = DOMAIN MergedGlobals(Programs) /\ DOMAIN m.local = Names
      /\ \A x \in Names : DOMAIN m.local[x] = Owned(Named(x), "local")
  BY DEF IsMem, Over
<1> HIDE DEF w
<1>3. IsMem(w)
  <2>2. Over(w.input, TagsOf("in")) /\ Over(w.told, TagsOf("in")) /\ Over(w.output, TagsOf("out"))
    BY <1>0, <1>2 DEF Pin, Over, IsMem
  <2>3. Over(w.global, DOMAIN MergedGlobals(Programs)) /\ Over(w.local, Names)
    BY <1>0, <1>1, <1>2 DEF Pin, Over
  <2>4. ASSUME NEW x \in Names PROVE Over(w.local[x], Owned(Named(x), "local"))
    <3>1. w.local[x] = Pin(f, "local", x, m.local[x])
      BY <1>1, <1>2
    <3> QED BY <3>1, <1>2 DEF Pin, Over
  <2> QED BY <1>0, <2>2, <2>3, <2>4, Zenon DEF IsMem
<1>4. ASSUME NEW k \in DOMAIN f
      PROVE  f[k] = CASE k[1] = "local" -> w.local[k[2]][k[3]]
                      [] OTHER          -> w[k[1]][k[3]]
  <2>0. k \in Forceable
    BY DEF IsForces
  <2>1. CASE k = <<"input", "", k[3]>> /\ k[3] \in TagsOf("in")
    <3> DEFINE n == k[3]
    <3>1. k = <<"input", "", n>> /\ n \in TagsOf("in")
      BY <2>1
    <3> HIDE DEF n
    <3>2. k[1] = "input" /\ k[3] = n
      BY <3>1
    <3>3. <<"input", "", n>> \in DOMAIN f
      BY <3>1
    <3>4. w.input[n] = f[<<"input", "", n>>]
      BY <3>1, <3>3, <1>0, <1>2 DEF Pin
    <3> QED BY <3>1, <3>2, <3>4
  <2>2. CASE k = <<"output", "", k[3]>> /\ k[3] \in TagsOf("out")
    <3> DEFINE n == k[3]
    <3>1. k = <<"output", "", n>> /\ n \in TagsOf("out")
      BY <2>2
    <3> HIDE DEF n
    <3>2. k[1] = "output" /\ k[3] = n
      BY <3>1
    <3>3. <<"output", "", n>> \in DOMAIN f
      BY <3>1
    <3>4. w.output[n] = f[<<"output", "", n>>]
      BY <3>1, <3>3, <1>0, <1>2 DEF Pin
    <3> QED BY <3>1, <3>2, <3>4
  <2>3. CASE k = <<"global", "", k[3]>> /\ k[3] \in DOMAIN MergedGlobals(Programs)
    <3> DEFINE n == k[3]
    <3>1. k = <<"global", "", n>> /\ n \in DOMAIN MergedGlobals(Programs)
      BY <2>3
    <3> HIDE DEF n
    <3>2. k[1] = "global" /\ k[3] = n
      BY <3>1
    <3>3. <<"global", "", n>> \in DOMAIN f
      BY <3>1
    <3>4. w.global[n] = f[<<"global", "", n>>]
      BY <3>1, <3>3, <1>0, <1>2 DEF Pin
    <3> QED BY <3>1, <3>2, <3>4
  <2>4. CASE /\ k[1] = "local" /\ k = <<"local", k[2], k[3]>>
             /\ k[2] \in Names /\ k[3] \in Owned(Named(k[2]), "local")
    <3>1. k[1] = "local"
      BY <2>4
    <3>2. w.local[k[2]] = Pin(f, "local", k[2], m.local[k[2]])
      BY <2>4, <1>1, <1>2
    <3>3. w.local[k[2]][k[3]] = f[<<"local", k[2], k[3]>>]
      BY <2>4, <3>2, <1>2 DEF Pin
    <3> QED BY <2>4, <3>1, <3>3
  <2> QED BY <2>0, <2>1, <2>2, <2>3, <2>4, ForceableKinds
<1>5. Pinned(f, w)
  BY <1>4 DEF Pinned
<1>6. \A n \in TagsOf("in") : <<"input", "", n>> \notin DOMAIN f => w.input[n] = m.input[n]
  BY <1>0, <1>2 DEF Pin
<1> QED BY <1>0, <1>3, <1>5, <1>6 DEF w

-----------------------------------------------------------------------------
(* One program.                                                            *)

(* What the programs of a scan hand on from one to the next.               *)
IsAcc(a) == Over(a, {"mem", "written", "faults"}) /\ IsMem(a.mem)

Body(a, i, dt) == RunBody(Context(a, Programs[i], dt), Programs[i])
Fails(a, i, dt) == Body(a, i, dt).sig \notin {"go", "return"}

(* A program reads the memory and what was written, and leaves the inputs, *)
(* the system variables and the shape of the memory alone.                 *)
LEMMA ProgramKeepsShape ==
  ASSUME IsList, NEW a, IsAcc(a), NEW i \in DOMAIN Programs, NEW dt
  PROVE  /\ IsAcc(RunProgram(a, Programs[i], dt))
         /\ RunProgram(a, Programs[i], dt).mem.input = a.mem.input
         /\ RunProgram(a, Programs[i], dt).mem.told = a.mem.told
         /\ RunProgram(a, Programs[i], dt).mem.sys = a.mem.sys
         /\ Fails(a, i, dt) =>
              /\ RunProgram(a, Programs[i], dt).mem = a.mem
              /\ RunProgram(a, Programs[i], dt).written = a.written
              /\ RunProgram(a, Programs[i], dt).faults =
                   a.faults \cup {<<Programs[i].name, Body(a, i, dt).sig>>}
         /\ ~Fails(a, i, dt) =>
              /\ RunProgram(a, Programs[i], dt).faults = a.faults
              /\ RunProgram(a, Programs[i], dt).written = Body(a, i, dt).ctx.written
<1> DEFINE p == Programs[i]
           n == p.name
           r == Body(a, i, dt)
           left == r.ctx.store
           lo == Kept(a.mem.local[n], DOMAIN a.mem.local[n], left.local)
           gl == Kept(a.mem.global, Owned(p, "global"), left.global)
           ou == Kept(a.mem.output, DOMAIN a.mem.output, left.output)
           m == [a.mem EXCEPT !.local[n] = lo, !.global = gl, !.output = ou]
           w == RunProgram(a, p, dt)
<1>1. n \in Names /\ Named(n) = p
  BY NamedIsUnique
<1>2. /\ Over(a.mem, Parts) /\ Over(a.mem.local, Names) /\ Over(a.mem.local[n], Owned(p, "local"))
      /\ Over(a.mem.global, DOMAIN MergedGlobals(Programs)) /\ Over(a.mem.output, TagsOf("out"))
      /\ DOMAIN a.mem.local = Names /\ DOMAIN a.mem = Parts
  <2>1. Over(a.mem.local[n], Owned(Named(n), "local"))
    BY <1>1 DEF IsAcc, IsMem
  <2> HIDE DEF n, p
  <2> QED BY <1>1, <2>1 DEF IsAcc, IsMem, Over
<1>3. w = IF r.sig \in {"go", "return"} THEN [a EXCEPT !.mem = m, !.written = r.ctx.written]
          ELSE [a EXCEPT !.mem = Restore(p, a.mem, m), !.faults = @ \cup {<<n, r.sig>>}]
  BY Zenon DEF RunProgram, Leave, Body
<1> HIDE DEF p, n, r, w, left
<1>4. /\ Over(lo, Owned(p, "local")) /\ Over(gl, DOMAIN MergedGlobals(Programs))
      /\ Over(ou, TagsOf("out"))
  BY <1>2 DEF Kept, Over
<1>5. /\ Over(m, Parts)
      /\ m.input = a.mem.input /\ m.told = a.mem.told /\ m.sys = a.mem.sys
      /\ m.global = gl /\ m.output = ou
      /\ m.local = [a.mem.local EXCEPT ![n] = lo]
  <2> HIDE DEF lo, gl, ou
  <2> QED BY <1>2 DEF Over, Parts
<1> HIDE DEF m
<1>6. IsMem(m)
  <2>1. Over(m.local, Names) /\ \A x \in Names : m.local[x] = IF x = n THEN lo ELSE a.mem.local[x]
    <3> HIDE DEF lo
    <3> QED BY <1>1, <1>2, <1>5 DEF Over
  <2>2. \A x \in Names : Over(m.local[x], Owned(Named(x), "local"))
    BY <2>1, <1>1, <1>4 DEF IsAcc, IsMem
  <2>3. Over(m.input, TagsOf("in")) /\ Over(m.told, TagsOf("in"))
    BY <1>5 DEF IsAcc, IsMem
  <2> QED BY <1>4, <1>5, <2>1, <2>2, <2>3 DEF IsMem
<1>7. Restore(p, a.mem, m) = a.mem
  <2> DEFINE gr == [x \in DOMAIN a.mem.global |->
                     IF "fb" \in DOMAIN a.mem.global[x] /\ x \notin Owned(p, "global")
                     THEN m.global[x] ELSE a.mem.global[x]]
             z == [m EXCEPT !.local[n] = a.mem.local[n], !.output = a.mem.output, !.global = gr]
  <2>1. Restore(p, a.mem, m) = z
    BY Zenon DEF Restore, n
  <2>2. gr = a.mem.global
    <3>1. \A x \in DOMAIN a.mem.global :
            m.global[x] = IF x \in Owned(p, "global") THEN left.global[x] ELSE a.mem.global[x]
      BY <1>5 DEF Kept
    <3>2. a.mem.global = [x \in DOMAIN a.mem.global |-> a.mem.global[x]]
      BY <1>2 DEF Over
    <3> QED BY <3>1, <3>2
  <2> HIDE DEF gr
  <2>3. /\ Over(z, Parts)
        /\ z.input = a.mem.input /\ z.told = a.mem.told /\ z.sys = a.mem.sys
        /\ z.global = a.mem.global /\ z.output = a.mem.output
        /\ z.local = [m.local EXCEPT ![n] = a.mem.local[n]]
    BY <1>5, <2>2 DEF Over, Parts
  <2>4. z.local = a.mem.local
    <3> HIDE DEF z, lo
    <3> QED BY <1>1, <1>2, <1>5, <2>3 DEF Over
  <2> HIDE DEF z
  <2>5. z = a.mem
    BY <2>3, <2>4, <1>2 DEF Over, Parts
  <2> QED BY <2>1, <2>5
<1>8. Over(a, {"mem", "written", "faults"})
  BY DEF IsAcc
<1>9. CASE Fails(a, i, dt)
  <2>1. w = [a EXCEPT !.mem = a.mem, !.faults = @ \cup {<<n, r.sig>>}]
    BY <1>3, <1>7, <1>9, Zenon DEF Fails, r
  <2>2. w = [a EXCEPT !.faults = @ \cup {<<n, r.sig>>}]
    BY <2>1, <1>8 DEF Over
  <2>3. /\ Over(w, {"mem", "written", "faults"}) /\ w.mem = a.mem /\ w.written = a.written
        /\ w.faults = a.faults \cup {<<n, r.sig>>}
    BY <2>2, <1>8 DEF Over
  <2> QED BY <2>2, <2>3, <1>9 DEF IsAcc, w, n, r, p
<1>10. CASE ~Fails(a, i, dt)
  <2>1. w = [a EXCEPT !.mem = m, !.written = r.ctx.written]
    BY <1>3, <1>10, Zenon DEF Fails, r
  <2>2. /\ Over(w, {"mem", "written", "faults"}) /\ w.mem = m /\ w.faults = a.faults
        /\ w.written = r.ctx.written
    BY <2>1, <1>8 DEF Over
  <2> QED BY <2>2, <1>5, <1>6, <1>10 DEF IsAcc, w, r, p
<1> QED BY <1>9, <1>10

(* What a program does depends on the memory and on what was written, not  *)
(* on the faults before it.                                                *)
LEMMA ProgramIgnoresFaults ==
  ASSUME IsList, NEW a, IsAcc(a), NEW b, IsAcc(b), b.mem = a.mem, b.written = a.written,
         NEW i \in DOMAIN Programs, NEW dt, ~Fails(a, i, dt)
  PROVE  /\ RunProgram(b, Programs[i], dt).mem = RunProgram(a, Programs[i], dt).mem
         /\ RunProgram(b, Programs[i], dt).written = RunProgram(a, Programs[i], dt).written
         /\ RunProgram(b, Programs[i], dt).faults = b.faults
<1> DEFINE p == Programs[i]
           r == Body(a, i, dt)
           m == [a.mem EXCEPT !.local[p.name] = Kept(@, DOMAIN @, r.ctx.store.local),
                              !.global = Kept(@, Owned(p, "global"), r.ctx.store.global),
                              !.output = Kept(@, DOMAIN @, r.ctx.store.output)]
<1>1. Context(b, p, dt) = Context(a, p, dt)
  BY Zenon DEF Context
<1>2. Body(b, i, dt) = r
  BY <1>1, Zenon DEF Body
<1>3. r.sig \in {"go", "return"}
  BY DEF Fails
<1>4. RunProgram(a, p, dt) = [a EXCEPT !.mem = m, !.written = r.ctx.written]
  <2>1. RunProgram(a, p, dt) = Leave(a, p, r)
    BY Zenon DEF RunProgram, Body
  <2> HIDE DEF p, r
  <2> QED BY <1>3, <2>1, Zenon DEF Leave
<1>5. RunProgram(b, p, dt) = [b EXCEPT !.mem = m, !.written = r.ctx.written]
  <2>1. RunProgram(b, p, dt) = Leave(b, p, r)
    BY <1>2, Zenon DEF RunProgram, Body
  <2> HIDE DEF p, r
  <2>2. Leave(b, p, r) = [b EXCEPT !.mem = [b.mem EXCEPT
            !.local[p.name] = Kept(@, DOMAIN @, r.ctx.store.local),
            !.global = Kept(@, Owned(p, "global"), r.ctx.store.global),
            !.output = Kept(@, DOMAIN @, r.ctx.store.output)], !.written = r.ctx.written]
    BY <1>3, Zenon DEF Leave
  <2> QED BY <2>1, <2>2, Zenon
<1> HIDE DEF m, p, r
<1> QED BY <1>4, <1>5 DEF IsAcc, Over, p

-----------------------------------------------------------------------------
(* The programs of a scan, one after the other.                            *)

(* The pass over the programs, up to program n: its value after each.      *)
IsPass(dt, skip, n, f) ==
  f = [i \in 0 .. n |-> IF i = 0 THEN Entered(dt) ELSE NextProgram(f[i - 1], Programs[i], dt, skip)]

(* The recursive definition of Passed defines a function.                  *)
LEMMA PassExists ==
  ASSUME IsList, NEW dt, NEW skip
  PROVE  \E f : IsPass(dt, skip, Len(Programs), f)
<1> DEFINE L == Len(Programs)
           E == Entered(dt)
           Step(a, i) == NextProgram(a, Programs[i], dt, skip)
           S == {n \in 0 .. L : \E f : IsPass(dt, skip, n, f)}
<1>0. L \in Nat
  BY DEF IsList
<1> HIDE DEF L, Step, E
<1>1. 0 \in S
  <2> DEFINE z == [i \in 0 .. 0 |-> E]
  <2>1. \A i \in 0 .. 0 : i = 0
    OBVIOUS
  <2>2. z = [i \in 0 .. 0 |-> IF i = 0 THEN E ELSE Step(z[i - 1], i)]
    BY <2>1, Zenon
  <2>3. IsPass(dt, skip, 0, z)
    <3> HIDE DEF z
    <3> QED BY <2>2, Zenon DEF IsPass, Step, E
  <2> QED BY <2>3, <1>0
<1>2. ASSUME NEW n \in 0 .. L - 1, n \in S PROVE n + 1 \in S
  <2>1. PICK f : IsPass(dt, skip, n, f)
    BY <1>2
  <2>2. f = [i \in 0 .. n |-> IF i = 0 THEN E ELSE Step(f[i - 1], i)]
    BY <2>1, Zenon DEF IsPass, Step, E
  <2> DEFINE v == Step(f[n], n + 1)
             g == [i \in 0 .. n + 1 |-> IF i = n + 1 THEN v ELSE f[i]]
  <2>3. ASSUME NEW i \in 0 .. n + 1
        PROVE  g[i] = IF i = 0 THEN E ELSE Step(g[i - 1], i)
    <3>1. CASE i = n + 1
      <4>1. g[i] = v /\ g[i - 1] = f[n] /\ i # 0
        BY <3>1, <1>0
      <4> HIDE DEF g
      <4> QED BY <4>1, <3>1
    <3>2. CASE i # n + 1
      <4>1. i \in 0 .. n /\ g[i] = f[i] /\ (i # 0 => g[i - 1] = f[i - 1])
        BY <3>2, <1>0
      <4> HIDE DEF g
      <4> QED BY <4>1, <2>2
    <3> QED BY <3>1, <3>2
  <2>4. g = [i \in 0 .. n + 1 |-> IF i = 0 THEN E ELSE Step(g[i - 1], i)]
    <3>1. g = [i \in 0 .. n + 1 |-> g[i]]
      OBVIOUS
    <3> HIDE DEF g
    <3> QED BY <3>1, <2>3
  <2>5. IsPass(dt, skip, n + 1, g)
    <3> HIDE DEF g
    <3> QED BY <2>4, Zenon DEF IsPass, Step, E
  <2>6. n + 1 \in 0 .. L
    BY <1>0
  <2> QED BY <2>5, <2>6
<1>3. L \in S
  <2> HIDE DEF S
  <2> QED BY <1>0, <1>1, <1>2, IntervalInduction
<1> QED BY <1>3 DEF L

(* Passed is the last value of the pass, which goes program by program.    *)
LEMMA PassedIsPass ==
  ASSUME IsList, NEW dt, NEW skip
  PROVE  \E f : /\ f[0] = Entered(dt)
                /\ \A n \in 0 .. Len(Programs) - 1 : f[n + 1] = NextProgram(f[n], Programs[n + 1], dt, skip)
                /\ Passed(dt, skip) = f[Len(Programs)]
<1> DEFINE L == Len(Programs)
           Pass(f) ==
             [i \in 0 .. Len(Programs) |->
               IF i = 0 THEN Entered(dt) ELSE NextProgram(f[i - 1], Programs[i], dt, skip)]
           pass == CHOOSE f : f = Pass(f)
<1>1. \A f : IsPass(dt, skip, Len(Programs), f) <=> f = Pass(f)
  BY Zenon DEF IsPass
<1>2. Passed(dt, skip) = pass[Len(Programs)]
  BY Zenon DEF Passed
<1>3. pass = Pass(pass)
  <2>1. \E f : f = Pass(f)
    BY PassExists, <1>1
  <2> HIDE DEF Pass
  <2> QED BY <2>1, Zenon
<1>4. IsPass(dt, skip, Len(Programs), pass)
  <2> HIDE DEF Pass, pass
  <2> QED BY <1>1, <1>3
<1> HIDE DEF Pass, pass
<1>5. pass[0] = Entered(dt)
      /\ \A n \in 0 .. L - 1 : pass[n + 1] = NextProgram(pass[n], Programs[n + 1], dt, skip)
  <2>0. L \in Nat
    BY DEF IsList
  <2>1. pass = [i \in 0 .. L |-> IF i = 0 THEN Entered(dt) ELSE NextProgram(pass[i - 1], Programs[i], dt, skip)]
    BY <1>4 DEF IsPass
  <2> HIDE DEF L
  <2>2. 0 \in 0 .. L /\ \A n \in 0 .. L - 1 : n + 1 \in 0 .. L /\ n + 1 # 0 /\ (n + 1) - 1 = n
    BY <2>0
  <2> QED BY <2>1, <2>2
<1> QED BY <1>2, <1>5

(* After every program: the memory has its shape, and the inputs, what was *)
(* written to them and the system variables are those of the start.        *)
PassShape(a, dt) ==
  /\ IsAcc(a)
  /\ a.mem.input = Entered(dt).mem.input
  /\ a.mem.told = mem.told
  /\ a.mem.sys = SysImage(abort, dt, scans = 0, time)

(* The pass begins with the inputs told to it, forced ones aside.          *)
LEMMA EnteredShape ==
  ASSUME ForcesInv, NEW dt
  PROVE  PassShape(Entered(dt), dt) /\ \A n \in TagsOf("in") :
           <<"input", "", n>> \notin DOMAIN forced => Entered(dt).mem.input[n] = mem.told[n]
<1> DEFINE s == SysImage(abort, dt, scans = 0, time)
           m == [mem EXCEPT !.sys = s]
<1>1. Over(mem, Parts)
  BY DEF ForcesInv, IsMem
<1>2. /\ Over(m, Parts) /\ m.input = mem.input /\ m.told = mem.told /\ m.output = mem.output
      /\ m.global = mem.global /\ m.local = mem.local /\ m.sys = s
  <2> HIDE DEF s
  <2> QED BY <1>1 DEF Over, Parts
<1> HIDE DEF m, s
<1>3. IsMem(m)
  BY <1>2 DEF ForcesInv, IsMem
<1>4. /\ IsMem(ApplyForces(forced, m))
      /\ ApplyForces(forced, m).told = m.told /\ ApplyForces(forced, m).sys = m.sys
      /\ \A n \in TagsOf("in") :
           <<"input", "", n>> \notin DOMAIN forced => ApplyForces(forced, m).input[n] = m.input[n]
  BY <1>3, ForcesAreApplied DEF ForcesInv
<1>5. Entered(dt) = [mem |-> ApplyForces(forced, m), written |-> {}, faults |-> {}]
  BY DEF Entered, m, s
<1>6. IsAcc(Entered(dt)) /\ Entered(dt).mem = ApplyForces(forced, m)
  <2> DEFINE w == ApplyForces(forced, m)
             e == Entered(dt)
  <2>1. e = [mem |-> w, written |-> {}, faults |-> {}] /\ IsMem(w)
    BY <1>4, <1>5
  <2> HIDE DEF w, e
  <2>2. Over(e, {"mem", "written", "faults"}) /\ e.mem = w
    BY <2>1 DEF Over
  <2> QED BY <2>1, <2>2 DEF IsAcc, w, e
<1>7. \A n \in TagsOf("in") : <<"input", "", n>> \notin DOMAIN forced => mem.input[n] = mem.told[n]
  BY DEF ForcesInv, ForcesHold, IsMem, Over
<1> QED BY <1>2, <1>4, <1>6, <1>7 DEF PassShape, s

(* No program of the pass spoils the image, forced values or the clock.    *)
LEMMA PassKeepsShape ==
  ASSUME ForcesInv, NEW dt, NEW skip, NEW f,
         f[0] = Entered(dt),
         \A n \in 0 .. Len(Programs) - 1 : f[n + 1] = NextProgram(f[n], Programs[n + 1], dt, skip)
  PROVE  \A n \in 0 .. Len(Programs) : PassShape(f[n], dt)
<1> DEFINE L == Len(Programs)
           S == {n \in 0 .. L : PassShape(f[n], dt)}
<1>0. L \in Nat /\ IsList
  BY DEF ForcesInv, IsList
<1>1. 0 \in S
  <2>1. 0 \in 0 .. L
    BY <1>0
  <2>2. PassShape(f[0], dt)
    BY EnteredShape
  <2> QED BY <2>1, <2>2
<1>2. ASSUME NEW n \in 0 .. L - 1, n \in S PROVE n + 1 \in S
  <2>1. n + 1 \in DOMAIN Programs /\ n + 1 \in 0 .. L
    BY <1>0 DEF IsList
  <2>2. f[n + 1] = NextProgram(f[n], Programs[n + 1], dt, skip) /\ PassShape(f[n], dt)
    BY <1>2
  <2>3. PassShape(f[n + 1], dt)
    <3>1. CASE Programs[n + 1].name \in skip
      BY <2>2, <3>1 DEF NextProgram
    <3>2. CASE Programs[n + 1].name \notin skip
      <4>1. f[n + 1] = RunProgram(f[n], Programs[n + 1], dt)
        BY <2>2, <3>2 DEF NextProgram
      <4> QED BY <1>0, <2>1, <2>2, <4>1, ProgramKeepsShape DEF PassShape
    <3> QED BY <3>1, <3>2
  <2> QED BY <2>1, <2>3
<1> HIDE DEF S
<1>3. \A n \in 0 .. L : n \in S
  BY <1>0, <1>1, <1>2, IntervalInduction
<1> QED BY <1>3 DEF S

-----------------------------------------------------------------------------
(* Forces hold.                                                            *)

(* What a scan leaves, whatever programs it passes over.                   *)
LEMMA ScanHoldsForces ==
  ASSUME ForcesInv, NEW dt, NEW skip
  PROVE  LET m == Scanned(dt, skip).mem
         IN  /\ IsMem(m) /\ Pinned(forced, m)
             /\ m.told = mem.told
             /\ m.sys = SysImage(abort, dt, scans = 0, time)
             /\ \A n \in TagsOf("in") : <<"input", "", n>> \notin DOMAIN forced => m.input[n] = m.told[n]
<1> DEFINE a == Passed(dt, skip)
           m == Scanned(dt, skip).mem
<1>0. IsList /\ IsForces(forced) /\ Len(Programs) \in 0 .. Len(Programs)
  BY DEF ForcesInv, IsList
<1>1. PassShape(a, dt)
  <2>1. PICK f : /\ f[0] = Entered(dt)
                 /\ \A n \in 0 .. Len(Programs) - 1 : f[n + 1] = NextProgram(f[n], Programs[n + 1], dt, skip)
                 /\ Passed(dt, skip) = f[Len(Programs)]
    BY <1>0, PassedIsPass
  <2>2. \A n \in 0 .. Len(Programs) : PassShape(f[n], dt)
    BY <2>1, PassKeepsShape
  <2> QED BY <1>0, <2>1, <2>2
<1> HIDE DEF a
<1>2. m = ApplyForces(forced, a.mem)
  <2>1. Scanned(dt, skip) = [a EXCEPT !.mem = ApplyForces(forced, @)]
    BY Zenon DEF Scanned, Forced, a
  <2> QED BY <1>1, <2>1 DEF PassShape, IsAcc, Over
<1> HIDE DEF m
<1>3. IsMem(a.mem)
  BY <1>1 DEF PassShape, IsAcc
<1>4. /\ IsMem(m) /\ Pinned(forced, m) /\ m.told = a.mem.told /\ m.sys = a.mem.sys
      /\ \A n \in TagsOf("in") : <<"input", "", n>> \notin DOMAIN forced => m.input[n] = a.mem.input[n]
  <2> DEFINE b == a.mem
             w == ApplyForces(forced, b)
  <2>1. m = w /\ IsMem(b)
    BY <1>2, <1>3
  <2> HIDE DEF b
  <2>2. /\ IsMem(w) /\ Pinned(forced, w) /\ w.told = b.told /\ w.sys = b.sys
        /\ \A n \in TagsOf("in") : <<"input", "", n>> \notin DOMAIN forced => w.input[n] = b.input[n]
    BY <1>0, <2>1, ForcesAreApplied
  <2> HIDE DEF w
  <2> QED BY <2>1, <2>2 DEF b
<1>5. \A n \in TagsOf("in") :
        <<"input", "", n>> \notin DOMAIN forced => Entered(dt).mem.input[n] = mem.told[n]
  BY EnteredShape
<1> QED BY <1>1, <1>4, <1>5 DEF PassShape, m

(* What a new or a reset runtime holds.                                    *)
LEMMA BuiltHoldsForces ==
  ASSUME IsList, NEW f, IsForces(f)
  PROVE  /\ IsMem(Built(f)) /\ Pinned(f, Built(f))
         /\ \A n \in TagsOf("in") : <<"input", "", n>> \notin DOMAIN f => Built(f).input[n] = Built(f).told[n]
<1> DEFINE gl == [n \in DOMAIN MergedGlobals(Programs) |-> MakeValue(MergedGlobals(Programs)[n])]
           sy == SysImage(FALSE, RealV(0, 1), TRUE, RealV(0, 1))
           lo == [x \in Names |-> [n \in Owned(Named(x), "local") |-> MakeValue(Named(x).syms[n])]]
           m == [input |-> TagImage("in"), told |-> TagImage("in"), output |-> TagImage("out"),
                 global |-> gl, sys |-> sy, local |-> lo]
<1>1. Built(f) = ApplyForces(f, m)
  BY Zenon DEF Built
<1>2. /\ Over(TagImage("in"), TagsOf("in")) /\ Over(TagImage("out"), TagsOf("out"))
      /\ Over(gl, DOMAIN MergedGlobals(Programs)) /\ Over(lo, Names)
  BY DEF Over, TagImage
<1>3. \A x \in Names : Over(lo[x], Owned(Named(x), "local"))
  BY DEF Over
<1> HIDE DEF gl, sy, lo
<1>4. /\ Over(m, Parts) /\ m.input = TagImage("in") /\ m.told = TagImage("in") /\ m.output = TagImage("out")
      /\ m.global = gl /\ m.local = lo
  BY DEF Over, Parts
<1> HIDE DEF m
<1>5. IsMem(m)
  BY <1>2, <1>3, <1>4 DEF IsMem
<1> DEFINE w == ApplyForces(f, m)
<1>6. /\ IsMem(w) /\ Pinned(f, w) /\ w.told = m.told
      /\ \A n \in TagsOf("in") : <<"input", "", n>> \notin DOMAIN f => w.input[n] = m.input[n]
  BY <1>5, ForcesAreApplied, Zenon
<1>7. m.input = m.told
  BY <1>4
<1> HIDE DEF w
<1>8. Built(f) = w
  BY <1>1 DEF w
<1> QED BY <1>6, <1>7, <1>8

(* A store of which one value changes.                                     *)
LEMMA UpdatedStore ==
  ASSUME NEW D, NEW s, Over(s, D), NEW n \in D, NEW v
  PROVE  /\ Over([s EXCEPT ![n] = v], D) /\ [s EXCEPT ![n] = v][n] = v
         /\ \A i \in D \ {n} : [s EXCEPT ![n] = v][i] = s[i]
BY DEF Over

(* Forces hold as long as nothing but unforced inputs and globals changes. *)
Beside(f, m, w) ==
  /\ w.output = m.output /\ w.local = m.local
  /\ \A n : <<"input", "", n>> \in DOMAIN f => w.input[n] = m.input[n]
  /\ \A n : <<"global", "", n>> \in DOMAIN f => w.global[n] = f[<<"global", "", n>>]

(* Forced values survive what happens beside them.                         *)
LEMMA StillPinned ==
  ASSUME IsList, NEW f, IsForces(f), NEW m, Pinned(f, m), NEW w, Beside(f, m, w)
  PROVE  Pinned(f, w)
<1> SUFFICES ASSUME NEW k \in DOMAIN f
             PROVE  f[k] = CASE k[1] = "local" -> w.local[k[2]][k[3]]
                             [] OTHER          -> w[k[1]][k[3]]
  BY DEF Pinned
<1>0. f[k] = CASE k[1] = "local" -> m.local[k[2]][k[3]]
               [] OTHER          -> m[k[1]][k[3]]
  BY DEF Pinned
<1> DEFINE n == k[3]
<1>1. \/ k = <<"input", "", n>> \/ k = <<"output", "", n>> \/ k = <<"global", "", n>>
      \/ k[1] = "local"
  <2>1. k \in Forceable
    BY DEF IsForces
  <2> QED BY <2>1, ForceableKinds
<1> HIDE DEF n
<1>2. CASE k = <<"input", "", n>>
  <2>1. k[1] = "input" /\ k[3] = n
    BY <1>2
  <2> QED BY <1>0, <1>2, <2>1 DEF Beside
<1>3. CASE k = <<"output", "", n>>
  <2>1. k[1] = "output" /\ k[3] = n
    BY <1>3
  <2> QED BY <1>0, <1>3, <2>1 DEF Beside
<1>4. CASE k = <<"global", "", n>>
  <2>1. k[1] = "global" /\ k[3] = n
    BY <1>4
  <2> QED BY <1>0, <1>4, <2>1 DEF Beside
<1>5. CASE k[1] = "local"
  BY <1>0, <1>5 DEF Beside
<1> QED BY <1>1, <1>2, <1>3, <1>4, <1>5

(* The invariant, put together from its parts.                             *)
LEMMA ForcesInvAfter ==
  ASSUME ForcesInv, plan' = plan, IsMem(mem'), IsForces(forced'), Pinned(forced', mem'),
         \A n \in TagsOf("in") : <<"input", "", n>> \notin DOMAIN forced' => mem'.input[n] = mem'.told[n]
  PROVE  ForcesInv'
<1>1. IsList'
  BY PlanIsKept DEF ForcesInv, IsList
<1>2. IsMem(mem)'
  BY MemIsKept
<1>3. IsForces(forced)'
  BY PlanIsKept DEF IsForces
<1>4. ForcesHold'
  <2>1. DOMAIN mem'.input = TagsOf("in")
    BY DEF IsMem, Over
  <2> QED BY <2>1 DEF ForcesHold, Pinned
<1> QED BY <1>1, <1>2, <1>3, <1>4 DEF ForcesInv

(* Nothing is forced in the beginning.                                     *)
LEMMA InitForces ==
  ASSUME Init
  PROVE  ForcesInv
<1>1. IsList
  <2>1. PICK q \in Plans : plan = Loaded(q)
    BY DEF Init
  <2>2. plan = [q EXCEPT !.programs = [i \in DOMAIN q.programs |-> Compiled(Tags, q.programs[i])]]
    BY <2>1 DEF Loaded
  <2>3. "programs" \in DOMAIN q /\ Len(q.programs) \in Nat /\ DOMAIN q.programs = 1 .. Len(q.programs)
    BY PlansAreLists
  <2>4. Programs = [i \in 1 .. Len(q.programs) |-> Compiled(Tags, q.programs[i])]
    BY <2>2, <2>3 DEF Programs
  <2>5. Len(Programs) = Len(q.programs) /\ DOMAIN Programs = 1 .. Len(q.programs)
    BY <2>3, <2>4
  <2>6. \A i, j \in DOMAIN Programs : Programs[i].name = Programs[j].name => i = j
    BY DEF Init
  <2> QED BY <2>3, <2>5, <2>6 DEF IsList
<1>2. IsForces(forced)
  BY DEF Init, IsForces, Over
<1>3. mem = Built(forced)
  BY DEF Init
<1>4. /\ IsMem(mem) /\ Pinned(forced, mem)
      /\ \A n \in TagsOf("in") : <<"input", "", n>> \notin DOMAIN forced => mem.input[n] = mem.told[n]
  BY <1>1, <1>2, <1>3, BuiltHoldsForces
<1>5. DOMAIN mem.input = TagsOf("in")
  BY <1>4 DEF IsMem, Over
<1>6. ForcesHold
  BY <1>4, <1>5 DEF ForcesHold, Pinned
<1> QED BY <1>1, <1>2, <1>4, <1>6 DEF ForcesInv

(* A forced global is a global, and has its forced value.                  *)
LEMMA GlobalForces ==
  ASSUME IsList, NEW f, IsForces(f), NEW m, Pinned(f, m), NEW n, <<"global", "", n>> \in DOMAIN f
  PROVE  n \in DOMAIN MergedGlobals(Programs) /\ m.global[n] = f[<<"global", "", n>>]
<1> DEFINE k == <<"global", "", n>>
<1>1. k[1] = "global" /\ k[3] = n
  OBVIOUS
<1>2. k \in DOMAIN f /\ k \in Forceable
  BY DEF IsForces
<1> HIDE DEF k
<1>3. k[3] \in DOMAIN MergedGlobals(Programs)
  <2>1. ASSUME k = <<"input", "", n>> \/ k = <<"output", "", n>> PROVE FALSE
    BY <2>1 DEF k
  <2> QED BY <1>1, <1>2, <2>1, ForceableKinds
<1>4. f[k] = m.global[n]
  BY <1>1, <1>2 DEF Pinned
<1> QED BY <1>1, <1>3, <1>4 DEF k

(* What a runtime that holds its forces says of the memory.                *)
LEMMA MemParts ==
  ASSUME ForcesInv
  PROVE  /\ IsList /\ IsMem(mem) /\ IsForces(forced) /\ Pinned(forced, mem)
         /\ Over(mem, Parts) /\ Over(mem.input, TagsOf("in")) /\ Over(mem.told, TagsOf("in"))
         /\ Over(mem.global, DOMAIN MergedGlobals(Programs))
         /\ \A n \in TagsOf("in") : <<"input", "", n>> \notin DOMAIN forced => mem.input[n] = mem.told[n]
         /\ \A n : <<"global", "", n>> \in DOMAIN forced =>
              n \in DOMAIN MergedGlobals(Programs) /\ mem.global[n] = forced[<<"global", "", n>>]
<1>1. IsMem(mem)
  BY DEF ForcesInv
<1>2. DOMAIN mem.input = TagsOf("in")
  BY <1>1 DEF IsMem, Over
<1>3. ASSUME NEW n, <<"global", "", n>> \in DOMAIN forced
      PROVE  n \in DOMAIN MergedGlobals(Programs) /\ mem.global[n] = forced[<<"global", "", n>>]
  <2>1. IsList /\ IsForces(forced) /\ Pinned(forced, mem)
    BY DEF ForcesInv, ForcesHold, Pinned
  <2> QED BY <1>3, <2>1, GlobalForces
<1> QED BY <1>1, <1>2, <1>3 DEF ForcesInv, IsMem, ForcesHold, Pinned

(* An input written under a force is only remembered.                      *)
LEMMA WriteInputsHoldsForces ==
  ASSUME ForcesInv, NEW n, NEW v, WriteInputs(n, v)
  PROVE  ForcesInv'
<1> DEFINE x == Coerce(v, Tags[n].type)
           y == IF <<"input", "", n>> \in DOMAIN forced THEN mem.input[n] ELSE x
<1>1. /\ n \in TagsOf("in") /\ mem' = [mem EXCEPT !.told[n] = x, !.input[n] = y]
      /\ plan' = plan /\ forced' = forced
  BY Zenon DEF WriteInputs
<1> HIDE DEF x, y
<1>2. /\ Over(mem', Parts)
      /\ mem'.told = [mem.told EXCEPT ![n] = x] /\ mem'.input = [mem.input EXCEPT ![n] = y]
      /\ mem'.output = mem.output /\ mem'.global = mem.global /\ mem'.local = mem.local
  BY <1>1, MemParts DEF Over, Parts
<1>3. /\ Over(mem'.told, TagsOf("in")) /\ Over(mem'.input, TagsOf("in"))
      /\ mem'.told[n] = x /\ mem'.input[n] = y
      /\ \A i \in TagsOf("in") \ {n} : mem'.told[i] = mem.told[i] /\ mem'.input[i] = mem.input[i]
  <2> DEFINE D == TagsOf("in")  t == mem.told  p == mem.input
  <2>1. Over(t, D) /\ Over(p, D) /\ n \in D
    BY <1>1, MemParts
  <2> HIDE DEF D, t, p
  <2>2. /\ Over([t EXCEPT ![n] = x], D) /\ [t EXCEPT ![n] = x][n] = x
        /\ \A i \in D \ {n} : [t EXCEPT ![n] = x][i] = t[i]
    BY <2>1, UpdatedStore
  <2>3. /\ Over([p EXCEPT ![n] = y], D) /\ [p EXCEPT ![n] = y][n] = y
        /\ \A i \in D \ {n} : [p EXCEPT ![n] = y][i] = p[i]
    BY <2>1, UpdatedStore
  <2> QED BY <1>2, <2>2, <2>3, Zenon DEF D, t, p
<1>4. IsMem(mem')
  BY <1>2, <1>3, MemParts DEF IsMem
<1>5. \A i : <<"input", "", i>> \in DOMAIN forced => mem'.input[i] = mem.input[i]
  <2> SUFFICES ASSUME NEW i, <<"input", "", i>> \in DOMAIN forced PROVE mem'.input[i] = mem.input[i]
    OBVIOUS
  <2>1. CASE i = n
    BY <1>3, <2>1 DEF y
  <2>2. CASE i # n
    <3>1. <<"input", "", i>> \in Forceable
      BY MemParts DEF IsForces
    <3>2. i \in TagsOf("in")
      BY <3>1, MemParts, ForceableKinds
    <3> QED BY <1>3, <2>2, <3>2
  <2> QED BY <2>1, <2>2
<1>6. \A i : <<"global", "", i>> \in DOMAIN forced => mem'.global[i] = forced[<<"global", "", i>>]
  BY <1>2, MemParts
<1>7. Pinned(forced, mem')
  <2>1. Beside(forced, mem, mem')
    BY <1>2, <1>5, <1>6, Zenon DEF Beside
  <2>2. IsList /\ IsForces(forced) /\ Pinned(forced, mem)
    BY MemParts
  <2> QED BY <2>1, <2>2, StillPinned
<1>8. \A i \in TagsOf("in") : <<"input", "", i>> \notin DOMAIN forced => mem'.input[i] = mem'.told[i]
  BY <1>3, MemParts DEF y
<1> QED BY <1>1, <1>4, <1>7, <1>8, MemParts, ForcesInvAfter

(* A global written under a force stays what it is.                        *)
LEMMA WriteGlobalsHoldsForces ==
  ASSUME ForcesInv, NEW n, NEW v, WriteGlobals(n, v)
  PROVE  ForcesInv'
<1> DEFINE y == IF <<"global", "", n>> \in DOMAIN forced THEN forced[<<"global", "", n>>]
                ELSE Coerce(v, MergedGlobals(Programs)[n].type)
<1>1. /\ mem' = [mem EXCEPT !.global[n] = y]
      /\ n \in DOMAIN MergedGlobals(Programs) /\ plan' = plan /\ forced' = forced
  BY Zenon DEF WriteGlobals
<1>2. <<"global", "", n>> \in DOMAIN forced => y = forced[<<"global", "", n>>]
  OBVIOUS
<1> HIDE DEF y
<1>3. /\ Over(mem', Parts)
      /\ mem'.global = [mem.global EXCEPT ![n] = y]
      /\ mem'.told = mem.told /\ mem'.input = mem.input
      /\ mem'.output = mem.output /\ mem'.local = mem.local
  BY <1>1, MemParts DEF Over, Parts
<1>4. /\ Over(mem'.global, DOMAIN MergedGlobals(Programs)) /\ mem'.global[n] = y
      /\ \A i \in DOMAIN MergedGlobals(Programs) \ {n} : mem'.global[i] = mem.global[i]
  <2> DEFINE D == DOMAIN MergedGlobals(Programs)  g == mem.global
  <2>1. Over(g, D) /\ n \in D
    BY <1>1, MemParts
  <2> HIDE DEF D, g
  <2>2. /\ Over([g EXCEPT ![n] = y], D) /\ [g EXCEPT ![n] = y][n] = y
        /\ \A i \in D \ {n} : [g EXCEPT ![n] = y][i] = g[i]
    BY <2>1, UpdatedStore
  <2> QED BY <1>3, <2>2, Zenon DEF D, g
<1>5. IsMem(mem')
  BY <1>3, <1>4, MemParts DEF IsMem
<1>6. \A i : <<"global", "", i>> \in DOMAIN forced => mem'.global[i] = forced[<<"global", "", i>>]
  <2>1. \A i : <<"global", "", i>> \in DOMAIN forced =>
          i \in DOMAIN MergedGlobals(Programs) /\ mem.global[i] = forced[<<"global", "", i>>]
    BY MemParts
  <2> QED BY <1>2, <1>4, <2>1
<1>7. Pinned(forced, mem')
  <2>1. Beside(forced, mem, mem')
    BY <1>3, <1>6, Zenon DEF Beside
  <2>2. IsList /\ IsForces(forced) /\ Pinned(forced, mem)
    BY MemParts
  <2> QED BY <2>1, <2>2, StillPinned
<1> QED BY <1>1, <1>3, <1>5, <1>7, MemParts, ForcesInvAfter

(* A force shows at once.                                                  *)
LEMMA ForceHoldsForces ==
  ASSUME ForcesInv, NEW k, NEW v, ForceValue(k, v)
  PROVE  ForcesInv'
<1> DEFINE f == [x \in DOMAIN forced \cup {k} |-> IF x = k THEN Coerce(v, ForceType(k)) ELSE forced[x]]
           w == ApplyForces(f, mem)
<1>1. k \in Forceable /\ forced' = f /\ mem' = w /\ plan' = plan
  BY Zenon DEF ForceValue
<1>2. IsForces(f) /\ DOMAIN forced \subseteq DOMAIN f
  BY <1>1, MemParts DEF IsForces, Over
<1> HIDE DEF f
<1>3. /\ IsMem(w) /\ Pinned(f, w) /\ w.told = mem.told
      /\ \A n \in TagsOf("in") : <<"input", "", n>> \notin DOMAIN f => w.input[n] = mem.input[n]
  <2>1. IsList /\ IsForces(f) /\ IsMem(mem)
    BY <1>2, MemParts
  <2> QED BY <2>1, ForcesAreApplied
<1> HIDE DEF w
<1>4. \A n \in TagsOf("in") : <<"input", "", n>> \notin DOMAIN f => w.input[n] = w.told[n]
  BY <1>2, <1>3, MemParts
<1> QED BY <1>1, <1>2, <1>3, <1>4, ForcesInvAfter

(* An input shows the value last told when its force is gone.              *)
LEMMA UnforceHoldsForces ==
  ASSUME ForcesInv, NEW k, UnforceValue(k)
  PROVE  ForcesInv'
<1> DEFINE f == [x \in DOMAIN forced \ {k} |-> forced[x]]
<1>1. /\ k \in DOMAIN forced /\ plan' = plan /\ forced' = f
      /\ mem' = IF k[1] = "input" THEN [mem EXCEPT !.input[k[3]] = mem.told[k[3]]] ELSE mem
  BY DEF UnforceValue
<1>2. IsForces(f) /\ DOMAIN f = DOMAIN forced \ {k}
      /\ \A x \in DOMAIN f : f[x] = forced[x]
  BY <1>1, MemParts DEF IsForces, Over
<1> HIDE DEF f
<1>3. Pinned(f, mem)
  BY <1>2, MemParts DEF Pinned
<1>4. CASE k[1] # "input"
  <2>1. mem' = mem
    BY <1>1, <1>4
  <2>2. ASSUME NEW n \in TagsOf("in"), <<"input", "", n>> \notin DOMAIN f
        PROVE  mem.input[n] = mem.told[n]
    <3>1. <<"input", "", n>> \notin DOMAIN forced
      <4> DEFINE u == <<"input", "", n>>
      <4>1. u[1] = "input" /\ u \notin DOMAIN f
        BY <1>1, <2>2
      <4> HIDE DEF u
      <4>2. u # k
        BY <1>4, <4>1
      <4> QED BY <1>2, <4>1, <4>2 DEF u
    <3> QED BY <3>1, MemParts
  <2> QED BY <1>1, <1>2, <1>3, <2>1, <2>2, MemParts, ForcesInvAfter
<1>5. CASE k[1] = "input"
  <2> DEFINE n == k[3]
  <2>1. k \in Forceable
    BY <1>1, MemParts DEF IsForces
  <2>2. k = <<"input", "", n>> /\ n \in TagsOf("in")
    <3>1. /\ k = <<"output", "", k[3]>> => k[1] = "output"
          /\ k = <<"global", "", k[3]>> => k[1] = "global"
      <4> DEFINE u == <<"output", "", n>>  w == <<"global", "", n>>
      <4>1. u[1] = "output" /\ w[1] = "global"
        OBVIOUS
      <4> HIDE DEF u, w
      <4>2. (k = u => k[1] = "output") /\ (k = w => k[1] = "global")
        BY <4>1
      <4> QED BY <4>2 DEF u, w
    <3> QED BY <1>5, <2>1, <3>1, MemParts, ForceableKinds
  <2>3. mem' = [mem EXCEPT !.input[n] = mem.told[n]]
    BY <1>1, <1>5
  <2> HIDE DEF n
  <2>4. /\ Over(mem', Parts)
        /\ mem'.input = [mem.input EXCEPT ![n] = mem.told[n]]
        /\ mem'.told = mem.told /\ mem'.global = mem.global
        /\ mem'.output = mem.output /\ mem'.local = mem.local
    BY <2>3, MemParts DEF Over, Parts
  <2>5. /\ Over(mem'.input, TagsOf("in")) /\ mem'.input[n] = mem.told[n]
        /\ \A i \in TagsOf("in") \ {n} : mem'.input[i] = mem.input[i]
    <3> DEFINE D == TagsOf("in")  p == mem.input  y == mem.told[n]
    <3>1. Over(p, D) /\ n \in D
      BY <2>2, MemParts
    <3> HIDE DEF D, p, y
    <3>2. /\ Over([p EXCEPT ![n] = y], D) /\ [p EXCEPT ![n] = y][n] = y
          /\ \A i \in D \ {n} : [p EXCEPT ![n] = y][i] = p[i]
      BY <3>1, UpdatedStore
    <3> QED BY <2>4, <3>2, Zenon DEF D, p, y
  <2>6. IsMem(mem')
    BY <2>4, <2>5, MemParts DEF IsMem
  <2>7. <<"input", "", n>> \notin DOMAIN f
    BY <1>2, <2>2
  <2>8. \A i : <<"input", "", i>> \in DOMAIN f => mem'.input[i] = mem.input[i]
    <3> SUFFICES ASSUME NEW i, <<"input", "", i>> \in DOMAIN f PROVE mem'.input[i] = mem.input[i]
      OBVIOUS
    <3>1. <<"input", "", i>> \in Forceable /\ i # n
      BY <1>2, <2>7 DEF IsForces
    <3>2. i \in TagsOf("in")
      BY <3>1, MemParts, ForceableKinds
    <3> QED BY <2>5, <3>1, <3>2
  <2>9. \A i : <<"global", "", i>> \in DOMAIN f => mem'.global[i] = f[<<"global", "", i>>]
    BY <1>2, <2>4, MemParts
  <2>11. ASSUME NEW i \in TagsOf("in"), <<"input", "", i>> \notin DOMAIN f
         PROVE  mem'.input[i] = mem'.told[i]
    <3>1. i # n => <<"input", "", i>> # k
      BY <2>2
    <3>2. i # n => <<"input", "", i>> \notin DOMAIN forced
      BY <1>2, <2>11, <3>1
    <3> QED BY <2>4, <2>5, <3>2, MemParts
  <2>10. Pinned(f, mem')
    <3>1. Beside(f, mem, mem')
      BY <2>4, <2>8, <2>9, Zenon DEF Beside
    <3>2. IsList /\ IsForces(f) /\ Pinned(f, mem)
      BY <1>2, <1>3, MemParts
    <3> QED BY <3>1, <3>2, StillPinned
  <2> QED BY <1>1, <1>2, <2>6, <2>10, <2>11, ForcesInvAfter
<1> QED BY <1>4, <1>5

(* No request, scan, halt or reset undoes a force.                         *)
LEMMA NextHoldsForces ==
  ASSUME ForcesInv, [HNext]_<<vars, seen>>
  PROVE  ForcesInv'
<1>1. CASE /\ plan' = plan /\ mem' = mem /\ forced' = forced
  BY <1>1, MemParts, ForcesInvAfter
<1>2. ASSUME NEW n, NEW v, WriteInputs(n, v) PROVE ForcesInv'
  BY <1>2, WriteInputsHoldsForces
<1>3. ASSUME NEW n, NEW v, WriteGlobals(n, v) PROVE ForcesInv'
  BY <1>3, WriteGlobalsHoldsForces
<1>4. ASSUME NEW k, NEW v, ForceValue(k, v) PROVE ForcesInv'
  BY <1>4, ForceHoldsForces
<1>5. ASSUME NEW k, UnforceValue(k) PROVE ForcesInv'
  BY <1>5, UnforceHoldsForces
<1>6. ASSUME NEW n, NEW on, SetProgramEnabled(n, on) PROVE ForcesInv'
  BY <1>1, <1>6 DEF SetProgramEnabled
<1>7. ASSUME ClearFaults PROVE ForcesInv'
  BY <1>1, <1>7 DEF ClearFaults
<1>8. ASSUME NEW on, SetAbort(on) PROVE ForcesInv'
  <2>1. plan' = plan /\ forced' = forced /\ mem' = [mem EXCEPT !.sys.SYS_ABORT = BoolV(on)]
    BY <1>8 DEF SetAbort
  <2>2. /\ Over(mem', Parts) /\ mem'.input = mem.input /\ mem'.told = mem.told
        /\ mem'.output = mem.output /\ mem'.global = mem.global /\ mem'.local = mem.local
    BY <2>1, MemParts DEF Over, Parts
  <2>3. IsMem(mem')
    BY <2>2, MemParts DEF IsMem
  <2>4. \A i : <<"global", "", i>> \in DOMAIN forced => mem'.global[i] = forced[<<"global", "", i>>]
    BY <2>2, MemParts
  <2>5. Pinned(forced, mem')
    <3>1. Beside(forced, mem, mem')
      BY <2>2, <2>4, Zenon DEF Beside
    <3>2. IsList /\ IsForces(forced) /\ Pinned(forced, mem)
      BY MemParts
    <3> QED BY <3>1, <3>2, StillPinned
  <2> QED BY <2>1, <2>2, <2>3, <2>5, MemParts, ForcesInvAfter
<1>9. ASSUME Reset PROVE ForcesInv'
  <2>1. plan' = plan /\ forced' = forced /\ mem' = Built(forced)
    BY <1>9 DEF Reset
  <2>2. /\ IsMem(mem') /\ Pinned(forced, mem')
        /\ \A n \in TagsOf("in") : <<"input", "", n>> \notin DOMAIN forced => mem'.input[n] = mem'.told[n]
    BY <2>1, MemParts, BuiltHoldsForces
  <2> QED BY <2>1, <2>2, MemParts, ForcesInvAfter
<1>10. ASSUME NEW dt, Scan(dt) PROVE ForcesInv'
  <2> DEFINE m == Scanned(dt, Skipped).mem
  <2>1. plan' = plan /\ forced' = forced /\ mem' = m
    BY <1>10 DEF Scan, Finish
  <2>2. /\ IsMem(m) /\ Pinned(forced, m)
        /\ \A n \in TagsOf("in") : <<"input", "", n>> \notin DOMAIN forced => m.input[n] = m.told[n]
    BY ScanHoldsForces
  <2> HIDE DEF m
  <2> QED BY <2>1, <2>2, MemParts, ForcesInvAfter
<1> QED BY <1>1, <1>2, <1>3, <1>4, <1>5, <1>6, <1>7, <1>8, <1>9, <1>10, Zenon DEF HNext, Next, vars

(* Between scans, after every request and every scan, every forced value   *)
(* stands, and every other input has what was last written to it           *)
(* (PlcRuntime.force, unforce, write_inputs, write_globals, scan).         *)
THEOREM ForcesAreHeld == HSpec => []ForcesHold
<1>1. HInit => ForcesInv
  BY InitForces DEF HInit
<1>2. ForcesInv /\ [HNext]_<<vars, seen>> => ForcesInv'
  BY NextHoldsForces
<1>3. ForcesInv => ForcesHold
  BY DEF ForcesInv
<1> QED BY <1>1, <1>2, <1>3, PTL DEF HSpec

-----------------------------------------------------------------------------
(* Faults leave no trace.                                                  *)

(* The programs among the first n that fail in the pass f.                 *)
Failing(f, n, dt, skip) ==
  {Programs[j].name : j \in {j \in 1 .. n : Programs[j].name \notin skip /\ Fails(f[j - 1], j, dt)}}

Failed(a) == {x[1] : x \in a.faults}

(* The faults of the pass are those of the programs that failed.           *)
LEMMA FaultsAreOfFailing ==
  ASSUME ForcesInv, NEW dt, NEW skip, NEW f,
         f[0] = Entered(dt),
         \A n \in 0 .. Len(Programs) - 1 : f[n + 1] = NextProgram(f[n], Programs[n + 1], dt, skip)
  PROVE  \A n \in 0 .. Len(Programs) : Failed(f[n]) = Failing(f, n, dt, skip)
<1> DEFINE L == Len(Programs)
           S == {n \in 0 .. L : Failed(f[n]) = Failing(f, n, dt, skip)}
<1>0. L \in Nat /\ IsList
  BY DEF ForcesInv, IsList
<1>1. 0 \in S
  <2>1. f[0].faults = {}
    BY DEF Entered
  <2>2. 0 \in 0 .. L /\ 1 .. 0 = {}
    BY <1>0
  <2> QED BY <2>1, <2>2 DEF Failed, Failing
<1>2. ASSUME NEW n \in 0 .. L - 1, n \in S PROVE n + 1 \in S
  <2> DEFINE k == n + 1
             p == Programs[k]
             fails == p.name \notin skip /\ Fails(f[n], k, dt)
  <2>1. k \in DOMAIN Programs /\ k \in 0 .. L /\ n \in 0 .. L /\ k - 1 = n
    BY <1>0 DEF IsList
  <2>2. f[k] = NextProgram(f[n], Programs[k], dt, skip) /\ IsAcc(f[n]) /\ Failed(f[n]) = Failing(f, n, dt, skip)
    <3>1. PassShape(f[n], dt)
      BY <2>1, PassKeepsShape
    <3> QED BY <1>2, <3>1 DEF PassShape
  <2>3. Failing(f, k, dt, skip) = Failing(f, n, dt, skip) \cup (IF fails THEN {p.name} ELSE {})
    <3>1. 1 .. k = (1 .. n) \cup {k}
      BY <1>0
    <3> DEFINE fit(j) == Programs[j].name \notin skip /\ Fails(f[j - 1], j, dt)
    <3>2. fit(k) <=> fails
      BY <2>1, Zenon
    <3> HIDE DEF k, fit, p, fails
    <3>3. {Programs[j].name : j \in {j \in 1 .. k : fit(j)}}
          = {Programs[j].name : j \in {j \in 1 .. n : fit(j)}} \cup (IF fails THEN {Programs[k].name} ELSE {})
      BY <3>1, <3>2
    <3> QED BY <3>3, Zenon DEF Failing, fit, p
  <2>4. Failed(f[k]) = Failed(f[n]) \cup (IF fails THEN {p.name} ELSE {})
    <3>1. CASE p.name \in skip
      BY <2>2, <3>1 DEF NextProgram
    <3>2. CASE p.name \notin skip
      <4>1. f[k] = RunProgram(f[n], p, dt)
        BY <2>2, <3>2 DEF NextProgram
      <4> HIDE DEF k
      <4>2. CASE Fails(f[n], k, dt)
        <5>2. f[k].faults = f[n].faults \cup {<<p.name, Body(f[n], k, dt).sig>>}
          BY <1>0, <2>1, <2>2, <4>1, <4>2, ProgramKeepsShape
        <5> HIDE DEF p
        <5>3. \A x : x = <<p.name, Body(f[n], k, dt).sig>> => x[1] = p.name
          OBVIOUS
        <5>4. Failed(f[k]) = Failed(f[n]) \cup {p.name}
          BY <5>2, <5>3 DEF Failed
        <5> QED BY <3>2, <4>2, <5>4
      <4>3. CASE ~Fails(f[n], k, dt)
        <5>1. f[k].faults = f[n].faults
          BY <1>0, <2>1, <2>2, <4>1, <4>3, ProgramKeepsShape
        <5> QED BY <4>3, <5>1 DEF Failed
      <4> QED BY <4>2, <4>3
    <3> QED BY <3>1, <3>2
  <2> QED BY <2>1, <2>2, <2>3, <2>4
<1> HIDE DEF S
<1>3. \A n \in 0 .. L : n \in S
  BY <1>0, <1>1, <1>2, IntervalInduction
<1> QED BY <1>3 DEF S

(* The pass without the programs that fail in it.                          *)
LEMMA PassWithoutFailed ==
  ASSUME ForcesInv, NEW dt, NEW skip
  PROVE  LET a == Passed(dt, skip)
             b == Passed(dt, skip \cup Failed(a))
         IN  /\ IsAcc(a) /\ IsAcc(b)
             /\ b.mem = a.mem /\ b.written = a.written /\ b.faults = {}
             /\ Failed(a) \cap skip = {}
<1> DEFINE L == Len(Programs)
           a == Passed(dt, skip)
           less == skip \cup Failed(a)
           b == Passed(dt, less)
<1>0. L \in Nat /\ IsList /\ L \in 0 .. L
  BY DEF ForcesInv, IsList
<1>1. PICK f : /\ f[0] = Entered(dt)
               /\ \A n \in 0 .. Len(Programs) - 1 : f[n + 1] = NextProgram(f[n], Programs[n + 1], dt, skip)
               /\ Passed(dt, skip) = f[Len(Programs)]
  BY <1>0, PassedIsPass
<1> HIDE DEF less
<1>2. PICK g : /\ g[0] = Entered(dt)
               /\ \A n \in 0 .. Len(Programs) - 1 : g[n + 1] = NextProgram(g[n], Programs[n + 1], dt, less)
               /\ Passed(dt, less) = g[Len(Programs)]
  BY <1>0, PassedIsPass
<1>3. \A n \in 0 .. Len(Programs) : PassShape(f[n], dt)
  BY <1>1, PassKeepsShape
<1>4. \A n \in 0 .. Len(Programs) : PassShape(g[n], dt)
  BY <1>2, PassKeepsShape
<1>5. Failed(a) = Failing(f, L, dt, skip)
  BY <1>0, <1>1, FaultsAreOfFailing
<1>6. ASSUME NEW j \in DOMAIN Programs
      PROVE  Programs[j].name \in Failed(a) <=> Programs[j].name \notin skip /\ Fails(f[j - 1], j, dt)
  <2>1. DOMAIN Programs = 1 .. L /\ \A i \in 1 .. L : Programs[i].name = Programs[j].name => i = j
    BY <1>0 DEF IsList
  <2> HIDE DEF L
  <2> QED BY <1>5, <2>1 DEF Failing
<1> DEFINE S == {n \in 0 .. L : g[n].mem = f[n].mem /\ g[n].written = f[n].written /\ g[n].faults = {}}
<1>7. 0 \in S
  <2>1. 0 \in 0 .. L
    BY <1>0
  <2>2. Entered(dt).faults = {}
    BY DEF Entered
  <2> QED BY <1>1, <1>2, <2>1, <2>2
<1> HIDE DEF a
<1>8. ASSUME NEW n \in 0 .. L - 1, n \in S PROVE n + 1 \in S
  <2> DEFINE k == n + 1
             p == Programs[k]
  <2>1. k \in DOMAIN Programs /\ k \in 0 .. L /\ n \in 0 .. L /\ k - 1 = n
    BY <1>0 DEF IsList
  <2>2. /\ f[k] = NextProgram(f[n], Programs[k], dt, skip) /\ g[k] = NextProgram(g[n], Programs[k], dt, less)
        /\ IsAcc(f[n]) /\ IsAcc(g[n])
        /\ g[n].mem = f[n].mem /\ g[n].written = f[n].written /\ g[n].faults = {}
    <3>1. PassShape(f[n], dt) /\ PassShape(g[n], dt)
      BY <1>3, <1>4, <2>1
    <3> QED BY <1>1, <1>2, <1>8, <3>1 DEF PassShape
  <2>3. p.name \in less <=> p.name \in skip \/ Fails(f[n], k, dt)
    <3>1. p.name \in Failed(a) <=> p.name \notin skip /\ Fails(f[k - 1], k, dt)
      BY <1>6, <2>1
    <3>2. Fails(f[k - 1], k, dt) <=> Fails(f[n], k, dt)
      BY <2>1, Zenon
    <3> HIDE DEF k, p
    <3> QED BY <3>1, <3>2 DEF less
  <2>4. g[k].mem = f[k].mem /\ g[k].written = f[k].written /\ g[k].faults = {}
    <3> HIDE DEF k
    <3>1. CASE p.name \in skip
      <4>1. f[k] = f[n] /\ g[k] = g[n]
        BY <2>2, <2>3, <3>1 DEF NextProgram
      <4> QED BY <2>2, <4>1
    <3>2. CASE p.name \notin skip /\ Fails(f[n], k, dt)
      <4>1. f[k] = RunProgram(f[n], p, dt) /\ g[k] = g[n]
        BY <2>2, <2>3, <3>2 DEF NextProgram
      <4>2. f[k].mem = f[n].mem /\ f[k].written = f[n].written
        BY <1>0, <2>1, <2>2, <3>2, <4>1, ProgramKeepsShape
      <4> QED BY <2>2, <4>1, <4>2
    <3>3. CASE p.name \notin skip /\ ~Fails(f[n], k, dt)
      <4>1. f[k] = RunProgram(f[n], p, dt) /\ g[k] = RunProgram(g[n], p, dt)
        BY <2>2, <2>3, <3>3 DEF NextProgram
      <4>2. /\ RunProgram(g[n], p, dt).mem = RunProgram(f[n], p, dt).mem
            /\ RunProgram(g[n], p, dt).written = RunProgram(f[n], p, dt).written
            /\ RunProgram(g[n], p, dt).faults = g[n].faults
        BY <1>0, <2>1, <2>2, <3>3, ProgramIgnoresFaults
      <4> QED BY <2>2, <4>1, <4>2
    <3> QED BY <3>1, <3>2, <3>3
  <2> QED BY <2>1, <2>4
<1> HIDE DEF S
<1>9. \A n \in 0 .. L : n \in S
  BY <1>0, <1>7, <1>8, IntervalInduction
<1>10. b.mem = a.mem /\ b.written = a.written /\ b.faults = {} /\ IsAcc(a) /\ IsAcc(b)
  <2>1. L \in S /\ PassShape(f[L], dt) /\ PassShape(g[L], dt)
    BY <1>0, <1>3, <1>4, <1>9
  <2>2. a = f[L] /\ b = g[L]
    BY <1>1, <1>2 DEF a
  <2> HIDE DEF b, L
  <2> QED BY <2>1, <2>2 DEF S, PassShape
<1>11. Failed(a) \cap skip = {}
  BY <1>5 DEF Failing
<1> QED BY <1>10, <1>11, Zenon DEF a, less

(* A scan and the same scan without the programs that fault in it.         *)
LEMMA ScanWithoutFailed ==
  ASSUME ForcesInv, NEW dt, NEW skip
  PROVE  LET r == Scanned(dt, skip)
             q == Scanned(dt, skip \cup Failed(r))
         IN  /\ q.mem = r.mem /\ q.written = r.written /\ q.faults = {}
             /\ Failed(r) \cap skip = {}
<1> DEFINE a == Passed(dt, skip)
           b == Passed(dt, skip \cup Failed(a))
           r == Scanned(dt, skip)
           q == Scanned(dt, skip \cup Failed(a))
<1>1. /\ IsAcc(a) /\ IsAcc(b)
      /\ b.mem = a.mem /\ b.written = a.written /\ b.faults = {}
      /\ Failed(a) \cap skip = {}
  BY PassWithoutFailed, Zenon
<1>2. r = [a EXCEPT !.mem = ApplyForces(forced, @)] /\ q = [b EXCEPT !.mem = ApplyForces(forced, @)]
  BY Zenon DEF Scanned, Forced
<1> HIDE DEF a, b, r, q
<1>3. /\ r.mem = ApplyForces(forced, a.mem) /\ r.written = a.written /\ r.faults = a.faults
      /\ q.mem = ApplyForces(forced, b.mem) /\ q.written = b.written /\ q.faults = b.faults
  BY <1>1, <1>2 DEF IsAcc, Over
<1>4. Failed(r) = Failed(a)
  BY <1>3 DEF Failed
<1>5. Scanned(dt, skip \cup Failed(r)) = q
  BY <1>4 DEF q
<1>6. q.mem = r.mem /\ q.written = r.written /\ q.faults = {} /\ Failed(r) \cap skip = {}
  BY <1>1, <1>3, <1>4
<1> QED BY <1>5, <1>6, Zenon DEF r

(* The scan is the one without the programs that failed in it.             *)
LEMMA ScanLeavesNoTrace ==
  ASSUME ForcesInv, NEW dt, Scan(dt)
  PROVE  NoTrace
<1> DEFINE r == Scanned(dt, Skipped)
           q == Scanned(dt, Skipped \cup Failed(r))
<1>1. /\ mem' = r.mem /\ halted' = halted \cup {f[1] : f \in r.faults}
      /\ result'.faults = r.faults /\ result'.written = r.written
  BY DEF Scan, Finish
<1>2. q.mem = r.mem /\ q.written = r.written /\ q.faults = {} /\ Failed(r) \cap Skipped = {}
  BY ScanWithoutFailed, Zenon
<1>3. r.mem.sys = SysImage(abort, dt, scans = 0, time)
  BY ScanHoldsForces, Zenon
<1> HIDE DEF r
<1>4. mem'.sys.SYS_SCAN_TIME = dt
  BY <1>1, <1>3 DEF SysImage
<1>5. {f[1] : f \in result'.faults} = Failed(r)
  BY <1>1 DEF Failed
<1>6. Scanned(mem'.sys.SYS_SCAN_TIME, Skipped \cup {f[1] : f \in result'.faults}) = q
  BY <1>4, <1>5
<1> HIDE DEF q
<1>7. Failed(r) \cap halted = {} /\ Failed(r) \subseteq halted'
  BY <1>1, <1>2 DEF Skipped, Failed
<1> QED BY <1>1, <1>2, <1>5, <1>6, <1>7, Zenon DEF NoTrace, IsScanWithout

(* Only a scan counts a scan.                                              *)
LEMMA OnlyScansCount ==
  ASSUME scans \in Nat, Next
  PROVE  scans' \in Nat /\ (scans' = scans + 1 => \E dt : Scan(dt))
<1>1. CASE scans' = scans
  BY <1>1
<1>2. CASE scans' = 0
  BY <1>2
<1>3. ASSUME NEW dt, Scan(dt) PROVE scans' \in Nat /\ \E d : Scan(d)
  <2>1. scans' = scans + 1
    BY <1>3 DEF Scan
  <2> QED BY <1>3, <2>1
<1>4. \/ scans' = scans \/ scans' = 0 \/ \E dt : Scan(dt)
  BY Zenon DEF Next, WriteInputs, WriteGlobals, ForceValue, UnforceValue, SetProgramEnabled,
               ClearFaults, SetAbort, Reset
<1> QED BY <1>1, <1>2, <1>3, <1>4

(* A program that faults leaves no trace: memory, written outputs and the  *)
(* other programs are those of the scan without it (scan, _snapshot,       *)
(* _restore).                                                              *)
THEOREM FaultsVanish == HSpec => FaultsLeaveNoTrace
<1> DEFINE Inv == ForcesInv /\ scans \in Nat
<1>1. HInit => Inv
  <2> SUFFICES ASSUME HInit PROVE Inv
    OBVIOUS
  <2>1. Init
    BY DEF HInit
  <2>2. scans \in Nat
    BY <2>1 DEF Init
  <2> QED BY <2>1, <2>2, InitForces
<1>2. Inv /\ [HNext]_<<vars, seen>> => Inv'
  <2> SUFFICES ASSUME Inv, [HNext]_<<vars, seen>> PROVE Inv'
    OBVIOUS
  <2>1. ForcesInv'
    BY NextHoldsForces
  <2>2. scans' \in Nat
    <3>1. CASE Next
      BY <3>1, OnlyScansCount
    <3>2. CASE UNCHANGED vars
      BY <3>2 DEF vars
    <3> QED BY <3>1, <3>2 DEF HNext, vars
  <2> QED BY <2>1, <2>2
<1>3. Inv /\ [HNext]_<<vars, seen>> => [scans' = scans + 1 => NoTrace]_vars
  <2> SUFFICES ASSUME Inv, HNext, scans' = scans + 1 PROVE NoTrace
    BY DEF vars
  <2>1. Next
    BY DEF HNext
  <2>2. PICK dt : Scan(dt)
    BY <2>1, OnlyScansCount
  <2> QED BY <2>2, ScanLeavesNoTrace
<1> QED BY <1>1, <1>2, <1>3, PTL DEF HSpec, FaultsLeaveNoTrace

-----------------------------------------------------------------------------
(* A list of one program, scan by scan.                                    *)

(* The only program of the list is the one the histories are about.        *)
OneLadder == Len(Programs) = 1 /\ Programs[1].name = "ladder"

(* A context in which program p runs.                                      *)
IsContext(c, p) ==
  /\ Over(c, {"store", "dt", "steps", "written"}) /\ c.steps = << >>
  /\ Over(c.store, {"local", "global", "input", "output", "sys"})
  /\ Over(c.store.local, Owned(p, "local")) /\ Over(c.store.input, TagsOf("in"))
  /\ Owned(p, "global") \subseteq DOMAIN c.store.global

(* The only program is the first one.                                      *)
LEMMA LadderIsFirst ==
  ASSUME IsList, OneLadder
  PROVE  /\ 1 \in DOMAIN Programs /\ "ladder" \in Names /\ Named("ladder") = Programs[1]
         /\ Elements(Programs) = {Programs[1]}
<1>1. 1 \in DOMAIN Programs /\ DOMAIN Programs = {1}
  BY DEF IsList, OneLadder
<1>2. Programs[1].name \in Names /\ Named(Programs[1].name) = Programs[1]
  BY <1>1, NamedIsUnique
<1> QED BY <1>1, <1>2 DEF OneLadder, Elements

(* The globals of one program are those it declares.                       *)
LEMMA OneMerged ==
  ASSUME IsList, OneLadder
  PROVE  /\ DOMAIN MergedGlobals(Programs) = Owned(Programs[1], "global")
         /\ \A n \in Owned(Programs[1], "global") : MergedGlobals(Programs)[n] = Programs[1].syms[n]
<1> DEFINE ps == Programs
           by(n)    == {i \in DOMAIN ps : n \in Owned(ps[i], "global")}
           given(n) == {i \in by(n) : ps[i].syms[n].init # NoValue}
           First(I) == CHOOSE i \in I : \A j \in I : i <= j
           m == MergedGlobals(ps)
<1>1. m = [n \in UNION {Owned(p, "global") : p \in Elements(ps)} |->
             ps[First(IF given(n) = {} THEN by(n) ELSE given(n))].syms[n]]
  BY Zenon DEF MergedGlobals
<1>2. DOMAIN ps = {1} /\ Elements(ps) = {ps[1]}
  BY LadderIsFirst DEF OneLadder, IsList
<1> HIDE DEF ps, m
<1>3. UNION {Owned(p, "global") : p \in Elements(ps)} = Owned(ps[1], "global")
  BY <1>2
<1>4. ASSUME NEW n \in Owned(ps[1], "global") PROVE m[n] = ps[1].syms[n]
  <2>1. by(n) = {1} /\ (given(n) = {} \/ given(n) = {1})
    BY <1>2
  <2>2. First({1}) = 1
    <3>1. \A i \in {1} : (\A j \in {1} : i <= j) /\ i = 1
      OBVIOUS
    <3> QED BY <3>1, Zenon
  <2>3. (IF given(n) = {} THEN by(n) ELSE given(n)) = {1}
    BY <2>1, Zenon
  <2>4. m[n] = ps[First(IF given(n) = {} THEN by(n) ELSE given(n))].syms[n]
    BY <1>1, <1>3, Zenon
  <2> QED BY <2>2, <2>3, <2>4, Zenon
<1>5. DOMAIN m = Owned(ps[1], "global")
  BY <1>1, <1>3, Zenon
<1> QED BY <1>4, <1>5, Zenon DEF m, ps

(* Where the forces hold already, to apply them changes nothing.           *)
LEMMA PinnedIsKept ==
  ASSUME IsList, NEW f, IsForces(f), NEW m, IsMem(m), Pinned(f, m)
  PROVE  ApplyForces(f, m) = m
<1> DEFINE w == ApplyForces(f, m)
<1>1. /\ Over(m, Parts) /\ DOMAIN m.input = TagsOf("in") /\ DOMAIN m.output = TagsOf("out")
      /\ DOMAIN m.global = DOMAIN MergedGlobals(Programs) /\ DOMAIN m.local = Names
      /\ Over(m.input, TagsOf("in")) /\ Over(m.output, TagsOf("out"))
      /\ Over(m.global, DOMAIN MergedGlobals(Programs)) /\ Over(m.local, Names)
      /\ \A x \in Names : Over(m.local[x], Owned(Named(x), "local"))
  BY DEF IsMem, Over
<1>2. /\ Over(w, Parts)
      /\ w.input = Pin(f, "input", "", m.input) /\ w.output = Pin(f, "output", "", m.output)
      /\ w.global = Pin(f, "global", "", m.global)
      /\ w.told = m.told /\ w.sys = m.sys
  <2>1. Over(m, Parts)
    BY DEF IsMem
  <2> QED BY <2>1 DEF ApplyForces, Over, Parts
<1>3. w.local = [p \in DOMAIN m.local |-> Pin(f, "local", p, m.local[p])]
  <2>1. Over(m, Parts)
    BY DEF IsMem
  <2> QED BY <2>1 DEF ApplyForces, Over, Parts
<1> HIDE DEF w
<1>4. \A kind \in {"input", "output", "global"} : \A n :
        <<kind, "", n>> \in DOMAIN f => f[<<kind, "", n>>] = m[kind][n]
  <2> SUFFICES ASSUME NEW kind \in {"input", "output", "global"}, NEW n, <<kind, "", n>> \in DOMAIN f
               PROVE  f[<<kind, "", n>>] = m[kind][n]
    OBVIOUS
  <2> DEFINE k == <<kind, "", n>>
  <2>1. k[1] = kind /\ k[3] = n /\ k \in DOMAIN f
    OBVIOUS
  <2> HIDE DEF k
  <2>2. f[k] = CASE k[1] = "local" -> m.local[k[2]][k[3]] [] OTHER -> m[k[1]][k[3]]
    BY <2>1 DEF Pinned
  <2> QED BY <2>1, <2>2 DEF k
<1>5. \A x, n : <<"local", x, n>> \in DOMAIN f => f[<<"local", x, n>>] = m.local[x][n]
  <2> SUFFICES ASSUME NEW x, NEW n, <<"local", x, n>> \in DOMAIN f
               PROVE  f[<<"local", x, n>>] = m.local[x][n]
    OBVIOUS
  <2> DEFINE k == <<"local", x, n>>
  <2>1. k[1] = "local" /\ k[2] = x /\ k[3] = n /\ k \in DOMAIN f
    OBVIOUS
  <2> HIDE DEF k
  <2>2. f[k] = CASE k[1] = "local" -> m.local[k[2]][k[3]] [] OTHER -> m[k[1]][k[3]]
    BY <2>1 DEF Pinned
  <2> QED BY <2>1, <2>2 DEF k
<1>6. Pin(f, "input", "", m.input) = m.input
  BY <1>1, <1>4 DEF Pin, Over
<1>7. Pin(f, "output", "", m.output) = m.output
  BY <1>1, <1>4 DEF Pin, Over
<1>8. Pin(f, "global", "", m.global) = m.global
  BY <1>1, <1>4 DEF Pin, Over
<1>9. \A x \in Names : Pin(f, "local", x, m.local[x]) = m.local[x]
  <2> SUFFICES ASSUME NEW x \in Names PROVE Pin(f, "local", x, m.local[x]) = m.local[x]
    OBVIOUS
  <2> DEFINE D == Owned(Named(x), "local")
             l == m.local[x]
  <2>1. l = [n \in D |-> l[n]] /\ \A n : <<"local", x, n>> \in DOMAIN f => f[<<"local", x, n>>] = l[n]
    BY <1>1, <1>5 DEF Over
  <2> HIDE DEF D, l
  <2>2. Pin(f, "local", x, l) = l
    BY <2>1 DEF Pin
  <2> QED BY <2>2 DEF l
<1>10. [p \in DOMAIN m.local |-> Pin(f, "local", p, m.local[p])] = m.local
  BY <1>1, <1>9 DEF Over
<1>11. w = m
  <2>1. /\ w.input = m.input /\ w.told = m.told /\ w.output = m.output
        /\ w.global = m.global /\ w.sys = m.sys /\ w.local = m.local
    BY <1>2, <1>3, <1>6, <1>7, <1>8, <1>10, Zenon
  <2> QED BY <1>1, <1>2, <2>1 DEF Over, Parts
<1> QED BY <1>11 DEF w

(* What the programs of a scan find is the memory with new system values.  *)
LEMMA EnteredIsMem ==
  ASSUME ForcesInv, NEW dt
  PROVE  /\ Entered(dt).mem = [mem EXCEPT !.sys = SysImage(abort, dt, scans = 0, time)]
         /\ Pinned(forced, Entered(dt).mem) /\ IsAcc(Entered(dt)) /\ Entered(dt).faults = {}
<1> DEFINE s == SysImage(abort, dt, scans = 0, time)
           m == [mem EXCEPT !.sys = s]
<1>1. Over(mem, Parts) /\ Pinned(forced, mem) /\ IsMem(mem) /\ IsList /\ IsForces(forced)
  BY MemParts
<1>2. /\ Over(m, Parts) /\ m.input = mem.input /\ m.told = mem.told /\ m.output = mem.output
      /\ m.global = mem.global /\ m.local = mem.local /\ m.sys = s
  <2> HIDE DEF s
  <2> QED BY <1>1 DEF Over, Parts
<1> HIDE DEF m, s
<1>3. IsMem(m)
  BY <1>1, <1>2 DEF IsMem
<1>4. Pinned(forced, m)
  <2>1. \A n : <<"global", "", n>> \in DOMAIN forced => m.global[n] = forced[<<"global", "", n>>]
    BY <1>2, MemParts
  <2>2. Beside(forced, mem, m)
    BY <1>2, <2>1, Zenon DEF Beside
  <2> QED BY <1>1, <2>2, StillPinned
<1>5. ApplyForces(forced, m) = m
  BY <1>1, <1>3, <1>4, PinnedIsKept
<1>6. Entered(dt) = [mem |-> m, written |-> {}, faults |-> {}]
  BY <1>5 DEF Entered, m, s
<1>7. PassShape(Entered(dt), dt)
  BY EnteredShape
<1> QED BY <1>4, <1>6, <1>7 DEF PassShape, m, s

(* What the only program of a scan runs in.                                *)
LadderContext(dt) == Context(Entered(dt), Programs[1], dt)

(* What the only program finds when the pass enters it.                    *)
LEMMA LadderRunsIn ==
  ASSUME ForcesInv, OneLadder, NEW dt
  PROVE  LET c == LadderContext(dt)
         IN  /\ IsContext(c, Programs[1]) /\ c.dt = dt
             /\ c.store.local = mem.local["ladder"]
             /\ c.store.global = mem.global /\ c.store.input = mem.input
<1> DEFINE p == Programs[1]
           c == LadderContext(dt)
           m == Entered(dt).mem
           lo == m.local["ladder"]
           st == [local |-> lo, global |-> m.global, input |-> m.input, output |-> m.output, sys |-> m.sys]
<1>1. IsList /\ p.name = "ladder" /\ Named("ladder") = p /\ "ladder" \in Names
  BY LadderIsFirst, MemParts DEF OneLadder
<1>2. /\ m.local = mem.local /\ m.global = mem.global /\ m.input = mem.input
  <2> DEFINE y == SysImage(abort, dt, scans = 0, time)
  <2>1. m = [mem EXCEPT !.sys = y] /\ Over(mem, Parts)
    BY EnteredIsMem, MemParts
  <2> HIDE DEF m, y
  <2> QED BY <2>1 DEF Over, Parts
<1>3. c = [store |-> st, dt |-> dt, steps |-> << >>, written |-> Entered(dt).written]
  BY <1>1, Zenon DEF LadderContext, Context
<1>4. /\ Over(mem.local["ladder"], Owned(p, "local")) /\ Over(mem.input, TagsOf("in"))
      /\ DOMAIN mem.global = Owned(p, "global")
  <2>1. Over(mem.local["ladder"], Owned(p, "local"))
    BY <1>1, MemParts DEF IsMem
  <2>2. DOMAIN mem.global = DOMAIN MergedGlobals(Programs)
    BY MemParts DEF Over
  <2> QED BY <1>1, <2>1, <2>2, OneMerged, MemParts
<1> HIDE DEF m, lo, p, c, st
<1>5. Over(st, {"local", "global", "input", "output", "sys"})
      /\ st.local = lo /\ st.global = m.global /\ st.input = m.input
  BY DEF st, Over
<1>6. Over(c, {"store", "dt", "steps", "written"}) /\ c.store = st /\ c.dt = dt /\ c.steps = << >>
  BY <1>3 DEF Over
<1>7. lo = mem.local["ladder"]
  BY <1>2 DEF lo
<1>8. IsContext(c, p)
  BY <1>2, <1>4, <1>5, <1>6, <1>7 DEF IsContext
<1> QED BY <1>2, <1>5, <1>6, <1>7, <1>8 DEF c, p

(* What a scan does to the locals and the globals of its only program.     *)
LEMMA LadderScan ==
  ASSUME ForcesInv, OneLadder, NEW dt, Scan(dt)
  PROVE  LET p == Programs[1]
             r == RunBody(LadderContext(dt), p)
         IN  /\ mem'.sys.SYS_SCAN_TIME = dt /\ mem'.input = mem.input
             /\ Completed => r.sig \in {"go", "return"}
             /\ \A n \in Owned(p, "local") : <<"local", "ladder", n>> \notin DOMAIN forced =>
                  mem'.local["ladder"][n] = IF Completed THEN r.ctx.store.local[n] ELSE mem.local["ladder"][n]
             /\ \A n \in Owned(p, "global") :
                  mem'.global[n] = IF Completed /\ <<"global", "", n>> \notin DOMAIN forced
                                   THEN r.ctx.store.global[n] ELSE mem.global[n]
<1> DEFINE p == Programs[1]
           r == RunBody(LadderContext(dt), p)
           e == Entered(dt)
           a == Passed(dt, Skipped)
           m == e.mem
<1>1. IsList /\ p.name = "ladder" /\ Named("ladder") = p /\ "ladder" \in Names /\ 1 \in DOMAIN Programs
  BY LadderIsFirst, MemParts DEF OneLadder
<1>2. /\ m.local = mem.local /\ m.global = mem.global /\ m.input = mem.input
      /\ Over(m, Parts) /\ m.sys.SYS_SCAN_TIME = dt
  <2> DEFINE y == SysImage(abort, dt, scans = 0, time)
  <2>1. m = [mem EXCEPT !.sys = y] /\ Over(mem, Parts)
    BY EnteredIsMem, MemParts
  <2>2. y.SYS_SCAN_TIME = dt
    BY DEF SysImage
  <2> HIDE DEF m, y
  <2> QED BY <2>1, <2>2 DEF Over, Parts
<1>3. IsAcc(e) /\ IsMem(m) /\ Pinned(forced, m) /\ e.faults = {} /\ IsForces(forced)
  BY EnteredIsMem, MemParts DEF IsAcc
<1>4. a = NextProgram(e, p, dt, Skipped)
  <2>1. PICK f : /\ f[0] = Entered(dt)
                 /\ \A n \in 0 .. Len(Programs) - 1 : f[n + 1] = NextProgram(f[n], Programs[n + 1], dt, Skipped)
                 /\ Passed(dt, Skipped) = f[Len(Programs)]
    BY <1>1, PassedIsPass
  <2>2. Len(Programs) = 1 /\ 0 \in 0 .. 0 /\ 1 - 1 = 0 /\ 0 + 1 = 1
    BY DEF OneLadder
  <2>3. f[1] = NextProgram(f[0], Programs[1], dt, Skipped)
    BY <2>1, <2>2
  <2> QED BY <2>1, <2>2, <2>3
<1>5. mem' = ApplyForces(forced, a.mem) /\ result'.faults = a.faults
  <2> DEFINE q == Scanned(dt, Skipped)
  <2>1. mem' = q.mem /\ result'.faults = q.faults
    BY DEF Scan, Finish
  <2>2. q = [a EXCEPT !.mem = ApplyForces(forced, @)]
    BY Zenon DEF Scanned, Forced
  <2>3. Over(a, {"mem", "written", "faults"})
    BY PassWithoutFailed, Zenon DEF IsAcc
  <2> HIDE DEF q, a
  <2> QED BY <2>1, <2>2, <2>3 DEF Over
<1>6. Completed <=> "ladder" \notin Skipped /\ "ladder" \notin Failed(a)
  BY <1>5 DEF Completed, Failed
<1>7. ASSUME ~Completed PROVE mem' = m
  <2>1. a.mem = m
    <3>1. CASE "ladder" \in Skipped
      BY <1>1, <1>4, <3>1 DEF NextProgram
    <3>2. CASE "ladder" \notin Skipped
      <4>1. a = RunProgram(e, p, dt)
        BY <1>1, <1>4, <3>2 DEF NextProgram
      <4>2. CASE Fails(e, 1, dt)
        BY <1>1, <1>3, <4>1, <4>2, ProgramKeepsShape
      <4>3. CASE ~Fails(e, 1, dt)
        <5>1. a.faults = {}
          BY <1>1, <1>3, <4>1, <4>3, ProgramKeepsShape
        <5> QED BY <1>6, <1>7, <3>2, <5>1 DEF Failed
      <4> QED BY <4>2, <4>3
    <3> QED BY <3>1, <3>2
  <2> HIDE DEF m, a
  <2> QED BY <1>1, <1>3, <1>5, <2>1, PinnedIsKept
<1>8. ASSUME Completed
      PROVE  /\ r.sig \in {"go", "return"} /\ IsMem(a.mem)
             /\ a.mem.local["ladder"] = Kept(m.local["ladder"], Owned(p, "local"), r.ctx.store.local)
             /\ a.mem.global = Kept(m.global, Owned(p, "global"), r.ctx.store.global)
             /\ a.mem.input = m.input /\ a.mem.sys = m.sys
  <2>1. a = RunProgram(e, p, dt)
    BY <1>1, <1>4, <1>6, <1>8 DEF NextProgram
  <2>2. ~Fails(e, 1, dt)
    <3>1. SUFFICES ASSUME Fails(e, 1, dt) PROVE FALSE
      OBVIOUS
    <3>2. a.faults = e.faults \cup {<<p.name, Body(e, 1, dt).sig>>}
      BY <1>1, <1>3, <2>1, <3>1, ProgramKeepsShape
    <3> DEFINE x == <<p.name, Body(e, 1, dt).sig>>
    <3>3. x \in a.faults /\ x[1] = "ladder"
      BY <1>1, <3>2
    <3> HIDE DEF x
    <3> QED BY <1>6, <1>8, <3>3 DEF Failed
  <2>3. r = Body(e, 1, dt) /\ r.sig \in {"go", "return"}
    BY <2>2, Zenon DEF Fails, Body, LadderContext
  <2>4. /\ IsMem(a.mem) /\ a.mem.input = m.input /\ a.mem.sys = m.sys
    BY <1>1, <1>3, <2>1, ProgramKeepsShape DEF IsAcc
  <2> DEFINE lo == Kept(m.local["ladder"], DOMAIN m.local["ladder"], r.ctx.store.local)
             gl == Kept(m.global, Owned(p, "global"), r.ctx.store.global)
             ou == Kept(m.output, DOMAIN m.output, r.ctx.store.output)
             w == [m EXCEPT !.local["ladder"] = lo, !.global = gl, !.output = ou]
  <2>5. a = [e EXCEPT !.mem = w, !.written = r.ctx.written]
    <3>1. a = Leave(e, p, r)
      BY <2>1, <2>3, Zenon DEF RunProgram, Body
    <3> HIDE DEF a, e, p, r
    <3> QED BY <1>1, <2>3, <3>1, Zenon DEF Leave, p
  <2>6. a.mem = w
    <3> HIDE DEF w, a, e, r
    <3> QED BY <1>3, <2>5 DEF IsAcc, Over
  <2>7. DOMAIN m.local["ladder"] = Owned(p, "local") /\ DOMAIN m.local = Names
    BY <1>1, <1>3 DEF IsMem, Over
  <2>8. w.local["ladder"] = lo /\ w.global = gl
    <3> HIDE DEF lo, gl, ou, m
    <3> QED BY <1>1, <1>2, <2>7 DEF Over, Parts
  <2> HIDE DEF w, a, m, p, r
  <2> QED BY <2>3, <2>4, <2>6, <2>7, <2>8, Zenon
<1> HIDE DEF m, a, e, p, r
<1>9. CASE ~Completed
  BY <1>2, <1>7, <1>9 DEF p, r
<1>10. CASE Completed
  <2>1. IsMem(a.mem) /\ a.mem.input = m.input /\ a.mem.sys = m.sys
    BY <1>8, <1>10
  <2>2. /\ Over(a.mem, Parts) /\ DOMAIN a.mem.local = Names
        /\ DOMAIN a.mem.local["ladder"] = Owned(p, "local") /\ DOMAIN m.local["ladder"] = Owned(p, "local")
        /\ DOMAIN a.mem.global = Owned(p, "global") /\ DOMAIN m.global = Owned(p, "global")
    <3>1. DOMAIN MergedGlobals(Programs) = Owned(p, "global")
      BY <1>1, OneMerged DEF p
    <3> QED BY <1>1, <1>3, <2>1, <3>1 DEF IsMem, Over
  <2>3. /\ mem'.input = Pin(forced, "input", "", m.input)
        /\ mem'.global = Pin(forced, "global", "", a.mem.global)
        /\ mem'.sys = m.sys
    <3> DEFINE b == a.mem
    <3>1. mem' = ApplyForces(forced, b) /\ Over(b, Parts) /\ b.input = m.input /\ b.sys = m.sys
      BY <1>5, <2>1, <2>2
    <3> HIDE DEF b
    <3>2. /\ mem'.input = Pin(forced, "input", "", b.input) /\ mem'.global = Pin(forced, "global", "", b.global)
          /\ mem'.sys = b.sys
      BY <3>1 DEF ApplyForces, Over, Parts
    <3> QED BY <3>1, <3>2 DEF b
  <2>4. mem'.local["ladder"] = Pin(forced, "local", "ladder", a.mem.local["ladder"])
    <3> DEFINE b == a.mem
    <3>1. mem' = ApplyForces(forced, b) /\ Over(b, Parts) /\ DOMAIN b.local = Names
      BY <1>5, <2>2
    <3> HIDE DEF b
    <3>2. mem'.local = [x \in DOMAIN b.local |-> Pin(forced, "local", x, b.local[x])]
      BY <3>1 DEF ApplyForces, Over, Parts
    <3> QED BY <1>1, <3>1, <3>2 DEF b
  <2>5. mem'.input = mem.input
    <3>1. ApplyForces(forced, m) = m
      BY <1>1, <1>3, PinnedIsKept
    <3>2. ApplyForces(forced, m).input = Pin(forced, "input", "", m.input)
      BY <1>2 DEF ApplyForces, Over, Parts
    <3> QED BY <1>2, <2>3, <3>1, <3>2
  <2>6. ASSUME NEW n \in Owned(p, "local"), <<"local", "ladder", n>> \notin DOMAIN forced
        PROVE  mem'.local["ladder"][n] = r.ctx.store.local[n]
    <3>1. a.mem.local["ladder"][n] = r.ctx.store.local[n]
      BY <1>8, <1>10, <2>2 DEF Kept
    <3> QED BY <2>2, <2>4, <2>6, <3>1 DEF Pin
  <2>7. ASSUME NEW n \in Owned(p, "global")
        PROVE  mem'.global[n] = IF <<"global", "", n>> \notin DOMAIN forced
                                THEN r.ctx.store.global[n] ELSE mem.global[n]
    <3>1. a.mem.global[n] = r.ctx.store.global[n]
      BY <1>8, <1>10, <2>2 DEF Kept
    <3>2. mem'.global[n] = IF <<"global", "", n>> \notin DOMAIN forced
                           THEN a.mem.global[n] ELSE forced[<<"global", "", n>>]
      BY <2>2, <2>3 DEF Pin
    <3>3. <<"global", "", n>> \in DOMAIN forced => mem.global[n] = forced[<<"global", "", n>>]
      BY MemParts
    <3> QED BY <3>1, <3>2, <3>3
  <2> QED BY <1>2, <1>8, <1>10, <2>3, <2>5, <2>6, <2>7 DEF p, r
<1> QED BY <1>9, <1>10

-----------------------------------------------------------------------------
(* The timers.                                                             *)

(* Times are whole numbers of a unit, which may be as short as one likes.  *)
Time(n) == RealV(n, 1)

(* Whole delays compare and add as the integers they are.                  *)
LEMMA WholeTimes ==
  ASSUME NEW p \in Int, NEW q \in Int
  PROVE  /\ Less(Time(p), Time(q)) <=> p < q
         /\ Kernel("add", Time(p), Time(q)) = Time(p + q)
         /\ Float(Time(p)) = Time(p)
         /\ Time(p).n = p
<1>1. p * 1 = p /\ q * 1 = q
  OBVIOUS
<1>2. Less(Time(p), Time(q)) <=> p < q
  BY <1>1 DEF Less, Time, RealV
<1>3. Kernel("add", Time(p), Time(q)) = Number(Time(p), Time(q), p * 1 + q * 1, 1 * 1)
  BY DEF Kernel, Time, RealV
<1>4. Number(Time(p), Time(q), p + q, 1) = Time(p + q)
  BY DEF Number, Time, RealV
<1> QED BY <1>1, <1>2, <1>3, <1>4 DEF Float, Time, RealV

(* A boolean is its truth.                                                 *)
LEMMA TruthOfBool ==
  ASSUME NEW b \in BOOLEAN
  PROVE  Truth(BoolV(b)) = b
BY DEF Truth, BoolV

TimerParts == {"fb", "IN", "PT", "Q", "ET", "prev", "up", "down", "running"}

(* A timer b with time e run and delay p.                                  *)
Timing(b, e, p) ==
  /\ Over(b, TimerParts)
  /\ e \in Nat /\ b.ET = Time(e)
  /\ p \in Int /\ b.PT = Time(p)

(* The time run after dt more, of a timer with delay p.                    *)
After(e, p, dt) == IF e >= p THEN e ELSE IF e + dt < p THEN e + dt ELSE p

(* A running timer in whole delays.                                        *)
LEMMA AdvanceWhole ==
  ASSUME NEW b, NEW e, NEW p, Timing(b, e, p), NEW dt \in Nat
  PROVE  /\ Advance(b, Time(dt)) = [b EXCEPT !.ET = Time(After(e, p, dt))]
         /\ After(e, p, dt) \in Nat
         /\ Elapsed(b) <=> e >= p
         /\ NoDelay(b) <=> p <= 0
<1>0. e \in Nat /\ p \in Int /\ b.ET = Time(e) /\ b.PT = Time(p)
  BY DEF Timing
<1>1. e \in Int /\ p \in Int /\ dt \in Int /\ e + dt \in Int
  BY <1>0
<1>2. Elapsed(b) <=> e >= p
  <2>1. Less(Time(e), Time(p)) <=> e < p
    BY <1>1, WholeTimes
  <2> QED BY <1>0, <2>1 DEF Elapsed
<1>3. NoDelay(b) <=> p <= 0
  <2>1. Time(p).n = p
    BY <1>1, WholeTimes
  <2> QED BY <1>0, <2>1 DEF NoDelay
<1>4. Kernel("add", b.ET, Time(dt)) = Time(e + dt) /\ Float(b.PT) = Time(p)
  <2>1. Kernel("add", Time(e), Time(dt)) = Time(e + dt) /\ Float(Time(p)) = Time(p)
    BY <1>1, WholeTimes
  <2> QED BY <1>0, <2>1
<1>5. Less(Time(e + dt), b.PT) <=> e + dt < p
  <2>1. Less(Time(e + dt), Time(p)) <=> e + dt < p
    BY <1>1, WholeTimes
  <2> QED BY <1>0, <2>1
<1>6. Advance(b, Time(dt)) = IF Elapsed(b) THEN b
        ELSE [b EXCEPT !.ET = IF Less(Time(e + dt), b.PT) THEN Time(e + dt) ELSE Time(p)]
  BY <1>4, Zenon DEF Advance
<1>7. CASE e >= p
  <2>1. Advance(b, Time(dt)) = b /\ After(e, p, dt) = e
    BY <1>2, <1>6, <1>7, Zenon DEF After
  <2>2. b = [b EXCEPT !.ET = Time(e)]
    BY <1>0 DEF Timing, Over
  <2> QED BY <1>0, <1>2, <1>3, <2>1, <2>2
<1>8. CASE ~(e >= p)
  <2>1. Advance(b, Time(dt)) = [b EXCEPT !.ET = IF e + dt < p THEN Time(e + dt) ELSE Time(p)]
    BY <1>2, <1>5, <1>6, <1>8, Zenon
  <2>2. (IF e + dt < p THEN Time(e + dt) ELSE Time(p)) = Time(After(e, p, dt))
    BY <1>8, Zenon DEF After
  <2>3. After(e, p, dt) \in Nat
    BY <1>0, <1>8 DEF After
  <2> QED BY <1>2, <1>3, <2>1, <2>2, <2>3
<1> QED BY <1>7, <1>8

(* A timer with its inputs set, as a program calls it.                     *)
Set(b, in, p) == [b EXCEPT !.IN = BoolV(in), !.PT = Time(p)]

IsTimer(b) ==
  /\ Over(b, TimerParts)
  /\ b.prev \in BOOLEAN /\ b.running \in BOOLEAN
  /\ b.Q \in {BoolV(TRUE), BoolV(FALSE)}
  /\ b.ET.n \in Nat /\ b.ET = Time(b.ET.n)

(* What a timer and its delay are once its inputs are set.                 *)
LEMMA SetTimer ==
  ASSUME NEW b, IsTimer(b), NEW in \in BOOLEAN, NEW p \in Int
  PROVE  LET s == Set(b, in, p)
         IN  /\ Timing(s, b.ET.n, p)
             /\ Truth(s.IN) = in /\ s.Q = b.Q /\ s.prev = b.prev /\ s.running = b.running
<1> DEFINE s == Set(b, in, p)
           v == BoolV(in)
           d == Time(p)
<1>1. s = [b EXCEPT !.IN = v, !.PT = d] /\ Over(b, TimerParts)
  BY DEF Set, IsTimer
<1> HIDE DEF s, v, d
<1>2. /\ Over(s, TimerParts) /\ s.IN = v /\ s.PT = d /\ s.ET = b.ET
      /\ s.Q = b.Q /\ s.prev = b.prev /\ s.running = b.running
  BY <1>1 DEF Over, TimerParts
<1>3. Truth(v) = in
  BY TruthOfBool DEF v
<1> QED BY <1>2, <1>3 DEF Timing, IsTimer, s, d

(* A timer put together: time, output and memory.                          *)
Timed(b, e, q, r, in) == [b EXCEPT !.ET = Time(e), !.Q = BoolV(q), !.running = r, !.prev = in]

(* The parts of a timer.                                                   *)
LEMMA TimedTimer ==
  ASSUME NEW b, Over(b, TimerParts), NEW e \in Nat, NEW q \in BOOLEAN, NEW r \in BOOLEAN, NEW in \in BOOLEAN
  PROVE  LET c == Timed(b, e, q, r, in)
         IN  IsTimer(c) /\ c.ET.n = e /\ Truth(c.Q) = q /\ c.running = r /\ c.prev = in
<1> DEFINE c == Timed(b, e, q, r, in)
           t == Time(e)
           v == BoolV(q)
<1>1. c = [b EXCEPT !.ET = t, !.Q = v, !.running = r, !.prev = in]
  BY DEF Timed
<1>2. t.n = e /\ t = Time(e) /\ Truth(v) = q
  BY TruthOfBool, WholeTimes
<1>3. v \in {BoolV(TRUE), BoolV(FALSE)}
  OBVIOUS
<1> HIDE DEF c, t, v
<1>4. Over(c, TimerParts) /\ c.ET = t /\ c.Q = v /\ c.running = r /\ c.prev = in
  BY <1>1 DEF Over, TimerParts
<1> QED BY <1>2, <1>3, <1>4 DEF IsTimer, c

(* What one call of an on-delay does.                                      *)
LEMMA OnDelayWhole ==
  ASSUME NEW b, IsTimer(b), NEW in \in BOOLEAN, NEW p \in Int, NEW dt \in Nat
  PROVE  LET x == IF in /\ b.prev THEN After(b.ET.n, p, dt) ELSE 0
             c == OnDelay(Set(b, in, p), Time(dt))
         IN  IsTimer(c) /\ c.ET.n = x /\ c.prev = in /\ Truth(c.Q) = (in /\ x >= p)
<1> DEFINE e == b.ET.n
           x == IF in /\ b.prev THEN After(e, p, dt) ELSE 0
           s == Set(b, in, p)
           t == IF Truth(s.IN) /\ s.prev THEN Advance(s, Time(dt)) ELSE ResetEt(s)
           c == OnDelay(s, Time(dt))
<1>1. Timing(s, e, p) /\ Truth(s.IN) = in /\ s.prev = b.prev /\ s.running = b.running
  BY SetTimer
<1>2. b.running \in BOOLEAN /\ b.prev \in BOOLEAN
  BY DEF IsTimer
<1> HIDE DEF s, e
<1>3. /\ Advance(s, Time(dt)) = [s EXCEPT !.ET = Time(After(e, p, dt))]
      /\ After(e, p, dt) \in Nat
  BY <1>1, AdvanceWhole
<1>4. t = [s EXCEPT !.ET = Time(x)] /\ x \in Nat
  <2>1. CASE in /\ b.prev
    BY <1>1, <1>3, <2>1, Zenon
  <2>2. CASE ~(in /\ b.prev)
    <3>1. t = ResetEt(s) /\ x = 0
      BY <1>1, <2>2, Zenon
    <3> QED BY <3>1 DEF ResetEt, Time
  <2> QED BY <2>1, <2>2
<1>5. c = [t EXCEPT !.Q = BoolV(in /\ Elapsed(t)), !.prev = in]
  BY <1>1, Zenon DEF OnDelay
<1> HIDE DEF t, x, c
<1>6. Timing(t, x, p) /\ t.running = b.running
  BY <1>1, <1>4 DEF Timing, Over, TimerParts
<1>7. Elapsed(t) <=> x >= p
  BY <1>6, AdvanceWhole
<1>8. c = Timed(t, x, in /\ x >= p, b.running, in)
  <2> DEFINE v == BoolV(in /\ x >= p)
             y == Time(x)
  <2>1. c = [t EXCEPT !.Q = v, !.prev = in]
    BY <1>5, <1>7
  <2>2. t.ET = y /\ Over(t, TimerParts)
    BY <1>6 DEF Timing
  <2> HIDE DEF v, y
  <2>3. c = [t EXCEPT !.ET = y, !.Q = v, !.running = b.running, !.prev = in]
    BY <1>6, <2>1, <2>2 DEF Over, TimerParts
  <2> QED BY <2>3 DEF Timed, v, y
<1>9. IsTimer(c) /\ c.ET.n = x /\ Truth(c.Q) = (in /\ x >= p) /\ c.prev = in
  <2> DEFINE q == in /\ x >= p
  <2>1. Over(t, TimerParts) /\ x \in Nat /\ q \in BOOLEAN /\ c = Timed(t, x, q, b.running, in)
    BY <1>4, <1>6, <1>8 DEF Timing
  <2> HIDE DEF q
  <2>2. IsTimer(c) /\ c.ET.n = x /\ Truth(c.Q) = q /\ c.prev = in
    BY <1>2, <2>1, TimedTimer
  <2> QED BY <2>2 DEF q
<1> QED BY <1>9 DEF c, x, e, s

(* What one call of an off-delay does.                                     *)
LEMMA OffDelayWhole ==
  ASSUME NEW b, IsTimer(b), NEW in \in BOOLEAN, NEW p \in Int, NEW dt \in Nat
  PROVE  LET e == b.ET.n
             on == Truth(b.Q)
             x == IF in \/ b.prev THEN 0 ELSE IF on THEN After(e, p, dt) ELSE e
             c == OffDelay(Set(b, in, p), Time(dt))
         IN  /\ IsTimer(c) /\ c.ET.n = x /\ c.prev = in
             /\ Truth(c.Q) = (in \/ (on /\ IF b.prev THEN p > 0 ELSE ~(x >= p)))
<1> DEFINE e == b.ET.n
           on == Truth(b.Q)
           y == After(e, p, dt)
           x == IF in \/ b.prev THEN 0 ELSE IF on THEN y ELSE e
           q == in \/ (on /\ IF b.prev THEN p > 0 ELSE ~(x >= p))
           s == Set(b, in, p)
           z == ResetEt(s)
           a == Advance(s, Time(dt))
           c == OffDelay(s, Time(dt))
<1>1. /\ Timing(s, e, p) /\ Truth(s.IN) = in
      /\ s.Q = b.Q /\ s.prev = b.prev /\ s.running = b.running
  BY SetTimer
<1>2. b.running \in BOOLEAN /\ b.prev \in BOOLEAN /\ on \in BOOLEAN /\ e \in Nat /\ b.Q = BoolV(on)
  BY TruthOfBool DEF IsTimer
<1>3. Over(s, TimerParts) /\ s.ET = Time(e)
  BY <1>1 DEF Timing
<1> HIDE DEF s, e, on
<1>4. a = [s EXCEPT !.ET = Time(y)] /\ y \in Nat /\ (NoDelay(s) <=> p <= 0)
  BY <1>1, AdvanceWhole
<1>5. Elapsed(a) <=> y >= p
  <2> HIDE DEF y, a
  <2>1. Timing(a, y, p)
    BY <1>1, <1>4 DEF Timing, Over, TimerParts
  <2> QED BY <2>1, AdvanceWhole
<1>6. z = [s EXCEPT !.ET = Time(0)]
  BY DEF ResetEt, Time
<1>7. x \in Nat /\ q \in BOOLEAN
  BY <1>2, <1>4
<1> HIDE DEF a, z, x, y, q
<1>8. c = Timed(s, x, q, b.running, in)
  <2> DEFINE t(v, w) == [[s EXCEPT !.ET = v, !.Q = w] EXCEPT !.prev = in]
  <2>1. c = t(Time(x), BoolV(q))
    <3>1. CASE in
      <4>1. c = [[z EXCEPT !.Q = BoolV(TRUE)] EXCEPT !.prev = in]
        BY <1>1, <3>1, Zenon DEF OffDelay, z
      <4>2. x = 0 /\ q = TRUE
        BY <3>1, Zenon DEF x, q
      <4> QED BY <1>3, <1>6, <4>1, <4>2 DEF Over, TimerParts
    <3>2. CASE ~in /\ b.prev
      <4>1. c = [[z EXCEPT !.Q = BoolV(on /\ ~(p <= 0))] EXCEPT !.prev = in]
        BY <1>1, <1>4, <3>2, Zenon DEF OffDelay, on, z
      <4>2. x = 0 /\ q = (on /\ ~(p <= 0))
        BY <3>2 DEF x, q
      <4>3. c = [[z EXCEPT !.Q = BoolV(q)] EXCEPT !.prev = in]
        BY <4>1, <4>2, Zenon
      <4> QED BY <1>3, <1>6, <4>2, <4>3 DEF Over, TimerParts
    <3>3. CASE ~in /\ ~b.prev /\ on
      <4>1. c = [[a EXCEPT !.Q = BoolV(~(y >= p))] EXCEPT !.prev = in]
        BY <1>1, <1>5, <3>3, Zenon DEF OffDelay, on, a
      <4>2. x = y
        BY <3>3, Zenon DEF x
      <4>3. q = ~(y >= p)
        BY <3>3, <4>2, Zenon DEF q
      <4>4. c = [[a EXCEPT !.Q = BoolV(q)] EXCEPT !.prev = in]
        BY <4>1, <4>3, Zenon
      <4> QED BY <1>3, <1>4, <4>2, <4>4 DEF Over, TimerParts
    <3>4. CASE ~in /\ ~b.prev /\ ~on
      <4>1. c = [s EXCEPT !.prev = in]
        BY <1>1, <3>4, Zenon DEF OffDelay, on
      <4>2. x = e /\ q = FALSE
        BY <3>4, Zenon DEF x, q
      <4>3. s.ET = Time(x) /\ s.Q = BoolV(q)
        BY <1>1, <1>2, <1>3, <3>4, <4>2
      <4> QED BY <1>3, <4>1, <4>3 DEF Over, TimerParts
    <3> QED BY <3>1, <3>2, <3>3, <3>4, <1>2
  <2> DEFINE v == Time(x)
             w == BoolV(q)
  <2>2. c = t(v, w)
    BY <2>1
  <2> HIDE DEF v, w
  <2>3. c = [s EXCEPT !.ET = v, !.Q = w, !.running = b.running, !.prev = in]
    BY <1>1, <1>3, <2>2 DEF Over, TimerParts
  <2> QED BY <2>3 DEF Timed, v, w
<1>9. IsTimer(c) /\ c.ET.n = x /\ Truth(c.Q) = q /\ c.prev = in
  BY <1>2, <1>3, <1>7, <1>8, TimedTimer
<1> QED BY <1>9 DEF c, x, e, s, q, y, on

(* What one call of a pulse timer does, whose output is on while it runs.  *)
LEMMA PulseWhole ==
  ASSUME NEW b, IsTimer(b), Truth(b.Q) = b.running,
         NEW in \in BOOLEAN, NEW p \in Int, NEW dt \in Nat
  PROVE  LET e == b.ET.n
             starts == in /\ ~b.prev
             x == IF b.running THEN After(e, p, dt) ELSE IF starts \/ ~in THEN 0 ELSE e
             c == Pulse(Set(b, in, p), Time(dt))
         IN  /\ IsTimer(c) /\ c.ET.n = x /\ c.prev = in
             /\ c.running = (IF b.running THEN ~(x >= p) ELSE starts /\ p > 0)
             /\ Truth(c.Q) = c.running
<1> DEFINE e == b.ET.n
           on == b.running
           starts == in /\ ~b.prev
           y == After(e, p, dt)
           x == IF on THEN y ELSE IF starts \/ ~in THEN 0 ELSE e
           r == IF on THEN ~(x >= p) ELSE starts /\ p > 0
           s == Set(b, in, p)
           z == ResetEt(s)
           a == Advance(s, Time(dt))
           c == Pulse(s, Time(dt))
<1>1. /\ Timing(s, e, p) /\ Truth(s.IN) = in
      /\ s.Q = b.Q /\ s.prev = b.prev /\ s.running = on
  BY SetTimer
<1>2. on \in BOOLEAN /\ b.prev \in BOOLEAN /\ e \in Nat /\ b.Q = BoolV(on)
  BY TruthOfBool DEF IsTimer
<1>3. Over(s, TimerParts) /\ s.ET = Time(e)
  BY <1>1 DEF Timing
<1> HIDE DEF s, e, on
<1>4. a = [s EXCEPT !.ET = Time(y)] /\ y \in Nat /\ (NoDelay(s) <=> p <= 0)
  BY <1>1, AdvanceWhole
<1>5. Elapsed(a) <=> y >= p
  <2> HIDE DEF y, a
  <2>1. Timing(a, y, p)
    BY <1>1, <1>4 DEF Timing, Over, TimerParts
  <2> QED BY <2>1, AdvanceWhole
<1>6. z = [s EXCEPT !.ET = Time(0)]
  BY DEF ResetEt, Time
<1>7. x \in Nat /\ r \in BOOLEAN /\ Truth(s.Q) = on
  BY <1>1, <1>2, <1>4, TruthOfBool
<1> HIDE DEF a, z, x, y, r
<1>8. c = Timed(s, x, r, r, in)
  <2> DEFINE t(v, w) == [[s EXCEPT !.ET = v, !.Q = w, !.running = r] EXCEPT !.prev = in]
             v == Time(x)
             w == BoolV(r)
  <2>1. c = t(v, w)
    <3>1. CASE on
      <4>1. c = [[a EXCEPT !.running = ~(y >= p), !.Q = BoolV(~(y >= p))] EXCEPT !.prev = in]
        BY <1>1, <1>5, <1>7, <3>1, Zenon DEF Pulse, a
      <4>2. x = y
        BY <3>1, Zenon DEF x
      <4>3. r = ~(y >= p)
        BY <3>1, <4>2, Zenon DEF r
      <4>4. c = [[a EXCEPT !.running = r, !.Q = w] EXCEPT !.prev = in] /\ a = [s EXCEPT !.ET = v]
        BY <1>4, <4>1, <4>2, <4>3, Zenon
      <4> HIDE DEF v, w
      <4> QED BY <1>3, <4>4 DEF Over, TimerParts
    <3>2. CASE ~on /\ starts
      <4>1. c = [[z EXCEPT !.running = ~(p <= 0), !.Q = BoolV(~(p <= 0))] EXCEPT !.prev = in]
        BY <1>1, <1>4, <3>2, Zenon DEF Pulse, z
      <4>2. x = 0
        BY <3>2, Zenon DEF x
      <4>3. r = ~(p <= 0)
        BY <3>2 DEF r
      <4>4. c = [[z EXCEPT !.running = r, !.Q = w] EXCEPT !.prev = in] /\ z = [s EXCEPT !.ET = v]
        BY <1>6, <4>1, <4>2, <4>3, Zenon
      <4> HIDE DEF v, w
      <4> QED BY <1>3, <4>4 DEF Over, TimerParts
    <3>3. CASE ~on /\ ~starts
      <4>1. r = FALSE
        BY <3>3, Zenon DEF r
      <4>2. s.running = r /\ s.Q = w
        BY <1>1, <1>2, <3>3, <4>1
      <4>3. CASE ~in
        <5>1. c = [z EXCEPT !.prev = in] /\ x = 0
          BY <1>1, <3>3, <4>3, Zenon DEF Pulse, z, x
        <5>2. c = [z EXCEPT !.prev = in] /\ z = [s EXCEPT !.ET = v]
          BY <1>6, <5>1, Zenon
        <5> HIDE DEF v, w
        <5> QED BY <1>3, <4>2, <5>2 DEF Over, TimerParts
      <4>4. CASE in
        <5>1. c = [s EXCEPT !.prev = in] /\ x = e
          BY <1>1, <3>3, <4>4, Zenon DEF Pulse, x
        <5>2. s.ET = v
          BY <1>3, <5>1
        <5> HIDE DEF v, w
        <5> QED BY <1>3, <4>2, <5>1, <5>2 DEF Over, TimerParts
      <4> QED BY <4>3, <4>4
    <3> QED BY <3>1, <3>2, <3>3
  <2> HIDE DEF v, w
  <2>2. c = [s EXCEPT !.ET = v, !.Q = w, !.running = r, !.prev = in]
    BY <1>1, <1>3, <2>1 DEF Over, TimerParts
  <2> QED BY <2>2 DEF Timed, v, w
<1>9. IsTimer(c) /\ c.ET.n = x /\ Truth(c.Q) = r /\ c.running = r /\ c.prev = in
  BY <1>3, <1>7, <1>8, TimedTimer
<1> QED BY <1>9 DEF c, x, e, s, r, y, on

-----------------------------------------------------------------------------
(* The clocks that the inputs call for, and the timers beside them.        *)

ClockParts ==
  {"was", "on", "off", "pulse", "offDone", "pulseDone", "pt", "late", "rises", "falls", "counted"}
Clock == Nat \cup {NotRunning}

AreClocks(s) ==
  /\ Over(s, ClockParts)
  /\ s.was \in BOOLEAN /\ s.offDone \in BOOLEAN /\ s.pulseDone \in BOOLEAN /\ s.late \in BOOLEAN
  /\ s.on \in Clock /\ s.off \in Clock /\ s.pulse \in Clock /\ s.pt \in Int

(* An on-delay stops at its delay; it may stand at an earlier one.         *)
OnTells(s, b) ==
  /\ IsTimer(b) /\ b.prev = s.was /\ (s.on = NotRunning <=> ~s.was)
  /\ b.ET.n <= (IF s.on = NotRunning THEN 0 ELSE s.on)
  /\ s.on # NotRunning /\ ~s.late => b.ET.n = s.on \/ b.ET.n >= s.pt
  /\ Truth(b.Q) = (s.on # NotRunning /\ b.ET.n >= s.pt)

OffTells(s, b) ==
  /\ IsTimer(b) /\ b.prev = s.was /\ (s.was => s.off = NotRunning)
  /\ s.off # NotRunning /\ ~s.offDone => b.ET.n = s.off
  /\ Truth(b.Q) = (s.was \/ (s.off # NotRunning /\ ~s.offDone))

PulseTells(s, b) ==
  /\ IsTimer(b) /\ b.prev = s.was /\ b.running = (s.pulse # NotRunning /\ ~s.pulseDone)
  /\ b.running => b.ET.n = s.pulse
  /\ Truth(b.Q) = b.running

TimersTell(s, ton, tof, tp) == AreClocks(s) /\ OnTells(s, ton) /\ OffTells(s, tof) /\ PulseTells(s, tp)

(* A timer that tells the clock shows what the property asks.              *)
LEMMA ToldIsShown ==
  ASSUME NEW s, NEW ton, NEW tof, NEW tp, TimersTell(s, ton, tof, tp)
  PROVE  TimersShow(s, ton, tof, tp)
<1>1. s.on \in Clock /\ s.pt \in Int /\ ton.ET.n \in Nat
  BY DEF TimersTell, AreClocks, OnTells, IsTimer
<1>2. /\ Truth(ton.Q) => s.on # NotRunning /\ s.on >= s.pt
      /\ s.on # NotRunning /\ s.on >= s.pt /\ ~s.late => Truth(ton.Q)
      /\ ton.ET.n <= (IF s.on = NotRunning THEN 0 ELSE s.on)
  <2> DEFINE e == ton.ET.n
             o == s.on
             q == Truth(ton.Q)
  <2>1. /\ e <= (IF o = NotRunning THEN 0 ELSE o)
        /\ o # NotRunning /\ ~s.late => e = o \/ e >= s.pt
        /\ q <=> o # NotRunning /\ e >= s.pt
    BY DEF TimersTell, OnTells
  <2>2. e \in Nat /\ o \in Clock /\ s.pt \in Int /\ q \in BOOLEAN
    BY <1>1 DEF Truth
  <2> HIDE DEF e, o, q
  <2>3. /\ q => o # NotRunning /\ o >= s.pt
        /\ o # NotRunning /\ o >= s.pt /\ ~s.late => q
        /\ e <= (IF o = NotRunning THEN 0 ELSE o)
    BY <2>1, <2>2 DEF NotRunning, Clock
  <2> QED BY <2>3 DEF e, o, q
<1>3. Truth(tof.Q) = (s.was \/ (s.off # NotRunning /\ ~s.offDone))
  BY DEF TimersTell, OffTells
<1>4. Truth(tp.Q) = (s.pulse # NotRunning /\ ~s.pulseDone)
  BY DEF TimersTell, PulseTells
<1> QED BY <1>2, <1>3, <1>4 DEF TimersShow

(* What a scan does to the clocks.                                         *)
LEMMA ClocksGoOn ==
  ASSUME NEW s, AreClocks(s), NEW in \in BOOLEAN, NEW p \in Int, NEW dt \in Nat
  PROVE  LET c == Clocks(s, in, p, dt)
             pulsing == s.pulse # NotRunning /\ ~s.pulseDone
         IN  /\ AreClocks(c)
             /\ c.was = in /\ c.pt = p
             /\ c.on = IF ~in THEN NotRunning ELSE IF s.on = NotRunning THEN 0 ELSE s.on + dt
             /\ c.off = IF in THEN NotRunning ELSE IF s.was THEN 0
                        ELSE IF s.off # NotRunning THEN s.off + dt ELSE NotRunning
             /\ c.pulse = IF pulsing THEN s.pulse + dt ELSE IF in /\ ~s.was THEN 0 ELSE NotRunning
             /\ c.offDone = (c.off # NotRunning /\ ((s.offDone /\ ~s.was) \/ c.off >= p))
             /\ c.pulseDone = (c.pulse # NotRunning /\ c.pulse >= p)
             /\ c.late = (c.on > 0 /\ (s.late \/ (p > s.pt /\ s.on >= s.pt)))
<1> DEFINE pulsing == s.pulse # NotRunning /\ ~s.pulseDone
           on == IF ~in THEN NotRunning ELSE IF s.on = NotRunning THEN 0 ELSE s.on + dt
           off == IF in THEN NotRunning ELSE IF s.was THEN 0
                  ELSE IF s.off # NotRunning THEN s.off + dt ELSE NotRunning
           pulse == IF pulsing THEN s.pulse + dt ELSE IF in /\ ~s.was THEN 0 ELSE NotRunning
           offDone == off # NotRunning /\ ((s.offDone /\ ~s.was) \/ off >= p)
           pulseDone == pulse # NotRunning /\ pulse >= p
           late == on > 0 /\ (s.late \/ (p > s.pt /\ s.on >= s.pt))
           c == Clocks(s, in, p, dt)
<1>0. /\ s.was \in BOOLEAN /\ s.offDone \in BOOLEAN /\ s.pulseDone \in BOOLEAN /\ s.late \in BOOLEAN
      /\ s.on \in Clock /\ s.off \in Clock /\ s.pulse \in Clock /\ s.pt \in Int /\ Over(s, ClockParts)
  BY DEF AreClocks
<1>1. on \in Clock /\ off \in Clock /\ pulse \in Clock
  BY <1>0 DEF Clock, NotRunning
<1>2. on = CASE ~in -> NotRunning [] in /\ s.on = NotRunning -> 0 [] OTHER -> s.on + dt
  BY Zenon
<1>3. off = CASE in -> NotRunning
              [] ~in /\ s.was -> 0
              [] ~in /\ ~s.was /\ s.off # NotRunning -> s.off + dt
              [] OTHER -> NotRunning
  BY Zenon
<1>4. pulse = CASE pulsing -> s.pulse + dt
                [] in /\ ~s.was /\ ~pulsing -> 0
                [] OTHER -> NotRunning
  BY Zenon
<1> HIDE DEF on, off, pulse
<1>5. c = [s EXCEPT !.was = in, !.on = on, !.off = off, !.pulse = pulse, !.pt = p,
                    !.offDone = off # NotRunning /\ ((@ /\ ~s.was) \/ off >= p),
                    !.pulseDone = pulseDone, !.late = on > 0 /\ (@ \/ (p > s.pt /\ s.on >= s.pt))]
  BY <1>2, <1>3, <1>4, Zenon DEF Clocks
<1>6. c = [s EXCEPT !.was = in, !.on = on, !.off = off, !.pulse = pulse, !.pt = p,
                    !.offDone = offDone, !.pulseDone = pulseDone, !.late = late]
  BY <1>0, <1>5 DEF Over, ClockParts
<1>7. offDone \in BOOLEAN /\ pulseDone \in BOOLEAN /\ late \in BOOLEAN
  OBVIOUS
<1> HIDE DEF offDone, pulseDone, late, c
<1>8. /\ Over(c, ClockParts) /\ c.was = in /\ c.pt = p
      /\ c.on = on /\ c.off = off /\ c.pulse = pulse
      /\ c.offDone = offDone /\ c.pulseDone = pulseDone /\ c.late = late
  BY <1>0, <1>6 DEF Over, ClockParts
<1>9. AreClocks(c)
  BY <1>1, <1>7, <1>8 DEF AreClocks
<1> QED BY <1>8, <1>9 DEF c, on, off, pulse, offDone, pulseDone, late

(* An on-delay goes on telling its clock (Ton.execute).                    *)
LEMMA OnDelayTells ==
  ASSUME NEW s, AreClocks(s), NEW b, OnTells(s, b), NEW in \in BOOLEAN, NEW p \in Int, NEW dt \in Nat
  PROVE  OnTells(Clocks(s, in, p, dt), OnDelay(Set(b, in, p), Time(dt)))
<1> DEFINE c == Clocks(s, in, p, dt)
           d == OnDelay(Set(b, in, p), Time(dt))
           e == b.ET.n
           x == IF in /\ s.was THEN After(e, p, dt) ELSE 0
           o == s.on
           n == IF ~in THEN NotRunning ELSE IF o = NotRunning THEN 0 ELSE o + dt
           late == n > 0 /\ (s.late \/ (p > s.pt /\ o >= s.pt))
<1>1. c.was = in /\ c.pt = p /\ c.on = n /\ c.late = (c.on > 0 /\ (s.late \/ (p > s.pt /\ o >= s.pt)))
  BY ClocksGoOn
<1>2. IsTimer(d) /\ d.ET.n = x /\ d.prev = in /\ Truth(d.Q) = (in /\ x >= p)
  BY OnDelayWhole DEF OnTells
<1>3. /\ s.was \in BOOLEAN /\ s.late \in BOOLEAN /\ o \in Clock /\ s.pt \in Int /\ e \in Nat
      /\ (o = NotRunning <=> ~s.was) /\ e <= (IF o = NotRunning THEN 0 ELSE o)
      /\ (o # NotRunning /\ ~s.late => e = o \/ e >= s.pt)
  BY DEF AreClocks, OnTells, IsTimer
<1> HIDE DEF c, d, e, o
<1>4. /\ (n = NotRunning <=> ~in) /\ x <= (IF n = NotRunning THEN 0 ELSE n)
      /\ (n # NotRunning /\ ~late => x = n \/ x >= p)
      /\ ((in /\ x >= p) <=> (n # NotRunning /\ x >= p))
  BY <1>3 DEF NotRunning, Clock, After
<1> HIDE DEF n, x
<1>5. c.late = late
  BY <1>1
<1> HIDE DEF late
<1>6. OnTells(c, d)
  BY <1>1, <1>2, <1>4, <1>5 DEF OnTells
<1> QED BY <1>6 DEF c, d

(* An off-delay goes on telling its clock (Tof.execute).                   *)
LEMMA OffDelayTells ==
  ASSUME NEW s, AreClocks(s), NEW b, OffTells(s, b), NEW in \in BOOLEAN, NEW p \in Int, NEW dt \in Nat
  PROVE  OffTells(Clocks(s, in, p, dt), OffDelay(Set(b, in, p), Time(dt)))
<1> DEFINE c == Clocks(s, in, p, dt)
           d == OffDelay(Set(b, in, p), Time(dt))
           e == b.ET.n
           on == Truth(b.Q)
           x == IF in \/ s.was THEN 0 ELSE IF on THEN After(e, p, dt) ELSE e
           o == s.off
           n == IF in THEN NotRunning ELSE IF s.was THEN 0 ELSE IF o # NotRunning THEN o + dt ELSE NotRunning
           done == n # NotRunning /\ ((s.offDone /\ ~s.was) \/ n >= p)
           q == in \/ (on /\ IF s.was THEN p > 0 ELSE ~(x >= p))
<1>1. c.was = in /\ c.off = n /\ c.offDone = (c.off # NotRunning /\ ((s.offDone /\ ~s.was) \/ c.off >= p))
  BY ClocksGoOn
<1>2. IsTimer(d) /\ d.ET.n = x /\ d.prev = in /\ Truth(d.Q) = q
  BY OffDelayWhole DEF OffTells
<1>3. /\ s.was \in BOOLEAN /\ s.offDone \in BOOLEAN /\ o \in Clock /\ e \in Nat /\ on \in BOOLEAN
      /\ (s.was => o = NotRunning)
      /\ (o # NotRunning /\ ~s.offDone => e = o)
      /\ (on <=> s.was \/ (o # NotRunning /\ ~s.offDone))
  BY DEF AreClocks, OffTells, IsTimer, Truth
<1> HIDE DEF c, d, e, o, on
<1>4. /\ (in => n = NotRunning)
      /\ (n # NotRunning /\ ~done => x = n)
      /\ (q <=> in \/ (n # NotRunning /\ ~done))
  BY <1>3 DEF NotRunning, Clock, After
<1>5. q \in BOOLEAN
  OBVIOUS
<1> HIDE DEF n, x, q
<1>6. c.offDone = done
  BY <1>1
<1> HIDE DEF done
<1>7. OffTells(c, d)
  BY <1>1, <1>2, <1>4, <1>5, <1>6 DEF OffTells
<1> QED BY <1>7 DEF c, d

(* A pulse goes on telling its clock (Tp.execute).                         *)
LEMMA PulseGoesOn ==
  ASSUME NEW s, AreClocks(s), NEW b, PulseTells(s, b), NEW in \in BOOLEAN, NEW p \in Int, NEW dt \in Nat
  PROVE  PulseTells(Clocks(s, in, p, dt), Pulse(Set(b, in, p), Time(dt)))
<1> DEFINE c == Clocks(s, in, p, dt)
           d == Pulse(Set(b, in, p), Time(dt))
           e == b.ET.n
           starts == in /\ ~s.was
           x == IF b.running THEN After(e, p, dt) ELSE IF starts \/ ~in THEN 0 ELSE e
           o == s.pulse
           pulsing == o # NotRunning /\ ~s.pulseDone
           n == IF pulsing THEN o + dt ELSE IF starts THEN 0 ELSE NotRunning
           done == n # NotRunning /\ n >= p
           r == IF b.running THEN ~(x >= p) ELSE starts /\ p > 0
<1>1. c.was = in /\ c.pulse = n /\ c.pulseDone = (c.pulse # NotRunning /\ c.pulse >= p)
  BY ClocksGoOn
<1>2. IsTimer(d) /\ d.ET.n = x /\ d.prev = in /\ d.running = r /\ Truth(d.Q) = d.running
  BY PulseWhole DEF PulseTells
<1>3. /\ s.was \in BOOLEAN /\ s.pulseDone \in BOOLEAN /\ o \in Clock /\ e \in Nat /\ b.running \in BOOLEAN
      /\ (b.running <=> pulsing) /\ (b.running => e = o)
  BY DEF AreClocks, PulseTells, IsTimer
<1> HIDE DEF c, d, e, o
<1>4. (r <=> n # NotRunning /\ ~done) /\ (r => x = n)
  BY <1>3 DEF NotRunning, Clock, After
<1>5. r \in BOOLEAN
  BY <1>3
<1> HIDE DEF n, x, r
<1>6. c.pulseDone = done
  BY <1>1
<1> HIDE DEF done
<1>7. PulseTells(c, d)
  BY <1>1, <1>2, <1>4, <1>5, <1>6 DEF PulseTells
<1> QED BY <1>7 DEF c, d

(* A new timer, before the first scan.                                     *)
LEMMA NewTimer ==
  ASSUME NEW t \in Timers
  PROVE  LET b == NewBlock(t)
         IN  IsTimer(b) /\ b.fb = t /\ b.ET.n = 0 /\ ~Truth(b.Q) /\ b.prev = FALSE /\ b.running = FALSE
<1> DEFINE b == NewBlock(t)
<1>1. FieldsOf(t) = {"IN", "PT", "Q", "ET"}
  <2>1. InputsOf(t) = <<"IN", "PT">> /\ OutputsOf(t) = <<"Q", "ET">>
    <3>1. t \in Timers /\ t \notin {"CTU", "CTD", "CTUD", "SR", "RS"} /\ t \notin Triggers /\ t \notin Latches
      BY DEF Timers, Triggers, Latches
    <3> HIDE DEF Timers
    <3>2. InputsOf(t) = <<"IN", "PT">>
      BY <3>1 DEF InputsOf
    <3>3. OutputsOf(t) = <<"Q", "ET">>
      BY <3>1 DEF OutputsOf
    <3> QED BY <3>2, <3>3
  <2>2. Elements(<<"IN", "PT">>) = {"IN", "PT"} /\ Elements(<<"Q", "ET">>) = {"Q", "ET"}
    BY DEF Elements
  <2> QED BY <2>1, <2>2 DEF FieldsOf
<1>2. FieldsOf(t) \cup {"fb", "prev", "up", "down", "running"} = TimerParts
  BY <1>1 DEF TimerParts
<1>3. b = [f \in TimerParts |->
             CASE f = "fb"   -> t
               [] f = "prev" -> t = "F_TRIG"
               [] f \in {"up", "down", "running"} -> FALSE
               [] OTHER      -> DefaultValue(FieldType(f))]
  BY <1>2, Zenon DEF NewBlock
<1>4. DefaultValue("TIME") = Time(0) /\ DefaultValue("BOOL") = BoolV(FALSE)
  BY DEF DefaultValue, IntTypes, Time
<1>5. FieldType("ET") = "TIME" /\ FieldType("Q") = "BOOL"
  BY DEF FieldType
<1>6. t # "F_TRIG"
  BY DEF Timers
<1>7. /\ b.fb = t /\ b.ET = DefaultValue(FieldType("ET")) /\ b.Q = DefaultValue(FieldType("Q"))
      /\ b.prev = (t = "F_TRIG") /\ b.running = FALSE
  BY <1>3 DEF TimerParts
<1>8. Over(b, TimerParts)
  BY <1>3 DEF Over
<1>9. Time(0).n = 0 /\ ~Truth(BoolV(FALSE))
  BY DEF Time, RealV, Truth, BoolV
<1> HIDE DEF b
<1>10. IsTimer(b) /\ b.ET.n = 0 /\ ~Truth(b.Q) /\ b.prev = FALSE
  <2>1. b.ET = Time(0) /\ b.Q = BoolV(FALSE) /\ b.prev = FALSE
    BY <1>4, <1>5, <1>6, <1>7
  <2>2. b.ET.n = 0 /\ ~Truth(b.Q)
    BY <1>9, <2>1
  <2>3. b.ET.n \in Nat /\ b.ET = Time(b.ET.n) /\ b.running \in BOOLEAN
    <3> DEFINE n == b.ET.n
    <3>1. n = 0 /\ b.ET = Time(0)
      BY <2>1, <2>2
    <3> HIDE DEF n
    <3>2. n \in Nat /\ b.ET = Time(n)
      BY <3>1
    <3> QED BY <1>7, <3>2, Zenon DEF n
  <2> QED BY <1>8, <2>1, <2>2, <2>3 DEF IsTimer
<1> QED BY <1>7, <1>10 DEF b

(* New timers tell the time before the first scan.                         *)
LEMMA NewTimersTell ==
  TimersTell(Fresh, NewBlock("TON"), NewBlock("TOF"), NewBlock("TP"))
<1>1. /\ AreClocks(Fresh) /\ Fresh.on = NotRunning /\ Fresh.off = NotRunning /\ Fresh.pulse = NotRunning
      /\ Fresh.was = FALSE
  BY DEF AreClocks, Fresh, Over, ClockParts, Clock, NotRunning
<1>2. \A t \in Timers :
        LET b == NewBlock(t)
        IN  IsTimer(b) /\ b.ET.n = 0 /\ ~Truth(b.Q) /\ b.prev = FALSE /\ b.running = FALSE
  BY NewTimer
<1> DEFINE ton == NewBlock("TON")
           tof == NewBlock("TOF")
           tp == NewBlock("TP")
<1>3. /\ IsTimer(ton) /\ ton.ET.n = 0 /\ ~Truth(ton.Q) /\ ton.prev = FALSE
      /\ IsTimer(tof) /\ ~Truth(tof.Q) /\ tof.prev = FALSE
      /\ IsTimer(tp) /\ ~Truth(tp.Q) /\ tp.prev = FALSE /\ tp.running = FALSE
  BY <1>2, Zenon DEF Timers
<1>4. Truth(ton.Q) \in BOOLEAN /\ Truth(tof.Q) \in BOOLEAN /\ Truth(tp.Q) \in BOOLEAN
  BY DEF Truth
<1> HIDE DEF ton, tof, tp
<1>5. OnTells(Fresh, ton)
  <2>1. ton.ET.n <= 0
    BY <1>3
  <2>2. /\ ton.ET.n <= (IF Fresh.on = NotRunning THEN 0 ELSE Fresh.on)
        /\ Truth(ton.Q) = (Fresh.on # NotRunning /\ ton.ET.n >= Fresh.pt)
        /\ (Fresh.on = NotRunning <=> ~Fresh.was)
    BY <1>1, <1>3, <1>4, <2>1, Zenon
  <2> QED BY <1>1, <1>3, <2>2, Zenon DEF OnTells
<1>6. OffTells(Fresh, tof)
  BY <1>1, <1>3, <1>4 DEF OffTells
<1>7. PulseTells(Fresh, tp)
  BY <1>1, <1>3, <1>4 DEF PulseTells
<1> QED BY <1>1, <1>5, <1>6, <1>7 DEF TimersTell, ton, tof, tp

-----------------------------------------------------------------------------
(* A list of one program, step by step.                                    *)

(* Forces change nothing but what is forced.                               *)
LEMMA LocalsOfOne ==
  ASSUME IsList, OneLadder, NEW f, NEW m, IsMem(m)
  PROVE  \A n \in Owned(Programs[1], "local") :
           <<"local", "ladder", n>> \notin DOMAIN f => ApplyForces(f, m).local["ladder"][n] = m.local["ladder"][n]
<1> DEFINE p == Programs[1]
           w == ApplyForces(f, m)
<1>1. /\ Over(m, Parts) /\ DOMAIN m.local = Names /\ DOMAIN m.local["ladder"] = Owned(p, "local")
      /\ "ladder" \in Names
  <2>1. "ladder" \in Names /\ Named("ladder") = p
    BY LadderIsFirst
  <2> HIDE DEF p
  <2> QED BY <2>1 DEF IsMem, Over
<1> HIDE DEF p
<1>2. w.local = [x \in DOMAIN m.local |-> Pin(f, "local", x, m.local[x])]
  BY <1>1 DEF ApplyForces, Over, Parts
<1> HIDE DEF w
<1>3. w.local["ladder"] = Pin(f, "local", "ladder", m.local["ladder"])
  BY <1>1, <1>2
<1>4. \A n \in Owned(p, "local") : <<"local", "ladder", n>> \notin DOMAIN f =>
        w.local["ladder"][n] = m.local["ladder"][n]
  BY <1>1, <1>3 DEF Pin
<1> QED BY <1>4 DEF p, w

(* The globals of the only program show their forces.                      *)
LEMMA GlobalsOfOne ==
  ASSUME IsList, OneLadder, NEW f, NEW m, IsMem(m), NEW n \in Owned(Programs[1], "global")
  PROVE  /\ <<"global", "", n>> \in DOMAIN f => ApplyForces(f, m).global[n] = f[<<"global", "", n>>]
         /\ <<"global", "", n>> \notin DOMAIN f => ApplyForces(f, m).global[n] = m.global[n]
<1> DEFINE w == ApplyForces(f, m)
<1>1. /\ Over(m, Parts) /\ DOMAIN m.global = Owned(Programs[1], "global")
  <2>1. DOMAIN MergedGlobals(Programs) = Owned(Programs[1], "global")
    BY OneMerged
  <2> QED BY <2>1 DEF IsMem, Over
<1>2. w.global = Pin(f, "global", "", m.global)
  BY <1>1 DEF ApplyForces, Over, Parts
<1> HIDE DEF w
<1>3. w.global[n] = IF <<"global", "", n>> \in DOMAIN f THEN f[<<"global", "", n>>] ELSE m.global[n]
  BY <1>1, <1>2 DEF Pin
<1> QED BY <1>3 DEF w

(* A new or a reset runtime.                                               *)
LEMMA BuiltOnOne ==
  ASSUME IsList, OneLadder, NEW f
  PROVE  /\ \A n \in Owned(Programs[1], "local") : <<"local", "ladder", n>> \notin DOMAIN f =>
              Built(f).local["ladder"][n] = MakeValue(Programs[1].syms[n])
         /\ \A n \in Owned(Programs[1], "global") :
              Built(f).global[n] = IF <<"global", "", n>> \in DOMAIN f THEN f[<<"global", "", n>>]
                                   ELSE MakeValue(Programs[1].syms[n])
<1> DEFINE p == Programs[1]
           gl == [n \in DOMAIN MergedGlobals(Programs) |-> MakeValue(MergedGlobals(Programs)[n])]
           sy == SysImage(FALSE, RealV(0, 1), TRUE, RealV(0, 1))
           lo == [x \in Names |-> [n \in Owned(Named(x), "local") |-> MakeValue(Named(x).syms[n])]]
           m == [input |-> TagImage("in"), told |-> TagImage("in"), output |-> TagImage("out"),
                 global |-> gl, sys |-> sy, local |-> lo]
<1>0. "ladder" \in Names /\ Named("ladder") = p
  BY LadderIsFirst
<1>1. Built(f) = ApplyForces(f, m)
  BY Zenon DEF Built
<1>2. /\ Over(TagImage("in"), TagsOf("in")) /\ Over(TagImage("out"), TagsOf("out"))
      /\ Over(gl, DOMAIN MergedGlobals(Programs)) /\ Over(lo, Names)
  BY DEF Over, TagImage
<1>3. \A x \in Names : Over(lo[x], Owned(Named(x), "local"))
  BY DEF Over
<1>4. lo["ladder"] = [n \in Owned(p, "local") |-> MakeValue(p.syms[n])]
  <2> HIDE DEF p
  <2> QED BY <1>0
<1>5. \A n \in Owned(p, "global") : gl[n] = MakeValue(p.syms[n])
  BY OneMerged
<1> HIDE DEF gl, sy, lo, p
<1>6. /\ Over(m, Parts) /\ m.input = TagImage("in") /\ m.told = TagImage("in") /\ m.output = TagImage("out")
      /\ m.global = gl /\ m.local = lo
  BY DEF Over, Parts
<1> HIDE DEF m
<1>7. IsMem(m)
  BY <1>2, <1>3, <1>6 DEF IsMem
<1>8. \A n \in Owned(p, "local") : <<"local", "ladder", n>> \notin DOMAIN f =>
        ApplyForces(f, m).local["ladder"][n] = m.local["ladder"][n]
  BY <1>7, LocalsOfOne DEF p
<1>12. \A n \in Owned(p, "global") :
           /\ <<"global", "", n>> \in DOMAIN f => ApplyForces(f, m).global[n] = f[<<"global", "", n>>]
           /\ <<"global", "", n>> \notin DOMAIN f => ApplyForces(f, m).global[n] = m.global[n]
  BY <1>7, GlobalsOfOne DEF p
<1> DEFINE w == Built(f)
<1>9. w = ApplyForces(f, m)
  BY <1>1
<1> HIDE DEF w
<1>10. \A n \in Owned(p, "local") : <<"local", "ladder", n>> \notin DOMAIN f =>
         w.local["ladder"][n] = MakeValue(p.syms[n])
  BY <1>4, <1>6, <1>8, <1>9
<1>11. \A n \in Owned(p, "global") :
         w.global[n] = IF <<"global", "", n>> \in DOMAIN f THEN f[<<"global", "", n>>] ELSE MakeValue(p.syms[n])
  BY <1>5, <1>6, <1>9, <1>12
<1> QED BY <1>10, <1>11 DEF w, p

(* A step is a scan, a reset, or one that leaves the locals as they are,   *)
(* but for what is forced.                                                 *)
Free(n) == /\ n \in Owned(Programs[1], "local")
           /\ <<"local", "ladder", n>> \notin DOMAIN forced \cup DOMAIN forced'
Still == scans' = scans /\ \A n : Free(n) => mem'.local["ladder"][n] = mem.local["ladder"][n]
Renewed == scans' = 0 /\ \A n : Free(n) => mem'.local["ladder"][n] = MakeValue(Programs[1].syms[n])

(* A step is a request beside the blocks, a reset or a scan.               *)
LEMMA StepsOnOne ==
  ASSUME ForcesInv, OneLadder, Next
  PROVE  Still \/ Renewed \/ \E dt \in plan.dts : Scan(dt)
<1>1. Over(mem, Parts) /\ IsList /\ IsMem(mem)
  BY MemParts
<1>2. ASSUME scans' = scans, mem'.local = mem.local PROVE Still
  BY <1>2 DEF Still
<1>3. ASSUME NEW n, NEW v, WriteInputs(n, v) PROVE Still
  <2> DEFINE x == Coerce(v, Tags[n].type)
             y == IF <<"input", "", n>> \in DOMAIN forced THEN mem.input[n] ELSE x
  <2>1. mem' = [mem EXCEPT !.told[n] = x, !.input[n] = y] /\ scans' = scans
    BY <1>3, Zenon DEF WriteInputs
  <2> HIDE DEF x, y
  <2> QED BY <1>1, <1>2, <2>1 DEF Over, Parts
<1>4. ASSUME NEW n, NEW v, WriteGlobals(n, v) PROVE Still
  <2> DEFINE y == IF <<"global", "", n>> \in DOMAIN forced THEN forced[<<"global", "", n>>]
                  ELSE Coerce(v, MergedGlobals(Programs)[n].type)
  <2>1. mem' = [mem EXCEPT !.global[n] = y] /\ scans' = scans
    BY <1>4, Zenon DEF WriteGlobals
  <2> HIDE DEF y
  <2> QED BY <1>1, <1>2, <2>1 DEF Over, Parts
<1>5. ASSUME NEW k, NEW v, ForceValue(k, v) PROVE Still
  <2>1. mem' = ApplyForces(forced', mem) /\ scans' = scans
    BY <1>5, Zenon DEF ForceValue
  <2>2. \A n \in Owned(Programs[1], "local") : <<"local", "ladder", n>> \notin DOMAIN forced' =>
          ApplyForces(forced', mem).local["ladder"][n] = mem.local["ladder"][n]
    BY <1>1, LocalsOfOne
  <2> QED BY <2>1, <2>2 DEF Still, Free
<1>6. ASSUME NEW k, UnforceValue(k) PROVE Still
  <2>1. scans' = scans /\ mem' = IF k[1] = "input" THEN [mem EXCEPT !.input[k[3]] = mem.told[k[3]]] ELSE mem
    BY <1>6 DEF UnforceValue
  <2> QED BY <1>1, <1>2, <2>1 DEF Over, Parts
<1>7. ASSUME NEW n, NEW on, SetProgramEnabled(n, on) PROVE Still
  BY <1>2, <1>7 DEF SetProgramEnabled
<1>8. ASSUME ClearFaults PROVE Still
  BY <1>2, <1>8 DEF ClearFaults
<1>9. ASSUME NEW on, SetAbort(on) PROVE Still
  <2>1. mem' = [mem EXCEPT !.sys.SYS_ABORT = BoolV(on)] /\ scans' = scans
    BY <1>9 DEF SetAbort
  <2> QED BY <1>1, <1>2, <2>1 DEF Over, Parts
<1>10. ASSUME Reset PROVE Renewed
  <2>1. mem' = Built(forced) /\ scans' = 0
    BY <1>10 DEF Reset
  <2>2. \A n \in Owned(Programs[1], "local") : <<"local", "ladder", n>> \notin DOMAIN forced =>
          Built(forced).local["ladder"][n] = MakeValue(Programs[1].syms[n])
    BY <1>1, BuiltOnOne
  <2> QED BY <2>1, <2>2 DEF Renewed, Free
<1> QED BY <1>3, <1>4, <1>5, <1>6, <1>7, <1>8, <1>9, <1>10, Zenon DEF Next

(* Between scans a global has a value that was written, forced or declared. *)
Gives(q, n, S) ==
  LET p == q.programs[1]
      t == p.syms[n].type
  IN  /\ MakeValue(p.syms[n]) \in S
      /\ n \in DOMAIN q.globals => \A v \in q.globals[n] : Coerce(v, t) \in S
      /\ <<"global", "", n>> \in DOMAIN q.forces => \A v \in q.forces[<<"global", "", n>>] : Coerce(v, t) \in S

(* A global keeps what the plan gives it, scans aside.                     *)
LEMMA GlobalOfOne ==
  ASSUME ForcesInv, OneLadder, Next, NEW n \in Owned(Programs[1], "global"), NEW S,
         mem.global[n] \in S, Gives(plan, n, S)
  PROVE  mem'.global[n] \in S \/ \E dt \in plan.dts : Scan(dt)
<1> DEFINE p == Programs[1]
           g == <<"global", "", n>>
<1>1. /\ Over(mem, Parts) /\ IsList /\ IsMem(mem) /\ IsForces(forced)
      /\ DOMAIN mem.global = Owned(p, "global") /\ Over(mem.global, Owned(p, "global"))
      /\ MergedGlobals(Programs)[n] = p.syms[n]
      /\ g \in DOMAIN forced => mem.global[n] = forced[g]
  <2>1. DOMAIN MergedGlobals(Programs) = Owned(p, "global") /\ MergedGlobals(Programs)[n] = p.syms[n]
    BY MemParts, OneMerged
  <2>2. DOMAIN mem.global = DOMAIN MergedGlobals(Programs)
    BY MemParts DEF Over
  <2> QED BY <2>1, <2>2, MemParts
<1>2. g[1] = "global" /\ g[3] = n
  OBVIOUS
<1> HIDE DEF p, g
<1>3. ASSUME mem'.global = mem.global PROVE mem'.global[n] \in S
  BY <1>3
<1>4. ASSUME NEW i, NEW v, WriteInputs(i, v) PROVE mem'.global[n] \in S
  <2> DEFINE x == Coerce(v, Tags[i].type)
             y == IF <<"input", "", i>> \in DOMAIN forced THEN mem.input[i] ELSE x
  <2>1. mem' = [mem EXCEPT !.told[i] = x, !.input[i] = y]
    BY <1>4, Zenon DEF WriteInputs
  <2> HIDE DEF x, y
  <2> QED BY <1>1, <1>3, <2>1 DEF Over, Parts
<1>5. ASSUME NEW i \in DOMAIN plan.globals, NEW v \in plan.globals[i], WriteGlobals(i, v) PROVE mem'.global[n] \in S
  <2> DEFINE y == IF <<"global", "", i>> \in DOMAIN forced THEN forced[<<"global", "", i>>]
                  ELSE Coerce(v, MergedGlobals(Programs)[i].type)
  <2>1. mem' = [mem EXCEPT !.global[i] = y]
    BY <1>5, Zenon DEF WriteGlobals
  <2>2. i = n => y \in S
    BY <1>1 DEF Gives, Programs, p, g
  <2> HIDE DEF y
  <2>3. mem'.global = [mem.global EXCEPT ![i] = y]
    BY <1>1, <2>1 DEF Over, Parts
  <2>4. mem'.global[n] = IF i = n THEN y ELSE mem.global[n]
    BY <1>1, <2>3 DEF p
  <2> QED BY <2>2, <2>4
<1>6. ASSUME NEW k \in DOMAIN plan.forces, NEW v \in plan.forces[k], ForceValue(k, v) PROVE mem'.global[n] \in S
  <2>1. /\ mem' = ApplyForces(forced', mem)
        /\ forced' = [x \in DOMAIN forced \cup {k} |-> IF x = k THEN Coerce(v, ForceType(k)) ELSE forced[x]]
    BY <1>6, Zenon DEF ForceValue
  <2>2. mem'.global[n] = IF g \in DOMAIN forced' THEN forced'[g] ELSE mem.global[n]
    <3>1. \A f : /\ g \in DOMAIN f => ApplyForces(f, mem).global[n] = f[g]
                 /\ g \notin DOMAIN f => ApplyForces(f, mem).global[n] = mem.global[n]
      <4>1. IsList /\ OneLadder /\ IsMem(mem) /\ n \in Owned(Programs[1], "global")
        BY <1>1
      <4> QED BY <4>1, GlobalsOfOne DEF g
    <3> QED BY <2>1, <3>1, Zenon
  <2>3. CASE g = k
    <3>1. ForceType(k) = MergedGlobals(Programs)[n].type
      BY <1>2, <2>3 DEF ForceType
    <3>2. mem'.global[n] = Coerce(v, MergedGlobals(Programs)[n].type)
      BY <2>1, <2>2, <2>3, <3>1
    <3>3. Coerce(v, p.syms[n].type) \in S
      <4>1. <<"global", "", n>> \in DOMAIN plan.forces /\ v \in plan.forces[<<"global", "", n>>]
        BY <2>3 DEF g
      <4> QED BY <4>1 DEF Gives, Programs, p
    <3> QED BY <1>1, <3>2, <3>3
  <2>4. CASE g # k
    <3>1. g \in DOMAIN forced' => g \in DOMAIN forced /\ forced'[g] = forced[g]
      BY <2>1, <2>4
    <3> QED BY <1>1, <2>2, <3>1
  <2> QED BY <2>3, <2>4
<1>7. ASSUME NEW k, UnforceValue(k) PROVE mem'.global[n] \in S
  <2>1. mem' = IF k[1] = "input" THEN [mem EXCEPT !.input[k[3]] = mem.told[k[3]]] ELSE mem
    BY <1>7 DEF UnforceValue
  <2> QED BY <1>1, <1>3, <2>1 DEF Over, Parts
<1>8. ASSUME mem' = mem PROVE mem'.global[n] \in S
  BY <1>8
<1>9. ASSUME NEW on, SetAbort(on) PROVE mem'.global[n] \in S
  <2>1. mem' = [mem EXCEPT !.sys.SYS_ABORT = BoolV(on)]
    BY <1>9 DEF SetAbort
  <2> QED BY <1>1, <1>3, <2>1 DEF Over, Parts
<1>10. ASSUME Reset PROVE mem'.global[n] \in S
  <2>1. mem' = Built(forced)
    BY <1>10 DEF Reset
  <2>2. Built(forced).global[n] = IF g \in DOMAIN forced THEN forced[g] ELSE MakeValue(p.syms[n])
    BY <1>1, BuiltOnOne DEF p, g
  <2> QED BY <1>1, <2>1, <2>2 DEF Gives, Programs, p
<1> QED BY <1>4, <1>5, <1>6, <1>7, <1>8, <1>9, <1>10, Zenon DEF Next, SetProgramEnabled, ClearFaults

-----------------------------------------------------------------------------
(* Timers on the runtime.                                                  *)

(* A timer is what it is.                                                  *)
LEMMA TimersStay ==
  ASSUME NEW b, Over(b, TimerParts), NEW dt
  PROVE  /\ OnDelay(b, dt).fb = b.fb
         /\ OffDelay(b, dt).fb = b.fb
         /\ Pulse(b, dt).fb = b.fb
<1> DEFINE on == Truth(b.IN)
           Alike(c) == Over(c, TimerParts) /\ c.fb = b.fb
<1>1. ASSUME NEW c, Over(c, TimerParts), NEW f \in TimerParts \ {"fb"}, NEW v
      PROVE  Over([c EXCEPT ![f] = v], TimerParts) /\ [c EXCEPT ![f] = v].fb = c.fb
  BY <1>1 DEF Over, TimerParts
<1>2. Alike(b)
  OBVIOUS
<1>3. Alike(ResetEt(b))
  BY <1>1, Zenon DEF ResetEt, TimerParts
<1> DEFINE a == Advance(b, dt)
<1>4. Alike(a)
  <2>1. \/ a = b
        \/ \E v : a = [b EXCEPT !.ET = v]
    BY Zenon DEF Advance
  <2> HIDE DEF a
  <2> QED BY <2>1 DEF Over, TimerParts
<1>5. \A c : Alike(c) => \A v, w, x :
        /\ [c EXCEPT !.Q = v, !.prev = w].fb = b.fb
        /\ [[c EXCEPT !.Q = v] EXCEPT !.prev = w].fb = b.fb
        /\ [[c EXCEPT !.running = x, !.Q = v] EXCEPT !.prev = w].fb = b.fb
        /\ [c EXCEPT !.prev = w].fb = b.fb
  BY DEF Over, TimerParts
<1> DEFINE z == ResetEt(b)
<1> HIDE DEF Alike, a, z
<1>6. OnDelay(b, dt).fb = b.fb
  <2>1. CASE on /\ b.prev
    <3>1. OnDelay(b, dt) = [a EXCEPT !.Q = BoolV(on /\ Elapsed(a)), !.prev = on]
      BY <2>1, Zenon DEF OnDelay, a
    <3> QED BY <1>4, <1>5, <3>1
  <2>2. CASE ~(on /\ b.prev)
    <3>1. OnDelay(b, dt) = [z EXCEPT !.Q = BoolV(on /\ Elapsed(z)), !.prev = on]
      BY <2>2, Zenon DEF OnDelay, z
    <3> QED BY <1>3, <1>5, <3>1 DEF z
  <2> QED BY <2>1, <2>2
<1>7. OffDelay(b, dt).fb = b.fb
  <2>1. \/ \E v : OffDelay(b, dt) = [[z EXCEPT !.Q = v] EXCEPT !.prev = on]
        \/ \E v : OffDelay(b, dt) = [[a EXCEPT !.Q = v] EXCEPT !.prev = on]
        \/ OffDelay(b, dt) = [b EXCEPT !.prev = on]
    <3>1. CASE on
      BY <3>1, Zenon DEF OffDelay, z
    <3>2. CASE ~on /\ b.prev
      BY <3>2, Zenon DEF OffDelay, z
    <3>3. CASE ~on /\ ~b.prev /\ Truth(b.Q)
      BY <3>3, Zenon DEF OffDelay, a
    <3>4. CASE ~on /\ ~b.prev /\ ~Truth(b.Q)
      BY <3>4, Zenon DEF OffDelay
    <3> QED BY <3>1, <3>2, <3>3, <3>4
  <2> HIDE DEF on
  <2>2. Alike(z)
    BY <1>3 DEF z
  <2> DEFINE d == OffDelay(b, dt)
  <2> HIDE DEF d
  <2>3. ASSUME NEW c, Alike(c), NEW v, d = [[c EXCEPT !.Q = v] EXCEPT !.prev = on] PROVE d.fb = b.fb
    BY <1>5, <2>3
  <2>4. d = [b EXCEPT !.prev = on] => d.fb = b.fb
    BY <1>2, <1>5
  <2> QED BY <1>4, <2>1, <2>2, <2>3, <2>4, Zenon DEF d
<1>8. Pulse(b, dt).fb = b.fb
  <2>1. \/ \E v, x : Pulse(b, dt) = [[a EXCEPT !.running = x, !.Q = v] EXCEPT !.prev = on]
        \/ \E v, x : Pulse(b, dt) = [[z EXCEPT !.running = x, !.Q = v] EXCEPT !.prev = on]
        \/ Pulse(b, dt) = [z EXCEPT !.prev = on]
        \/ Pulse(b, dt) = [b EXCEPT !.prev = on]
    <3>1. CASE b.running
      BY <3>1, Zenon DEF Pulse, a
    <3>2. CASE ~b.running /\ on /\ ~b.prev
      BY <3>2, Zenon DEF Pulse, z
    <3>3. CASE ~b.running /\ ~on
      BY <3>3, Zenon DEF Pulse, z
    <3>4. CASE ~b.running /\ on /\ b.prev
      BY <3>4, Zenon DEF Pulse
    <3> QED BY <3>1, <3>2, <3>3, <3>4
  <2> HIDE DEF on
  <2>2. Alike(z)
    BY <1>3 DEF z
  <2> DEFINE d == Pulse(b, dt)
  <2> HIDE DEF d
  <2>3. ASSUME NEW c, Alike(c), NEW v, NEW x, d = [[c EXCEPT !.running = x, !.Q = v] EXCEPT !.prev = on]
        PROVE  d.fb = b.fb
    BY <1>5, <2>3
  <2>4. ASSUME NEW c, Alike(c), d = [c EXCEPT !.prev = on] PROVE d.fb = b.fb
    BY <1>5, <2>4
  <2> QED BY <1>2, <1>4, <2>1, <2>2, <2>3, <2>4, Zenon DEF d
<1> QED BY <1>6, <1>7, <1>8

(* The three timers of the program, and how it calls them: each scan, with *)
(* the input start and the global delay, in any order and with whatever    *)
(* else it does beside that.                                               *)
TimerNames == [tn |-> "TON", tf |-> "TOF", tp |-> "TP"]
Times == {Time(i) : i \in Int}
Lengths == {Time(n) : n \in Nat}

AreTimers(local) == \A n \in DOMAIN TimerNames : IsTimer(local[n]) /\ local[n].fb = TimerNames[n]

TimerCall(s, n, dt) ==
  Execute([s.local[n] EXCEPT !.IN = BoolV(Truth(s.input["start"])), !.PT = s.global["delay"]], dt)

CallsTimers(p) ==
  \A c : /\ IsContext(c, p) /\ AreTimers(c.store.local)
         /\ c.store.global["delay"] \in Times /\ c.dt \in Lengths
         /\ RunBody(c, p).sig \in {"go", "return"}
         => /\ \A n \in DOMAIN TimerNames : RunBody(c, p).ctx.store.local[n] = TimerCall(c.store, n, c.dt)
            /\ RunBody(c, p).ctx.store.global["delay"] = c.store.global["delay"]

TimerProgram(p) ==
  /\ p.name = "ladder" /\ CallsTimers(p)
  /\ \A n \in DOMAIN TimerNames : n \in Owned(p, "local") /\ p.syms[n].fb = TimerNames[n]
  /\ "delay" \in Owned(p, "global")

(* A plan with this one program, whole delays and whole scans.             *)
TimerPlan(q) ==
  /\ Len(q.programs) = 1 /\ TimerProgram(q.programs[1])
  /\ Gives(q, "delay", Times) /\ q.dts \subseteq Lengths
TimersPlanned == plan.about = "timers" => TimerPlan(plan)

(* Until the first scan nothing has happened, and after it timers tell what *)
(* the clocks do.                                                          *)
TimersInv ==
  /\ ForcesInv /\ TimersPlanned /\ scans \in Nat
  /\ plan.about = "timers" =>
       /\ AreTimers(mem.local["ladder"]) /\ mem.global["delay"] \in Times
       /\ TimersTell(seen, Block("tn"), Block("tf"), Block("tp"))
       /\ scans = 0 => seen = Fresh

(* What the plan says of the timers.                                       *)
LEMMA TimersOfPlan ==
  ASSUME TimersPlanned, plan.about = "timers"
  PROVE  /\ OneLadder /\ TimerProgram(Programs[1]) /\ plan.dts \subseteq Lengths
         /\ Gives(plan, "delay", Times) /\ "delay" \in Owned(Programs[1], "global")
         /\ \A n \in DOMAIN TimerNames :
              n \in Owned(Programs[1], "local") /\ Programs[1].syms[n].fb = TimerNames[n]
BY DEF TimersPlanned, TimerPlan, TimerProgram, OneLadder, Programs

(* A block is never forced.                                                *)
LEMMA BlocksAreFree ==
  ASSUME IsList, OneLadder, NEW f, IsForces(f), NEW n,
         n \in Owned(Programs[1], "local"), Programs[1].syms[n].fb # "none"
  PROVE  <<"local", "ladder", n>> \notin DOMAIN f
<1> SUFFICES ASSUME <<"local", "ladder", n>> \in Forceable PROVE FALSE
  BY DEF IsForces
<1> DEFINE k == <<"local", "ladder", n>>
<1>1. k[1] = "local" /\ k[2] = "ladder" /\ k[3] = n
  OBVIOUS
<1>2. ASSUME NEW m, k = <<"input", "", m>> \/ k = <<"output", "", m>> \/ k = <<"global", "", m>> PROVE FALSE
  BY <1>2
<1>3. PICK p \in Elements(Programs) : \E m \in {x \in Owned(p, "local") : p.syms[x].fb = "none"} : k = <<"local", p.name, m>>
  BY <1>2, Zenon DEF Forceable
<1>4. p = Programs[1]
  BY LadderIsFirst
<1>5. PICK m \in {x \in Owned(p, "local") : p.syms[x].fb = "none"} : k = <<"local", p.name, m>>
  BY <1>3
<1>6. m = n
  BY <1>5
<1> QED BY <1>4, <1>5, <1>6

(* What the call of a timer is, by its type.                               *)
LEMMA CalledTimer ==
  ASSUME NEW b, Over(b, TimerParts), NEW in, NEW p, NEW dt
  PROVE  /\ b.fb = "TON" => Execute(Set(b, in, p), dt) = OnDelay(Set(b, in, p), dt)
         /\ b.fb = "TOF" => Execute(Set(b, in, p), dt) = OffDelay(Set(b, in, p), dt)
         /\ b.fb = "TP" => Execute(Set(b, in, p), dt) = Pulse(Set(b, in, p), dt)
         /\ b.fb \in Timers => Execute(Set(b, in, p), dt).fb = b.fb
<1> DEFINE s == Set(b, in, p)
           v == BoolV(in)
           w == Time(p)
<1>1. Over(s, TimerParts) /\ s.fb = b.fb
  <2>1. s = [b EXCEPT !.IN = v, !.PT = w]
    BY DEF Set
  <2> HIDE DEF s, v, w
  <2> QED BY <2>1 DEF Over, TimerParts
<1> HIDE DEF s
<1>2. /\ s.fb = "TON" => Execute(s, dt) = OnDelay(s, dt)
      /\ s.fb = "TOF" => Execute(s, dt) = OffDelay(s, dt)
      /\ s.fb = "TP" => Execute(s, dt) = Pulse(s, dt)
  BY DEF Execute
<1>3. OnDelay(s, dt).fb = s.fb /\ OffDelay(s, dt).fb = s.fb /\ Pulse(s, dt).fb = s.fb
  BY <1>1, TimersStay
<1> QED BY <1>1, <1>2, <1>3 DEF s, Timers

(* A completed scan calls each timer once.                                 *)
LEMMA TimersAfterScan ==
  ASSUME TimersInv, plan.about = "timers", NEW dt \in plan.dts, Scan(dt),
         seen' = IF Completed
                 THEN Clocks(seen, High("start"), mem'.global["delay"].n, mem'.sys.SYS_SCAN_TIME.n)
                 ELSE seen
  PROVE  /\ AreTimers(mem'.local["ladder"]) /\ mem'.global["delay"] \in Times
         /\ TimersTell(seen', mem'.local["ladder"]["tn"], mem'.local["ladder"]["tf"], mem'.local["ladder"]["tp"])
<1> DEFINE p == Programs[1]
           c == LadderContext(dt)
           r == RunBody(c, p)
           l == mem.local["ladder"]
           k == mem'.local["ladder"]
           g == mem.global["delay"]
<1>1. /\ ForcesInv /\ TimersPlanned /\ OneLadder /\ TimerProgram(p) /\ plan.dts \subseteq Lengths
      /\ IsList /\ IsForces(forced) /\ "delay" \in Owned(p, "global")
      /\ \A n \in DOMAIN TimerNames : n \in Owned(p, "local") /\ p.syms[n].fb = TimerNames[n]
  BY TimersOfPlan, MemParts DEF TimersInv
<1>2. DOMAIN TimerNames = {"tn", "tf", "tp"}
      /\ TimerNames["tn"] = "TON" /\ TimerNames["tf"] = "TOF" /\ TimerNames["tp"] = "TP"
  BY DEF TimerNames
<1>3. \A n \in DOMAIN TimerNames : <<"local", "ladder", n>> \notin DOMAIN forced
  <2>1. \A n \in DOMAIN TimerNames : TimerNames[n] # "none"
    BY <1>2
  <2> QED BY <1>1, <2>1, BlocksAreFree
<1>4. /\ AreTimers(l) /\ g \in Times /\ TimersTell(seen, l["tn"], l["tf"], l["tp"])
  BY DEF TimersInv, Block
<1>5. PICK d \in Int : g = Time(d)
  BY <1>4 DEF Times
<1>6. PICK t \in Nat : dt = Time(t)
  BY <1>1 DEF Lengths
<1>7. /\ IsContext(c, p) /\ c.dt = dt /\ c.store.local = l
      /\ c.store.global = mem.global /\ c.store.input = mem.input
  BY <1>1, LadderRunsIn
<1>8. /\ mem'.sys.SYS_SCAN_TIME = dt /\ mem'.input = mem.input
      /\ Completed => r.sig \in {"go", "return"}
      /\ \A n \in Owned(p, "local") : <<"local", "ladder", n>> \notin DOMAIN forced =>
           k[n] = IF Completed THEN r.ctx.store.local[n] ELSE l[n]
      /\ \A n \in Owned(p, "global") :
           mem'.global[n] = IF Completed /\ <<"global", "", n>> \notin DOMAIN forced
                            THEN r.ctx.store.global[n] ELSE mem.global[n]
  BY <1>1, LadderScan
<1> HIDE DEF p, c, r, l, k, g
<1>9. CASE ~Completed
  <2>1. seen' = seen /\ \A n \in DOMAIN TimerNames : k[n] = l[n]
    BY <1>1, <1>3, <1>8, <1>9
  <2>2. mem'.global["delay"] = g
    BY <1>1, <1>8, <1>9 DEF g
  <2>3. AreTimers(k)
    BY <1>4, <2>1 DEF AreTimers
  <2> QED BY <1>2, <1>4, <2>1, <2>2, <2>3 DEF k
<1>10. CASE Completed
  <2> DEFINE in == Truth(mem.input["start"])
             x(n) == Execute(Set(l[n], in, d), Time(t))
  <2>1. /\ \A n \in DOMAIN TimerNames : r.ctx.store.local[n] = TimerCall(c.store, n, c.dt)
        /\ r.ctx.store.global["delay"] = c.store.global["delay"]
    <3>1. CallsTimers(p)
      BY <1>1 DEF TimerProgram
    <3>2. AreTimers(c.store.local) /\ c.store.global["delay"] \in Times /\ c.dt \in Lengths
      BY <1>1, <1>4, <1>7 DEF g
    <3> QED BY <1>7, <1>8, <1>10, <3>1, <3>2, Zenon DEF CallsTimers, r
  <2>2. mem'.global["delay"] = g
    BY <1>1, <1>7, <1>8, <1>10, <2>1 DEF g
  <2>3. \A n \in DOMAIN TimerNames : k[n] = x(n)
    <3>1. \A n : TimerCall(c.store, n, c.dt) = x(n)
      <4>1. c.store.global["delay"] = Time(d) /\ c.store.input["start"] = mem.input["start"]
        BY <1>5, <1>7 DEF g
      <4> QED BY <1>6, <1>7, <4>1, Zenon DEF TimerCall, Set
    <3> HIDE DEF x
    <3> QED BY <1>1, <1>3, <1>8, <1>10, <2>1, <3>1
  <2>4. in \in BOOLEAN
    BY DEF Truth
  <2>5. seen' = Clocks(seen, in, d, t)
    <3>1. mem'.global["delay"].n = d /\ mem'.sys.SYS_SCAN_TIME.n = t
      <4>1. Time(d).n = d /\ Time(t).n = t
        BY WholeTimes
      <4> QED BY <1>5, <1>6, <1>8, <2>2, <4>1
    <3>2. High("start") = in
      BY <1>8 DEF High
    <3> HIDE DEF in
    <3> QED BY <1>10, <3>1, <3>2
  <2> HIDE DEF in
  <2>6. AreClocks(seen) /\ OnTells(seen, l["tn"]) /\ OffTells(seen, l["tf"]) /\ PulseTells(seen, l["tp"])
    BY <1>4 DEF TimersTell
  <2>7. \A n \in DOMAIN TimerNames : l[n].fb = TimerNames[n] /\ Over(l[n], TimerParts) /\ TimerNames[n] \in Timers
    BY <1>2, <1>4 DEF AreTimers, IsTimer, Timers
  <2>8. /\ x("tn") = OnDelay(Set(l["tn"], in, d), Time(t))
        /\ x("tf") = OffDelay(Set(l["tf"], in, d), Time(t))
        /\ x("tp") = Pulse(Set(l["tp"], in, d), Time(t))
    BY <1>2, <2>7, CalledTimer
  <2>9. \A n \in DOMAIN TimerNames : x(n).fb = TimerNames[n]
    BY <2>7, CalledTimer
  <2>10. OnTells(seen', k["tn"]) /\ OffTells(seen', k["tf"]) /\ PulseTells(seen', k["tp"]) /\ AreClocks(seen')
    <3>1. OnTells(Clocks(seen, in, d, t), OnDelay(Set(l["tn"], in, d), Time(t)))
      BY <2>4, <2>6, OnDelayTells
    <3>2. OffTells(Clocks(seen, in, d, t), OffDelay(Set(l["tf"], in, d), Time(t)))
      BY <2>4, <2>6, OffDelayTells
    <3>3. PulseTells(Clocks(seen, in, d, t), Pulse(Set(l["tp"], in, d), Time(t)))
      BY <2>4, <2>6, PulseGoesOn
    <3>4. AreClocks(Clocks(seen, in, d, t))
      BY <2>4, <2>6, ClocksGoOn
    <3> HIDE DEF x
    <3> QED BY <1>2, <2>3, <2>5, <2>8, <3>1, <3>2, <3>3, <3>4
  <2> HIDE DEF x
  <2>11. AreTimers(k)
    <3>1. IsTimer(k["tn"]) /\ IsTimer(k["tf"]) /\ IsTimer(k["tp"])
      BY <2>10 DEF OnTells, OffTells, PulseTells
    <3> QED BY <1>2, <2>3, <2>9, <3>1 DEF AreTimers
  <2> QED BY <1>4, <2>2, <2>10, <2>11 DEF TimersTell, k
<1> QED BY <1>9, <1>10

(* What a step does to the plan, the count of scans and the clocks.        *)
LEMMA HistoryStep ==
  ASSUME scans \in Nat, HNext
  PROVE  /\ plan' = plan /\ scans' \in Nat /\ Next
         /\ plan.about \in {"timers", "edges"} =>
              /\ scans' = scans => seen' = seen
              /\ scans' < scans => seen' = Fresh
         /\ plan.about = "timers" /\ scans' = scans + 1 =>
              seen' = IF Completed
                      THEN Clocks(seen, High("start"), mem'.global["delay"].n, mem'.sys.SYS_SCAN_TIME.n)
                      ELSE seen
         /\ plan.about = "edges" /\ scans' = scans + 1 =>
              seen' = IF Completed THEN Counts(seen, High("start"), High("enable"), High("clear")) ELSE seen
<1>1. Next
  BY DEF HNext
<1>2. plan' = plan
  BY <1>1, Zenon DEF Next, WriteInputs, WriteGlobals, ForceValue, UnforceValue, SetProgramEnabled,
                     ClearFaults, SetAbort, Reset, Scan
<1>3. scans' \in Nat
  BY <1>1, OnlyScansCount
<1> DEFINE tm == Clocks(seen, High("start"), mem'.global["delay"].n, mem'.sys.SYS_SCAN_TIME.n)
           ed == Counts(seen, High("start"), High("enable"), High("clear"))
           one == scans' = scans + 1
           less == scans' < scans
           ti == plan.about = "timers"
           eg == plan.about = "edges"
<1>4. seen' = CASE ti /\ one /\ Completed -> tm
                [] eg /\ one /\ Completed -> ed
                [] plan.about \in {"timers", "edges"} /\ less -> Fresh
                [] OTHER -> seen
  BY Zenon DEF HNext
<1>5. /\ scans' = scans => ~one /\ ~less
      /\ one => ~less
      /\ less => ~one
      /\ ~(ti /\ eg)
  BY <1>3
<1>6. plan.about \in {"timers", "edges"} <=> ti \/ eg
  OBVIOUS
<1> HIDE DEF tm, ed, one, less, ti, eg
<1>7. ti \/ eg => /\ (scans' = scans => seen' = seen) /\ (less => seen' = Fresh)
  BY <1>4, <1>5, <1>6, Zenon
<1>8. ti /\ one => seen' = IF Completed THEN tm ELSE seen
  BY <1>4, <1>5, <1>6, Zenon
<1>9. eg /\ one => seen' = IF Completed THEN ed ELSE seen
  BY <1>4, <1>5, <1>6, Zenon
<1> QED BY <1>1, <1>2, <1>3, <1>6, <1>7, <1>8, <1>9 DEF tm, ed, one, less, ti, eg

(* A step keeps the timers with their clocks.                              *)
LEMMA TimersStep ==
  ASSUME TimersInv, HNext, plan.about = "timers"
  PROVE  /\ AreTimers(mem'.local["ladder"]) /\ mem'.global["delay"] \in Times
         /\ TimersTell(seen', mem'.local["ladder"]["tn"], mem'.local["ladder"]["tf"], mem'.local["ladder"]["tp"])
         /\ scans' = 0 => seen' = Fresh
<1> DEFINE l == mem.local["ladder"]
           k == mem'.local["ladder"]
<1>1. /\ ForcesInv /\ OneLadder /\ scans \in Nat /\ Gives(plan, "delay", Times) /\ mem.global["delay"] \in Times
      /\ IsList /\ IsForces(forced) /\ "delay" \in Owned(Programs[1], "global")
      /\ \A n \in DOMAIN TimerNames :
           n \in Owned(Programs[1], "local") /\ Programs[1].syms[n].fb = TimerNames[n]
      /\ AreTimers(l) /\ TimersTell(seen, l["tn"], l["tf"], l["tp"]) /\ (scans = 0 => seen = Fresh)
  BY TimersOfPlan, MemParts DEF TimersInv, Block
<1>2. /\ plan' = plan /\ scans' \in Nat /\ Next
      /\ (scans' = scans => seen' = seen) /\ (scans' < scans => seen' = Fresh)
      /\ scans' = scans + 1 =>
           seen' = IF Completed
                   THEN Clocks(seen, High("start"), mem'.global["delay"].n, mem'.sys.SYS_SCAN_TIME.n)
                   ELSE seen
  BY <1>1, HistoryStep
<1>3. /\ DOMAIN TimerNames = {"tn", "tf", "tp"}
      /\ TimerNames["tn"] = "TON" /\ TimerNames["tf"] = "TOF" /\ TimerNames["tp"] = "TP"
      /\ \A n \in DOMAIN TimerNames : TimerNames[n] \in Timers /\ TimerNames[n] # "none"
  BY DEF TimerNames, Timers
<1>4. ForcesInv'
  BY <1>1, NextHoldsForces
<1>5. \A n \in DOMAIN TimerNames : Free(n)
  <2>1. \A n \in DOMAIN TimerNames : <<"local", "ladder", n>> \notin DOMAIN forced
    BY <1>1, <1>3, BlocksAreFree
  <2>2. IsForces(forced')
    BY <1>2, <1>4, PlanIsKept DEF ForcesInv, IsForces
  <2>3. \A n \in DOMAIN TimerNames : <<"local", "ladder", n>> \notin DOMAIN forced'
    BY <1>1, <1>3, <2>2, BlocksAreFree
  <2> QED BY <1>1, <2>1, <2>3 DEF Free
<1>6. ASSUME NEW dt \in plan.dts, Scan(dt)
      PROVE  /\ AreTimers(k) /\ mem'.global["delay"] \in Times
             /\ TimersTell(seen', k["tn"], k["tf"], k["tp"])
             /\ scans' = 0 => seen' = Fresh
  <2>1. scans' = scans + 1
    BY <1>6 DEF Scan
  <2>2. scans' # 0
    BY <1>1, <2>1
  <2> QED BY <1>2, <1>6, <2>1, <2>2, TimersAfterScan
<1>7. mem'.global["delay"] \in Times \/ \E dt \in plan.dts : Scan(dt)
  BY <1>1, <1>2, GlobalOfOne
<1>8. CASE Still
  <2>1. scans' = scans /\ \A n \in DOMAIN TimerNames : k[n] = l[n]
    BY <1>5, <1>8 DEF Still
  <2> HIDE DEF k, l
  <2>2. AreTimers(k) /\ TimersTell(seen', k["tn"], k["tf"], k["tp"]) /\ (scans' = 0 => seen' = Fresh)
    BY <1>1, <1>2, <1>3, <2>1 DEF AreTimers
  <2> QED BY <1>6, <1>7, <2>2 DEF k
<1>9. CASE Renewed
  <2>1. scans' = 0 /\ \A n \in DOMAIN TimerNames : k[n] = MakeValue(Programs[1].syms[n])
    BY <1>5, <1>9 DEF Renewed
  <2>2. \A n \in DOMAIN TimerNames : k[n] = NewBlock(TimerNames[n])
    <3>1. \A n \in DOMAIN TimerNames : MakeValue(Programs[1].syms[n]) = NewBlock(Programs[1].syms[n].fb)
      BY <1>1, <1>3, Zenon DEF MakeValue
    <3> QED BY <1>1, <2>1, <3>1
  <2>3. seen' = Fresh
    BY <1>1, <1>2, <2>1
  <2>4. AreTimers(k)
    <3>1. \A n \in DOMAIN TimerNames :
            IsTimer(NewBlock(TimerNames[n])) /\ NewBlock(TimerNames[n]).fb = TimerNames[n]
      BY <1>3, NewTimer
    <3> QED BY <2>2, <3>1 DEF AreTimers
  <2>5. TimersTell(seen', k["tn"], k["tf"], k["tp"])
    BY <1>3, <2>2, <2>3, NewTimersTell
  <2> QED BY <1>6, <1>7, <2>3, <2>4, <2>5
<1> QED BY <1>1, <1>2, <1>6, <1>8, <1>9, StepsOnOne

(* Timers and clocks start together.                                       *)
LEMMA TimersStart ==
  ASSUME HInit, TimersPlanned
  PROVE  TimersInv
<1>1. ForcesInv /\ scans \in Nat /\ scans = 0 /\ seen = Fresh /\ mem = Built(forced) /\ forced = << >>
  BY InitForces DEF HInit, Init
<1> SUFFICES ASSUME plan.about = "timers"
             PROVE  /\ AreTimers(mem.local["ladder"]) /\ mem.global["delay"] \in Times
                    /\ TimersTell(seen, Block("tn"), Block("tf"), Block("tp"))
  BY <1>1 DEF TimersInv
<1> DEFINE l == mem.local["ladder"]
<1>2. /\ OneLadder /\ Gives(plan, "delay", Times) /\ IsList /\ "delay" \in Owned(Programs[1], "global")
      /\ \A n \in DOMAIN TimerNames :
           n \in Owned(Programs[1], "local") /\ Programs[1].syms[n].fb = TimerNames[n]
  BY <1>1, TimersOfPlan, MemParts
<1>3. /\ DOMAIN TimerNames = {"tn", "tf", "tp"}
      /\ TimerNames["tn"] = "TON" /\ TimerNames["tf"] = "TOF" /\ TimerNames["tp"] = "TP"
      /\ \A n \in DOMAIN TimerNames : TimerNames[n] \in Timers /\ TimerNames[n] # "none"
  BY DEF TimerNames, Timers
<1>4. DOMAIN forced = {}
  BY <1>1
<1>5. \A n \in DOMAIN TimerNames : l[n] = NewBlock(TimerNames[n])
  <2>1. \A n \in DOMAIN TimerNames : l[n] = MakeValue(Programs[1].syms[n])
    BY <1>1, <1>2, <1>4, BuiltOnOne
  <2>2. \A n \in DOMAIN TimerNames : MakeValue(Programs[1].syms[n]) = NewBlock(Programs[1].syms[n].fb)
    BY <1>2, <1>3, Zenon DEF MakeValue
  <2> QED BY <1>2, <2>1, <2>2
<1>6. mem.global["delay"] \in Times
  <2>1. mem.global["delay"] = MakeValue(Programs[1].syms["delay"])
    BY <1>1, <1>2, <1>4, BuiltOnOne
  <2> QED BY <1>2, <2>1 DEF Gives, Programs
<1>7. AreTimers(l)
  <2>1. \A n \in DOMAIN TimerNames :
          IsTimer(NewBlock(TimerNames[n])) /\ NewBlock(TimerNames[n]).fb = TimerNames[n]
    BY <1>3, NewTimer
  <2> QED BY <1>5, <2>1 DEF AreTimers
<1>8. TimersTell(seen, l["tn"], l["tf"], l["tp"])
  BY <1>1, <1>3, <1>5, NewTimersTell
<1> QED BY <1>6, <1>7, <1>8 DEF Block

(* On every plan with such a program the timers keep time, for every delay,*)
(* every pattern of the input, every scan time and every mixture of        *)
(* requests, faults and resets (Ton, Tof, Tp, _advance).                   *)
THEOREM TimersKeepTimeAlways == HSpec /\ TimersPlanned => []TimersKeepTime
<1>1. HInit /\ TimersPlanned => TimersInv
  BY TimersStart
<1>2. TimersInv /\ [HNext]_<<vars, seen>> => TimersInv'
  <2> SUFFICES ASSUME TimersInv, [HNext]_<<vars, seen>> PROVE TimersInv'
    OBVIOUS
  <2>1. ForcesInv'
    BY NextHoldsForces DEF TimersInv
  <2>2. CASE UNCHANGED <<vars, seen>>
    <3>1. plan' = plan /\ mem' = mem /\ scans' = scans /\ seen' = seen
      BY <2>2 DEF vars
    <3> QED BY <2>1, <3>1, Zenon DEF TimersInv, TimersPlanned, Block
  <2>3. CASE HNext
    <3>1. plan' = plan /\ scans' \in Nat
      BY <2>3, HistoryStep DEF TimersInv
    <3>2. TimersPlanned'
      BY <3>1, Zenon DEF TimersInv, TimersPlanned
    <3>3. plan.about = "timers" =>
            /\ AreTimers(mem'.local["ladder"]) /\ mem'.global["delay"] \in Times
            /\ TimersTell(seen', mem'.local["ladder"]["tn"], mem'.local["ladder"]["tf"], mem'.local["ladder"]["tp"])
            /\ scans' = 0 => seen' = Fresh
      BY <2>3, TimersStep
    <3> QED BY <2>1, <3>1, <3>2, <3>3, Zenon DEF TimersInv, Block
  <2> QED BY <2>2, <2>3
<1>3. TimersInv => TimersKeepTime
  BY ToldIsShown DEF TimersInv, TimersKeepTime
<1> QED BY <1>1, <1>2, <1>3, PTL DEF HSpec

-----------------------------------------------------------------------------
(* Edges and counters.                                                     *)

(* An integer in range does not wrap.                                      *)
LEMMA WrapInRange ==
  ASSUME NEW i \in IntMin .. IntMax
  PROVE  Wrap(i) = i
<1> DEFINE m == 2 * (IntMax + 1)
           x == i - IntMin
<1>1. IntMax \in Nat \ {0} /\ IntMin = -IntMax - 1 /\ IntMin \in Int
  BY IntMaxIsPositive DEF IntMin
<1>2. m \in Nat \ {0} /\ x \in 0 .. m - 1 /\ i \in Int
  BY <1>1
<1> HIDE DEF m, x
<1>3. x % m = x
  BY <1>2
<1>4. x + IntMin = i
  BY <1>1, <1>2 DEF x
<1> QED BY <1>3, <1>4 DEF Wrap, m, x

CounterParts == {"fb", "CU", "R", "PV", "Q", "CV", "prev", "up", "down", "running"}

CountTells(s, b) ==
  /\ Over(b, CounterParts) /\ b.fb = "CTU" /\ b.up = s.was
  /\ b.CV = IntV(s.counted) /\ Truth(b.Q) = (s.counted >= 2)

(* What the inputs call for, counted in at most m scans.                   *)
AreCounts(s, m) ==
  /\ Over(s, ClockParts) /\ s.was \in BOOLEAN
  /\ s.rises \in 0 .. m /\ s.falls \in 0 .. m /\ s.counted \in 0 .. m

(* The counts after one more scan.                                         *)
LEMMA CountsGoOn ==
  ASSUME NEW s, NEW m \in Nat, AreCounts(s, m), NEW in \in BOOLEAN, NEW power \in BOOLEAN, NEW clear \in BOOLEAN
  PROVE  LET c == Counts(s, in, power, clear)
             rose == in /\ ~s.was
             fell == ~in /\ s.was
         IN  /\ AreCounts(c, m + 1) /\ c.was = in
             /\ c.rises = s.rises + (IF rose /\ power THEN 1 ELSE 0)
             /\ c.falls = s.falls + (IF fell /\ power THEN 1 ELSE 0)
             /\ c.counted = IF clear THEN 0 ELSE IF rose THEN s.counted + 1 ELSE s.counted
<1> DEFINE rose == in /\ ~s.was
           fell == ~in /\ s.was
           i == s.rises + (IF rose /\ power THEN 1 ELSE 0)
           j == s.falls + (IF fell /\ power THEN 1 ELSE 0)
           k == IF clear THEN 0 ELSE IF rose THEN s.counted + 1 ELSE s.counted
           c == Counts(s, in, power, clear)
<1>0. Over(s, ClockParts) /\ s.was \in BOOLEAN /\ s.rises \in 0 .. m /\ s.falls \in 0 .. m /\ s.counted \in 0 .. m
  BY DEF AreCounts
<1>1. i \in 0 .. m + 1 /\ j \in 0 .. m + 1 /\ k \in 0 .. m + 1
  BY <1>0
<1>2. c = [s EXCEPT !.was = in, !.rises = i, !.falls = j, !.counted = k]
  <2>1. c = [s EXCEPT !.was = in,
                      !.rises = @ + (IF rose /\ power THEN 1 ELSE 0),
                      !.falls = @ + (IF fell /\ power THEN 1 ELSE 0),
                      !.counted = IF clear THEN 0 ELSE IF rose THEN @ + 1 ELSE @]
    BY Zenon DEF Counts
  <2> DEFINE x == IF rose /\ power THEN 1 ELSE 0
             y == IF fell /\ power THEN 1 ELSE 0
  <2> HIDE DEF c, rose, fell, x, y
  <2>2. c = [s EXCEPT !.was = in, !.rises = @ + x, !.falls = @ + y,
                      !.counted = IF clear THEN 0 ELSE IF rose THEN @ + 1 ELSE @]
    BY <2>1 DEF x, y
  <2>3. i = s.rises + x /\ j = s.falls + y
    BY DEF x, y
  <2> HIDE DEF i, j
  <2> QED BY <1>0, <2>2, <2>3 DEF Over, ClockParts
<1> HIDE DEF c, i, j, k, rose, fell
<1>3. Over(c, ClockParts) /\ c.was = in /\ c.rises = i /\ c.falls = j /\ c.counted = k
  BY <1>0, <1>2 DEF Over, ClockParts
<1>4. AreCounts(c, m + 1)
  BY <1>1, <1>3 DEF AreCounts
<1> QED BY <1>3, <1>4 DEF c, i, j, k, rose, fell

(* One call of an up-counter with preset 2, short of its end.              *)
SetCounter(b, in, clear) == [b EXCEPT !.CU = BoolV(in), !.R = BoolV(clear), !.PV = IntV(2)]

(* A counter goes on telling its count (Ctu.execute).                      *)
LEMMA CountUpTells ==
  ASSUME NEW s, NEW m \in Nat, AreCounts(s, m), m < IntMax, NEW b, CountTells(s, b),
         NEW in \in BOOLEAN, NEW power \in BOOLEAN, NEW clear \in BOOLEAN, NEW dt
  PROVE  CountTells(Counts(s, in, power, clear), Execute(SetCounter(b, in, clear), dt))
<1> DEFINE k == IF clear THEN 0 ELSE IF in /\ ~s.was THEN s.counted + 1 ELSE s.counted
           d == SetCounter(b, in, clear)
           x == BoolV(in)
           y == BoolV(clear)
           z == IntV(2)
           e == CountUp(d)
<1>0. /\ Over(b, CounterParts) /\ b.fb = "CTU" /\ b.up = s.was /\ b.CV = IntV(s.counted)
      /\ s.was \in BOOLEAN /\ s.counted \in 0 .. m
  BY DEF CountTells, AreCounts
<1>1. Truth(x) = in /\ Truth(y) = clear /\ z.n = 2
  BY TruthOfBool DEF IntV
<1>2. d = [b EXCEPT !.CU = x, !.R = y, !.PV = z]
  BY DEF SetCounter
<1> HIDE DEF d, x, y, z
<1>3. /\ Over(d, CounterParts) /\ d.fb = "CTU" /\ d.up = s.was /\ d.CV = IntV(s.counted)
      /\ d.CU = x /\ d.R = y /\ d.PV = z
  BY <1>0, <1>2 DEF Over, CounterParts
<1>4. Execute(d, dt) = e
  BY <1>3 DEF Execute
<1> DEFINE cv == CASE Truth(d.R) -> IntV(0)
                   [] ~Truth(d.R) /\ Truth(d.CU) /\ ~d.up -> Up(d.CV)
                   [] OTHER -> d.CV
<1>5. cv = IntV(k)
  <2>1. Up(IntV(s.counted)) = IntV(s.counted + 1)
    <3>1. s.counted < IntMax
      BY <1>0, IntMaxIsPositive
    <3> QED BY <3>1 DEF Up, IntV
  <2>2. cv = CASE clear -> IntV(0)
               [] ~clear /\ in /\ ~s.was -> IntV(s.counted + 1)
               [] OTHER -> IntV(s.counted)
    BY <1>1, <1>3, <2>1, Zenon
  <2> QED BY <2>2, Zenon
<1>6. e = [d EXCEPT !.CV = cv, !.Q = BoolV(cv.n >= d.PV.n), !.up = Truth(d.CU)]
  BY Zenon DEF CountUp
<1> HIDE DEF cv, k, e
<1> DEFINE q == BoolV(k >= 2)
           w == IntV(k)
<1>7. cv.n = k
  BY <1>5 DEF IntV
<1>8. e = [d EXCEPT !.CV = w, !.Q = q, !.up = in]
  BY <1>1, <1>3, <1>5, <1>6, <1>7
<1>9. Truth(q) = (k >= 2)
  <2>1. (k >= 2) \in BOOLEAN
    OBVIOUS
  <2> QED BY <2>1, TruthOfBool
<1> HIDE DEF q, w
<1>10. Over(e, CounterParts) /\ e.fb = "CTU" /\ e.up = in /\ e.CV = w /\ e.Q = q
  BY <1>3, <1>8 DEF Over, CounterParts
<1>11. Counts(s, in, power, clear).was = in /\ Counts(s, in, power, clear).counted = k
  BY CountsGoOn DEF k
<1> QED BY <1>4, <1>9, <1>10, <1>11 DEF CountTells, d, w

(* A new counter tells the count before the first scan.                    *)
LEMMA NewCounterTells == AreCounts(Fresh, 0) /\ CountTells(Fresh, NewBlock("CTU"))
<1> DEFINE b == NewBlock("CTU")
<1>1. FieldsOf("CTU") \cup {"fb", "prev", "up", "down", "running"} = CounterParts
  <2>1. InputsOf("CTU") = <<"CU", "R", "PV">> /\ OutputsOf("CTU") = <<"Q", "CV">>
    BY DEF InputsOf, OutputsOf, Timers, Triggers, Latches
  <2>2. Elements(<<"CU", "R", "PV">>) = {"CU", "R", "PV"} /\ Elements(<<"Q", "CV">>) = {"Q", "CV"}
    BY DEF Elements
  <2> QED BY <2>1, <2>2 DEF FieldsOf, CounterParts
<1>2. b = [f \in CounterParts |->
             CASE f = "fb"   -> "CTU"
               [] f = "prev" -> "CTU" = "F_TRIG"
               [] f \in {"up", "down", "running"} -> FALSE
               [] OTHER      -> DefaultValue(FieldType(f))]
  BY <1>1, Zenon DEF NewBlock
<1>3. /\ Over(b, CounterParts) /\ b.fb = "CTU" /\ b.up = FALSE
      /\ b.CV = DefaultValue(FieldType("CV")) /\ b.Q = DefaultValue(FieldType("Q"))
  BY <1>2 DEF Over, CounterParts
<1>4. DefaultValue(FieldType("CV")) = IntV(0) /\ DefaultValue(FieldType("Q")) = BoolV(FALSE)
  BY DEF DefaultValue, FieldType, IntTypes
<1>5. Truth(BoolV(FALSE)) = FALSE
  BY TruthOfBool
<1>6. Over(Fresh, ClockParts) /\ Fresh.was = FALSE /\ Fresh.rises = 0 /\ Fresh.falls = 0 /\ Fresh.counted = 0
  BY DEF Fresh, Over, ClockParts
<1> HIDE DEF b
<1>7. AreCounts(Fresh, 0)
  <2>1. 0 \in 0 .. 0 /\ FALSE \in BOOLEAN
    OBVIOUS
  <2> QED BY <1>6, <2>1, Zenon DEF AreCounts
<1>8. CountTells(Fresh, b)
  <2>1. (0 >= 2) = FALSE
    OBVIOUS
  <2>2. b.CV = IntV(Fresh.counted) /\ Truth(b.Q) = (Fresh.counted >= 2)
    BY <1>3, <1>4, <1>5, <1>6, <2>1, Zenon
  <2> QED BY <1>3, <1>6, <2>2, Zenon DEF CountTells
<1> QED BY <1>7, <1>8 DEF b

(* The counts of the program, and what it does to them in a scan: to n and *)
(* f when an edge contact passes power, to the memories of the contacts    *)
(* always, and to the counter by calling it with start.                    *)
RiseMemory == "#edge:Pstart"
FallMemory == "#edge:Nstart"
EdgeNames == {"n", "f", RiseMemory, FallMemory, "c"}

EdgesTell(s, l) ==
  /\ l["n"] = IntV(s.rises) /\ l["f"] = IntV(s.falls)
  /\ l[RiseMemory] = BoolV(s.was) /\ l[FallMemory] = BoolV(s.was)
  /\ CountTells(s, l["c"])

CountedOnce(l, in, power, clear, dt) ==
  [n |-> IF power /\ in /\ ~Truth(l[RiseMemory]) THEN Kernel("wrap_add", l["n"], IntV(1)) ELSE l["n"],
   f |-> IF power /\ ~in /\ Truth(l[FallMemory]) THEN Kernel("wrap_add", l["f"], IntV(1)) ELSE l["f"],
   edge |-> BoolV(in),
   c |-> Execute(SetCounter(l["c"], in, clear), dt)]

CallsEdges(p) ==
  \A c : /\ IsContext(c, p) /\ RunBody(c, p).sig \in {"go", "return"}
         /\ \E s : AreCounts(s, IntMax) /\ EdgesTell(s, c.store.local)
         => LET l == RunBody(c, p).ctx.store.local
                i == c.store.input
                o == CountedOnce(c.store.local, Truth(i["start"]), Truth(i["enable"]), Truth(i["clear"]), c.dt)
            IN  /\ l["n"] = o.n /\ l["f"] = o.f /\ l["c"] = o.c
                /\ l[RiseMemory] = o.edge /\ l[FallMemory] = o.edge

EdgeProgram(p) ==
  /\ p.name = "ladder" /\ CallsEdges(p) /\ EdgeNames \subseteq Owned(p, "local")
  /\ MakeValue(p.syms["n"]) = IntV(0) /\ MakeValue(p.syms["f"]) = IntV(0)
  /\ MakeValue(p.syms[RiseMemory]) = BoolV(FALSE) /\ MakeValue(p.syms[FallMemory]) = BoolV(FALSE)
  /\ p.syms["c"].fb = "CTU"

(* A plan with this one program, in which none of its counts is forced and *)
(* there are no more scans than an integer can count.                      *)
EdgePlan(q) ==
  /\ Len(q.programs) = 1 /\ EdgeProgram(q.programs[1])
  /\ q.scans \in 0 .. IntMax
  /\ \A n \in EdgeNames : <<"local", "ladder", n>> \notin DOMAIN q.forces
EdgesPlanned == plan.about = "edges" => EdgePlan(plan)

EdgesInv ==
  /\ ForcesInv /\ EdgesPlanned /\ scans \in Nat /\ DOMAIN forced \subseteq DOMAIN plan.forces
  /\ plan.about = "edges" =>
       /\ EdgesTell(seen, mem.local["ladder"]) /\ AreCounts(seen, scans) /\ scans <= plan.scans
       /\ scans = 0 => seen = Fresh

(* What the plan says of the edges.                                        *)
LEMMA EdgesOfPlan ==
  ASSUME EdgesPlanned, plan.about = "edges"
  PROVE  /\ OneLadder /\ EdgeProgram(Programs[1]) /\ plan.scans \in 0 .. IntMax
         /\ EdgeNames \subseteq Owned(Programs[1], "local")
         /\ \A n \in EdgeNames : <<"local", "ladder", n>> \notin DOMAIN plan.forces
BY DEF EdgesPlanned, EdgePlan, EdgeProgram, OneLadder, Programs

(* A count below the greatest integer grows by one.                        *)
LEMMA OneMore ==
  ASSUME NEW i \in Nat, i < IntMax
  PROVE  Kernel("wrap_add", IntV(i), IntV(1)) = IntV(i + 1)
<1>1. i + 1 \in IntMin .. IntMax
  BY IntMaxIsPositive DEF IntMin
<1>2. Wrap(i + 1) = i + 1
  BY <1>1, WrapInRange
<1>3. Kernel("wrap_add", IntV(i), IntV(1)) = IntV(Wrap(i + 1))
  BY DEF Kernel, IntV
<1> QED BY <1>2, <1>3

(* What one completed scan does to the counts.                             *)
LEMMA CountedOnceTells ==
  ASSUME NEW s, NEW m \in Nat, m < IntMax, AreCounts(s, m), NEW l, EdgesTell(s, l), NEW k, NEW dt,
         NEW in \in BOOLEAN, NEW power \in BOOLEAN, NEW clear \in BOOLEAN,
         k["n"] = CountedOnce(l, in, power, clear, dt).n, k["f"] = CountedOnce(l, in, power, clear, dt).f,
         k["c"] = CountedOnce(l, in, power, clear, dt).c,
         k[RiseMemory] = CountedOnce(l, in, power, clear, dt).edge,
         k[FallMemory] = CountedOnce(l, in, power, clear, dt).edge
  PROVE  EdgesTell(Counts(s, in, power, clear), k)
<1> DEFINE t == Counts(s, in, power, clear)
<1>1. /\ l["n"] = IntV(s.rises) /\ l["f"] = IntV(s.falls)
      /\ l[RiseMemory] = BoolV(s.was) /\ l[FallMemory] = BoolV(s.was) /\ CountTells(s, l["c"])
  BY DEF EdgesTell
<1>2. s.was \in BOOLEAN /\ s.rises \in 0 .. m /\ s.falls \in 0 .. m
  BY DEF AreCounts
<1>3. /\ k["n"] = IF power /\ in /\ ~Truth(l[RiseMemory]) THEN Kernel("wrap_add", l["n"], IntV(1)) ELSE l["n"]
      /\ k["f"] = IF power /\ ~in /\ Truth(l[FallMemory]) THEN Kernel("wrap_add", l["f"], IntV(1)) ELSE l["f"]
      /\ k["c"] = Execute(SetCounter(l["c"], in, clear), dt)
      /\ k[RiseMemory] = BoolV(in) /\ k[FallMemory] = BoolV(in)
  BY DEF CountedOnce
<1>4. Truth(l[RiseMemory]) = s.was /\ Truth(l[FallMemory]) = s.was
  BY <1>1, <1>2, TruthOfBool
<1>5. /\ Kernel("wrap_add", l["n"], IntV(1)) = IntV(s.rises + 1)
      /\ Kernel("wrap_add", l["f"], IntV(1)) = IntV(s.falls + 1)
  <2>1. s.rises \in Nat /\ s.rises < IntMax /\ s.falls \in Nat /\ s.falls < IntMax
    BY <1>2, IntMaxIsPositive
  <2> QED BY <1>1, <2>1, OneMore
<1>6. /\ t.was = in
      /\ t.rises = s.rises + (IF (in /\ ~s.was) /\ power THEN 1 ELSE 0)
      /\ t.falls = s.falls + (IF (~in /\ s.was) /\ power THEN 1 ELSE 0)
  BY CountsGoOn
<1>7. CountTells(t, k["c"])
  BY <1>1, <1>3, CountUpTells
<1> HIDE DEF t
<1>8. s.rises + 0 = s.rises /\ s.falls + 0 = s.falls
  BY <1>2
<1>9. k["n"] = IntV(t.rises)
  BY <1>1, <1>3, <1>4, <1>5, <1>6, <1>8, Zenon
<1>10. k["f"] = IntV(t.falls)
  BY <1>1, <1>3, <1>4, <1>5, <1>6, <1>8, Zenon
<1> QED BY <1>3, <1>6, <1>7, <1>9, <1>10 DEF EdgesTell, t

(* A scan counts every edge once.                                          *)
LEMMA EdgesAfterScan ==
  ASSUME EdgesInv, plan.about = "edges", NEW dt, Scan(dt),
         seen' = IF Completed THEN Counts(seen, High("start"), High("enable"), High("clear")) ELSE seen
  PROVE  EdgesTell(seen', mem'.local["ladder"]) /\ AreCounts(seen', scans + 1) /\ scans + 1 <= plan.scans
<1> DEFINE p == Programs[1]
           c == LadderContext(dt)
           r == RunBody(c, p)
           l == mem.local["ladder"]
           k == mem'.local["ladder"]
<1>1. /\ ForcesInv /\ OneLadder /\ EdgeProgram(p) /\ EdgeNames \subseteq Owned(p, "local")
      /\ plan.scans \in 0 .. IntMax /\ scans \in Nat /\ scans < plan.scans
      /\ \A n \in EdgeNames : <<"local", "ladder", n>> \notin DOMAIN forced
      /\ EdgesTell(seen, l) /\ AreCounts(seen, scans)
  BY EdgesOfPlan DEF EdgesInv, Scan
<1>2. scans + 1 <= plan.scans /\ scans < IntMax
  BY <1>1, IntMaxIsPositive
<1>3. IsContext(c, p) /\ c.dt = dt /\ c.store.local = l /\ c.store.input = mem.input
  BY <1>1, LadderRunsIn
<1>4. /\ mem'.input = mem.input
      /\ Completed => r.sig \in {"go", "return"}
      /\ \A n \in Owned(p, "local") : <<"local", "ladder", n>> \notin DOMAIN forced =>
           k[n] = IF Completed THEN r.ctx.store.local[n] ELSE l[n]
  BY <1>1, LadderScan
<1> HIDE DEF p, c, r, l, k
<1>5. \A n \in EdgeNames : k[n] = IF Completed THEN r.ctx.store.local[n] ELSE l[n]
  BY <1>1, <1>4
<1>6. "n" \in EdgeNames /\ "f" \in EdgeNames /\ "c" \in EdgeNames /\ RiseMemory \in EdgeNames /\ FallMemory \in EdgeNames
  BY DEF EdgeNames
<1>7. CASE ~Completed
  <2>1. EdgesTell(seen, k)
    BY <1>1, <1>5, <1>6, <1>7 DEF EdgesTell
  <2>2. AreCounts(seen, scans + 1)
    BY <1>1 DEF AreCounts
  <2> QED BY <1>2, <1>7, <2>1, <2>2 DEF k
<1>8. CASE Completed
  <2> DEFINE i == mem.input
             in == Truth(i["start"])
             power == Truth(i["enable"])
             clear == Truth(i["clear"])
             o == CountedOnce(l, in, power, clear, dt)
             a == r.ctx.store.local
  <2>1. a["n"] = o.n /\ a["f"] = o.f /\ a["c"] = o.c /\ a[RiseMemory] = o.edge /\ a[FallMemory] = o.edge
    <3>1. CallsEdges(p)
      BY <1>1 DEF EdgeProgram
    <3>2. AreCounts(seen, IntMax)
      BY <1>1, IntMaxIsPositive DEF AreCounts
    <3>3. \E s : AreCounts(s, IntMax) /\ EdgesTell(s, c.store.local)
      BY <1>1, <1>3, <3>2
    <3>4. r.sig \in {"go", "return"}
      BY <1>4, <1>8
    <3> HIDE DEF o, a
    <3>5. LET m == RunBody(c, p).ctx.store.local
              j == c.store.input
              w == CountedOnce(c.store.local, Truth(j["start"]), Truth(j["enable"]), Truth(j["clear"]), c.dt)
          IN  /\ m["n"] = w.n /\ m["f"] = w.f /\ m["c"] = w.c
              /\ m[RiseMemory] = w.edge /\ m[FallMemory] = w.edge
      BY <1>3, <3>1, <3>3, <3>4, Zenon DEF CallsEdges, r
    <3> QED BY <1>3, <3>5 DEF o, a, r
  <2>2. in \in BOOLEAN /\ power \in BOOLEAN /\ clear \in BOOLEAN
    BY DEF Truth
  <2>3. seen' = Counts(seen, in, power, clear)
    <3>1. High("start") = in /\ High("enable") = power /\ High("clear") = clear
      BY <1>4 DEF High
    <3> HIDE DEF in, power, clear
    <3> QED BY <1>8, <3>1
  <2> HIDE DEF in, power, clear
  <2>4. k["n"] = o.n /\ k["f"] = o.f /\ k["c"] = o.c /\ k[RiseMemory] = o.edge /\ k[FallMemory] = o.edge
    <3> HIDE DEF o
    <3> QED BY <1>5, <1>6, <1>8, <2>1
  <2>5. EdgesTell(Counts(seen, in, power, clear), k)
    BY <1>1, <1>2, <2>2, <2>4, CountedOnceTells
  <2>6. AreCounts(Counts(seen, in, power, clear), scans + 1)
    BY <1>1, <2>2, CountsGoOn
  <2> QED BY <1>2, <2>3, <2>5, <2>6 DEF k
<1> QED BY <1>7, <1>8

(* Only what the plan forces is ever forced.                               *)
LEMMA ForcesArePlanned ==
  ASSUME DOMAIN forced \subseteq DOMAIN plan.forces, Next
  PROVE  DOMAIN forced' \subseteq DOMAIN plan.forces
<1>1. ASSUME NEW k \in DOMAIN plan.forces, NEW v, ForceValue(k, v) PROVE DOMAIN forced' \subseteq DOMAIN plan.forces
  <2>1. forced' = [x \in DOMAIN forced \cup {k} |-> IF x = k THEN Coerce(v, ForceType(k)) ELSE forced[x]]
    BY <1>1, Zenon DEF ForceValue
  <2> QED BY <2>1
<1>2. ASSUME NEW k, UnforceValue(k) PROVE DOMAIN forced' \subseteq DOMAIN plan.forces
  <2>1. forced' = [x \in DOMAIN forced \ {k} |-> forced[x]]
    BY <1>2 DEF UnforceValue
  <2> QED BY <2>1
<1>3. CASE forced' = forced
  BY <1>3
<1>4. \/ forced' = forced \/ \E k : UnforceValue(k)
      \/ \E k \in DOMAIN plan.forces : \E v : ForceValue(k, v)
  BY Zenon DEF Next, WriteInputs, WriteGlobals, SetProgramEnabled, ClearFaults, SetAbort, Reset, Scan
<1> QED BY <1>1, <1>2, <1>3, <1>4

(* A step keeps the counters with the counts.                              *)
LEMMA EdgesStep ==
  ASSUME EdgesInv, HNext, plan.about = "edges"
  PROVE  /\ EdgesTell(seen', mem'.local["ladder"]) /\ AreCounts(seen', scans') /\ scans' <= plan.scans
         /\ scans' = 0 => seen' = Fresh
<1> DEFINE l == mem.local["ladder"]
           k == mem'.local["ladder"]
<1>1. /\ ForcesInv /\ OneLadder /\ scans \in Nat /\ EdgeProgram(Programs[1])
      /\ IsList /\ IsForces(forced) /\ EdgeNames \subseteq Owned(Programs[1], "local")
      /\ DOMAIN forced \subseteq DOMAIN plan.forces /\ plan.scans \in 0 .. IntMax
      /\ \A n \in EdgeNames : <<"local", "ladder", n>> \notin DOMAIN plan.forces
      /\ EdgesTell(seen, l) /\ AreCounts(seen, scans) /\ scans <= plan.scans /\ (scans = 0 => seen = Fresh)
  BY EdgesOfPlan, MemParts DEF EdgesInv
<1>2. /\ scans' \in Nat /\ Next
      /\ (scans' = scans => seen' = seen) /\ (scans' < scans => seen' = Fresh)
      /\ scans' = scans + 1 =>
           seen' = IF Completed THEN Counts(seen, High("start"), High("enable"), High("clear")) ELSE seen
  BY <1>1, HistoryStep
<1>3. \A n \in EdgeNames : Free(n)
  <2>1. DOMAIN forced' \subseteq DOMAIN plan.forces
    BY <1>1, <1>2, ForcesArePlanned
  <2> QED BY <1>1, <2>1 DEF Free
<1>4. "n" \in EdgeNames /\ "f" \in EdgeNames /\ "c" \in EdgeNames /\ RiseMemory \in EdgeNames /\ FallMemory \in EdgeNames
  BY DEF EdgeNames
<1>5. CASE Still
  <2>1. scans' = scans /\ \A n \in EdgeNames : k[n] = l[n]
    BY <1>3, <1>5 DEF Still
  <2> HIDE DEF k, l
  <2>2. EdgesTell(seen', k)
    BY <1>1, <1>2, <1>4, <2>1 DEF EdgesTell
  <2> QED BY <1>1, <1>2, <2>1, <2>2 DEF k
<1>6. CASE Renewed
  <2>1. scans' = 0 /\ \A n \in EdgeNames : k[n] = MakeValue(Programs[1].syms[n])
    BY <1>3, <1>6 DEF Renewed
  <2>2. seen' = Fresh
    BY <1>1, <1>2, <2>1
  <2> HIDE DEF k
  <2>3. EdgesTell(Fresh, k)
    <3>1. Fresh.rises = 0 /\ Fresh.falls = 0 /\ Fresh.was = FALSE
      BY DEF Fresh
    <3>2. MakeValue(Programs[1].syms["c"]) = NewBlock("CTU")
      <4>1. Programs[1].syms["c"].fb = "CTU" /\ "CTU" # "none"
        BY <1>1 DEF EdgeProgram
      <4> QED BY <4>1, Zenon DEF MakeValue
    <3>3. CountTells(Fresh, k["c"])
      BY <1>4, <2>1, <3>2, NewCounterTells
    <3> QED BY <1>1, <1>4, <2>1, <3>1, <3>3 DEF EdgesTell, EdgeProgram
  <2> QED BY <1>1, <2>1, <2>2, <2>3, NewCounterTells DEF k
<1>7. ASSUME NEW dt \in plan.dts, Scan(dt)
      PROVE  /\ EdgesTell(seen', k) /\ AreCounts(seen', scans') /\ scans' <= plan.scans
             /\ scans' = 0 => seen' = Fresh
  <2>1. scans' = scans + 1
    BY <1>7 DEF Scan
  <2>2. scans' # 0
    BY <1>1, <2>1
  <2> QED BY <1>2, <1>7, <2>1, <2>2, EdgesAfterScan
<1> QED BY <1>1, <1>2, <1>5, <1>6, <1>7, StepsOnOne

(* Counters and counts start together.                                     *)
LEMMA EdgesStart ==
  ASSUME HInit, EdgesPlanned
  PROVE  EdgesInv
<1>1. ForcesInv /\ scans = 0 /\ seen = Fresh /\ mem = Built(forced) /\ forced = << >>
  BY InitForces DEF HInit, Init
<1>2. DOMAIN forced = {}
  BY <1>1
<1> SUFFICES ASSUME plan.about = "edges"
             PROVE  EdgesTell(seen, mem.local["ladder"]) /\ AreCounts(seen, scans) /\ scans <= plan.scans
  BY <1>1, <1>2 DEF EdgesInv
<1> DEFINE l == mem.local["ladder"]
           p == Programs[1]
<1>3. OneLadder /\ IsList /\ EdgeProgram(p) /\ EdgeNames \subseteq Owned(p, "local") /\ plan.scans \in 0 .. IntMax
  BY <1>1, EdgesOfPlan, MemParts
<1>4. \A n \in EdgeNames : l[n] = MakeValue(p.syms[n])
  BY <1>1, <1>2, <1>3, BuiltOnOne
<1>5. "n" \in EdgeNames /\ "f" \in EdgeNames /\ "c" \in EdgeNames /\ RiseMemory \in EdgeNames /\ FallMemory \in EdgeNames
  BY DEF EdgeNames
<1>6. MakeValue(p.syms["c"]) = NewBlock("CTU")
  <2>1. p.syms["c"].fb = "CTU" /\ "CTU" # "none"
    BY <1>3 DEF EdgeProgram
  <2> HIDE DEF p
  <2> QED BY <2>1, Zenon DEF MakeValue
<1> HIDE DEF l, p
<1>7. EdgesTell(Fresh, l)
  <2>1. Fresh.rises = 0 /\ Fresh.falls = 0 /\ Fresh.was = FALSE
    BY DEF Fresh
  <2>2. CountTells(Fresh, l["c"])
    BY <1>4, <1>5, <1>6, NewCounterTells
  <2> QED BY <1>3, <1>4, <1>5, <2>1, <2>2 DEF EdgesTell, EdgeProgram
<1> QED BY <1>1, <1>3, <1>7, NewCounterTells, IntMaxIsPositive DEF l

(* On every plan with such a program every rise and every fall is counted  *)
(* once, and the counter counts every rise since it was cleared, for every *)
(* pattern of the inputs and every mixture of requests, faults, halts and  *)
(* resets (Contact.run, Ctu.execute, _restore).                            *)
THEOREM EdgesCountOnceAlways == HSpec /\ EdgesPlanned => []EdgesCountOnce
<1>1. HInit /\ EdgesPlanned => EdgesInv
  BY EdgesStart
<1>2. EdgesInv /\ [HNext]_<<vars, seen>> => EdgesInv'
  <2> SUFFICES ASSUME EdgesInv, [HNext]_<<vars, seen>> PROVE EdgesInv'
    OBVIOUS
  <2>1. ForcesInv'
    BY NextHoldsForces DEF EdgesInv
  <2>2. CASE UNCHANGED <<vars, seen>>
    <3>1. plan' = plan /\ mem' = mem /\ scans' = scans /\ seen' = seen /\ forced' = forced
      BY <2>2 DEF vars
    <3> QED BY <2>1, <3>1, Zenon DEF EdgesInv, EdgesPlanned
  <2>3. CASE HNext
    <3>1. plan' = plan /\ scans' \in Nat /\ Next
      BY <2>3, HistoryStep DEF EdgesInv
    <3>2. EdgesPlanned' /\ DOMAIN forced' \subseteq DOMAIN plan'.forces
      <4>1. DOMAIN forced' \subseteq DOMAIN plan.forces
        BY <3>1, ForcesArePlanned DEF EdgesInv
      <4>2. EdgesPlanned'
        BY <3>1, Zenon DEF EdgesInv, EdgesPlanned
      <4> QED BY <3>1, <4>1, <4>2
    <3>3. plan.about = "edges" =>
            /\ EdgesTell(seen', mem'.local["ladder"]) /\ AreCounts(seen', scans') /\ scans' <= plan.scans
            /\ scans' = 0 => seen' = Fresh
      BY <2>3, EdgesStep
    <3> QED BY <2>1, <3>1, <3>2, <3>3, Zenon DEF EdgesInv
  <2> QED BY <2>2, <2>3
<1>3. EdgesInv => EdgesCountOnce
  <2> SUFFICES ASSUME EdgesInv, plan.about = "edges"
               PROVE  /\ mem.local["ladder"]["n"] = IntV(seen.rises)
                      /\ mem.local["ladder"]["f"] = IntV(seen.falls)
                      /\ mem.local["ladder"]["c"].CV = IntV(seen.counted)
                      /\ Truth(mem.local["ladder"]["c"].Q) = (seen.counted >= 2)
    BY DEF EdgesCountOnce, Block
  <2> QED BY DEF EdgesInv, EdgesTell, CountTells
<1> QED BY <1>1, <1>2, <1>3, PTL DEF HSpec

-----------------------------------------------------------------------------
(* Numbers: what the kernels keep at every width of the integers.          *)

(* The integers of a width.                                                *)
LEMMA Widths == IntMax \in Nat \ {0} /\ IntMin = -IntMax - 1 /\ IntMin \in Int
BY IntMaxIsPositive DEF IntMin

(* Whatever is computed wraps into the integers of the width.              *)
LEMMA WrapIsInt ==
  ASSUME NEW i \in Int
  PROVE  Wrap(i) \in IntMin .. IntMax
<1> DEFINE m == 2 * (IntMax + 1)
           x == i - IntMin
<1>1. m \in Nat \ {0} /\ x \in Int /\ IntMin \in Int /\ m - 1 + IntMin = IntMax
  BY Widths
<1>2. Wrap(i) = (x % m) + IntMin
  BY DEF Wrap
<1> HIDE DEF m, x
<1>3. x % m \in 0 .. m - 1
  BY <1>1
<1> QED BY <1>1, <1>2, <1>3, Widths

(* The least integer is its own opposite.                                  *)
LEMMA WrapOfMax == Wrap(IntMax + 1) = IntMin
<1> DEFINE m == 2 * (IntMax + 1)
<1>1. m \in Nat \ {0} /\ (IntMax + 1) - IntMin = m /\ IntMin \in Int
  BY Widths
<1>2. Wrap(IntMax + 1) = (((IntMax + 1) - IntMin) % m) + IntMin
  BY DEF Wrap
<1> HIDE DEF m
<1>3. m % m = 0
  BY <1>1
<1>4. Wrap(IntMax + 1) = (m % m) + IntMin
  BY <1>1, <1>2, Zenon
<1>5. Wrap(IntMax + 1) = 0 + IntMin
  BY <1>3, <1>4, Zenon
<1> QED BY <1>1, <1>5

(* Quotient and remainder of natural numbers.                              *)
LEMMA Divide ==
  ASSUME NEW a \in Nat, NEW b \in Nat \ {0}
  PROVE  /\ a \div b \in Nat /\ a % b \in 0 .. b - 1
         /\ b * (a \div b) + (a % b) = a
         /\ a \div b <= a
         /\ b # 1 /\ a # 0 => a \div b < a
<1> DEFINE q == a \div b
           r == a % b
<1>1. q \in Int /\ r \in 0 .. b - 1 /\ b * q + r = a
  OBVIOUS
<1> HIDE DEF q, r
<1>2. q \in Nat
  <2>1. SUFFICES ASSUME q <= -1 PROVE FALSE
    BY <1>1
  <2>2. b * q <= -b
    BY <1>1, <2>1
  <2> QED BY <1>1, <2>2
<1>3. q <= a
  <2>1. b * q >= q
    BY <1>2
  <2> QED BY <1>1, <1>2, <2>1
<1>4. b # 1 /\ a # 0 => q < a
  <2> SUFFICES ASSUME b >= 2, a >= 1 PROVE q < a
    OBVIOUS
  <2>1. b * q >= 2 * q
    BY <1>2
  <2>2. 2 * q <= a
    BY <1>1, <1>2, <2>1
  <2> QED BY <1>2, <2>2
<1>5. a \div b = q /\ (a % b) = r
  BY Zenon DEF q, r
<1> QED BY <1>1, <1>2, <1>3, <1>4, <1>5

(* A quotient and its remainder belong together: the remainder is smaller  *)
(* than the divisor and has the sign of the dividend, and the quotient     *)
(* times the divisor plus the remainder is the dividend, but for the one   *)
(* quotient that does not fit and wraps (idiv and imod).                   *)
THEOREM DivisionIsWhole ==
  ASSUME NEW i \in IntMin .. IntMax, NEW j \in (IntMin .. IntMax) \ {0}
  PROVE  /\ Abs(IMod(i, j)) < Abs(j)
         /\ IMod(i, j) # 0 => (IMod(i, j) < 0 <=> i < 0)
         /\ i = IntMin /\ j = -1 => IDiv(i, j) = IntMin /\ IMod(i, j) = 0
         /\ ~(i = IntMin /\ j = -1) => j * IDiv(i, j) + IMod(i, j) = i
<1> DEFINE a == Abs(i)
           b == Abs(j)
           q == a \div b
           r == a % b
           m == IMod(i, j)
           s == IF (i < 0) # (j < 0) THEN -q ELSE q
<1>0. i \in Int /\ j \in Int /\ j # 0 /\ IntMin <= i /\ i <= IntMax /\ IntMin <= j /\ j <= IntMax
  BY Widths
<1>1. a \in Nat /\ b \in Nat \ {0} /\ a = (IF i < 0 THEN -i ELSE i) /\ b = (IF j < 0 THEN -j ELSE j)
  BY <1>0 DEF Abs
<1>2. m = IF i < 0 THEN -r ELSE r
  BY Zenon DEF IMod
<1>3. IDiv(i, j) = Wrap(s)
  BY Zenon DEF IDiv
<1> HIDE DEF a, b, m
<1>4. q \in Nat /\ r \in 0 .. b - 1 /\ b * q + r = a /\ q <= a /\ (b # 1 /\ a # 0 => q < a)
  BY <1>1, Divide
<1> HIDE DEF q, r
<1>5. /\ i < 0 /\ j < 0 => s = q
      /\ i >= 0 /\ j >= 0 => s = q
      /\ i < 0 /\ j >= 0 => s = -q
      /\ i >= 0 /\ j < 0 => s = -q
  <2>1. CASE i < 0 /\ j < 0
    <3>1. (i < 0) = TRUE /\ (j < 0) = TRUE
      BY <2>1, Zenon
    <3>2. s = q
      BY <3>1, Zenon
    <3> QED BY <1>0, <2>1, <3>2
  <2>2. CASE i >= 0 /\ j >= 0
    <3>0. ~(i < 0) /\ ~(j < 0)
      BY <1>0, <2>2
    <3>1. (i < 0) = FALSE /\ (j < 0) = FALSE
      BY <3>0, <1>0
    <3>2. s = q
      BY <3>1, Zenon
    <3> QED BY <1>0, <2>2, <3>2
  <2>3. CASE i < 0 /\ j >= 0
    <3>0. ~(j < 0)
      BY <1>0, <2>3
    <3>1. (i < 0) = TRUE /\ (j < 0) = FALSE
      BY <2>3, <3>0, <1>0
    <3>2. s = -q
      BY <3>1, Zenon
    <3> QED BY <1>0, <2>3, <3>2
  <2>4. CASE i >= 0 /\ j < 0
    <3>0. ~(i < 0)
      BY <1>0, <2>4
    <3>1. (i < 0) = FALSE /\ (j < 0) = TRUE
      BY <2>4, <3>0, <1>0
    <3>2. s = -q
      BY <3>1, Zenon
    <3> QED BY <1>0, <2>4, <3>2
  <2> QED BY <1>0, <2>1, <2>2, <2>3, <2>4
<1> HIDE DEF s
<1>6. Abs(m) = r
  BY <1>0, <1>2, <1>4 DEF Abs
<1>7. m # 0 => (m < 0 <=> i < 0)
  BY <1>0, <1>2, <1>4
<1>8. ASSUME i = IntMin, j = -1 PROVE Wrap(s) = IntMin /\ m = 0
  <2>0. i < 0 /\ j < 0 /\ -i = IntMax + 1 /\ -j = 1
    <3>1. IntMax \in Nat /\ i = -IntMax - 1 /\ j = -1
      BY <1>8, Widths
    <3>2. i < 0
      BY <3>1
    <3>3. j < 0
      BY <3>1
    <3>4. -i = IntMax + 1
      BY <3>1
    <3>5. -j = 1
      <4>1. j \in Int /\ j <= -1 /\ j >= -1
        BY <3>1
      <4> QED BY <4>1
    <3> QED BY <3>2, <3>3, <3>4, <3>5, Zenon
  <2>1. b = 1 /\ a = IntMax + 1
    BY <1>1, <2>0
  <2>2. 1 * q = q /\ r = 0
    BY <1>4, <2>1
  <2>3. q = IntMax + 1
    BY <1>4, <2>1, <2>2, Widths
  <2>4. s = IntMax + 1
    BY <1>5, <2>0, <2>3
  <2>5. Wrap(s) = IntMin
    BY <2>4, WrapOfMax
  <2>6. m = 0
    <3>1. m = -r
      BY <1>2, <2>0, Zenon
    <3>2. r \in Int /\ r <= 0 /\ r >= 0
      BY <1>4, <2>2
    <3> QED BY <3>1, <3>2
  <2> QED BY <2>5, <2>6
<1>9. ASSUME ~(i = IntMin /\ j = -1) PROVE j * Wrap(s) + m = i
  <2>1. s \in IntMin .. IntMax
    <3>1. q <= IntMax + 1 /\ a <= IntMax + 1
      BY <1>0, <1>1, <1>4, Widths
    <3>2. CASE q <= IntMax
      BY <1>4, <1>5, <3>2, Widths
    <3>3. CASE q = IntMax + 1
      <4>1. a = IntMax + 1 /\ b = 1
        BY <1>1, <1>4, <3>1, <3>3, Widths
      <4>2. i = IntMin /\ j = 1
        BY <1>0, <1>1, <1>9, <4>1, Widths
      <4> QED BY <1>5, <3>3, <4>2, Widths
    <3> QED BY <1>4, <3>1, <3>2, <3>3, Widths
  <2>2. Wrap(s) = s
    BY <2>1, WrapInRange
  <2>3. j * s + m = i
    <3>1. CASE i >= 0 /\ j >= 0
      <4>1. s = q /\ b = j /\ a = i /\ m = r
        BY <1>0, <1>1, <1>2, <1>5, <3>1
      <4> QED BY <1>4, <4>1
    <3>2. CASE i >= 0 /\ j < 0
      <4>1. s = -q /\ b = -j /\ a = i /\ m = r
        BY <1>0, <1>1, <1>2, <1>5, <3>2
      <4>2. j * s = b * q
        <5>1. j = -b /\ (-b) * (-q) = b * q
          BY <1>0, <1>1, <1>4, <4>1
        <5> QED BY <4>1, <5>1
      <4> QED BY <1>4, <4>1, <4>2
    <3>3. CASE i < 0 /\ j < 0
      <4>1. s = q /\ b = -j /\ a = -i /\ m = -r
        BY <1>0, <1>1, <1>2, <1>5, <3>3
      <4>2. j * s = -(b * q)
        <5>1. j = -b /\ (-b) * q = -(b * q)
          BY <1>0, <1>1, <1>4, <4>1
        <5> QED BY <4>1, <5>1
      <4>3. b * q \in Int
        BY <1>1, <1>4
      <4> QED BY <1>0, <1>4, <4>1, <4>2, <4>3
    <3>4. CASE i < 0 /\ j >= 0
      <4>1. s = -q /\ b = j /\ a = -i /\ m = -r
        BY <1>0, <1>1, <1>2, <1>5, <3>4
      <4>2. j * s = -(b * q)
        <5>1. b * (-q) = -(b * q)
          BY <1>0, <1>1, <1>4
        <5> QED BY <4>1, <5>1
      <4>3. b * q \in Int
        BY <1>1, <1>4
      <4> QED BY <1>0, <1>4, <4>1, <4>2, <4>3
    <3> QED BY <1>0, <3>1, <3>2, <3>3, <3>4
  <2> QED BY <2>2, <2>3
<1>10. r < b
  BY <1>1, <1>4
<1> QED BY <1>3, <1>6, <1>7, <1>8, <1>9, <1>10 DEF b, m

-----------------------------------------------------------------------------
(* Values of a type, and blocks of a type.                                 *)

IsInt(v)  == \E i \in IntMin .. IntMax : v = IntV(i)
IsReal(v) == \E n \in Int, d \in Nat \ {0} : v = RealV(n, d)
IsBool(v) == v \in {BoolV(FALSE), BoolV(TRUE)}
IsNumber(v) == v.k \in {"bool", "int", "real"} /\ v.n \in Int /\ v.d \in Nat \ {0}

(* What a variable of type t may hold; a string may be any.                *)
IsValue(v, t) ==
  /\ t = "BOOL" => IsBool(v)
  /\ t \in IntTypes => IsInt(v)
  /\ t \in {"REAL", "TIME"} => IsReal(v)
  /\ t = "STRING" => v = StrV(v.n)

(* A value of a type is typed.                                             *)
LEMMA ValueIsTyped ==
  ASSUME NEW t \in ValueTypes, NEW v, IsValue(v, t)
  PROVE  Typed(v, t)
<1>1. CASE t = "BOOL"
  <2>1. v.k = "bool"
    BY <1>1 DEF IsValue, IsBool, BoolV
  <2>2. KindOf(t) = "bool"
    BY <1>1 DEF KindOf, IntTypes
  <2> QED BY <2>1, <2>2 DEF Typed
<1>2. CASE t \in IntTypes
  <2>1. v.k = "int" /\ v.n \in IntMin .. IntMax
    BY <1>2 DEF IsValue, IsInt, IntV
  <2>2. KindOf(t) = "int"
    BY <1>2 DEF KindOf, IntTypes
  <2> QED BY <2>1, <2>2 DEF Typed
<1>3. CASE t \in {"REAL", "TIME"}
  <2>1. v.k = "real"
    BY <1>3 DEF IsValue, IsReal, RealV
  <2>2. KindOf(t) = "real"
    BY <1>3 DEF KindOf, IntTypes
  <2> QED BY <2>1, <2>2 DEF Typed
<1>4. CASE t = "STRING"
  <2>1. v.k = "str"
    <3>1. StrV(v.n).k = "str" /\ v = StrV(v.n)
      BY <1>4 DEF IsValue, StrV
    <3> QED BY <3>1
  <2>2. KindOf(t) = "str"
    BY <1>4 DEF KindOf, IntTypes
  <2> QED BY <2>1, <2>2 DEF Typed
<1> QED BY <1>1, <1>2, <1>3, <1>4 DEF ValueTypes, NumericTypes

(* int() of a fraction is an integer.                                      *)
LEMMA TruncIsInt ==
  ASSUME NEW v, v.n \in Int, v.d \in Nat \ {0}
  PROVE  Trunc(v) \in Int
<1> DEFINE n == v.n  d == v.d
<1>1. n \in Int /\ d \in Nat \ {0}
  OBVIOUS
<1>2. Trunc(v) = IF n >= 0 THEN n \div d ELSE -((-n) \div d)
  BY DEF Trunc
<1> HIDE DEF n, d
<1>3. n \div d \in Int /\ (-n) \div d \in Int
  BY <1>1
<1> QED BY <1>2, <1>3

(* coerce_value of a number: a value of the type, at every width.          *)
LEMMA CoerceGivesValue ==
  ASSUME NEW t \in ValueTypes, NEW v, IsNumber(v)
  PROVE  IsValue(Coerce(v, t), t)
<1>0. v.k # "str"
  BY DEF IsNumber
<1>1. CASE t = "BOOL"
  <2>1. Coerce(v, t) = BoolV(Truth(v))
    BY <1>0, <1>1 DEF Coerce, IntTypes
  <2>2. IsBool(Coerce(v, t))
    BY <2>1 DEF IsBool, BoolV
  <2> QED BY <1>1, <2>2 DEF IsValue, IntTypes
<1>2. CASE t \in IntTypes
  <2>1. Coerce(v, t) = IntV(Wrap(Trunc(v)))
    BY <1>0, <1>2 DEF Coerce, IntTypes
  <2>2. Wrap(Trunc(v)) \in IntMin .. IntMax
    BY TruncIsInt, WrapIsInt DEF IsNumber
  <2>3. IsInt(Coerce(v, t))
    BY <2>1, <2>2 DEF IsInt
  <2> QED BY <1>2, <2>3 DEF IsValue, IntTypes
<1>3. CASE t \in {"REAL", "TIME"}
  <2>1. Coerce(v, t) = RealV(v.n, v.d)
    BY <1>0, <1>3 DEF Coerce, IntTypes, Float
  <2>2. IsReal(Coerce(v, t))
    BY <2>1 DEF IsReal, IsNumber
  <2> QED BY <1>3, <2>2 DEF IsValue, IntTypes
<1>4. CASE t = "STRING"
  <2>1. Coerce(v, t) = StrV(v.n)
    BY <1>0, <1>4 DEF Coerce, IntTypes
  <2>2. StrV(v.n).n = v.n
    BY DEF StrV
  <2> QED BY <1>4, <2>1, <2>2 DEF IsValue, IntTypes
<1> QED BY <1>1, <1>2, <1>3, <1>4 DEF ValueTypes, NumericTypes

(* Zero is an integer at every width.                                      *)
LEMMA ZeroIsInRange == 0 \in IntMin .. IntMax
BY IntMaxIsPositive DEF IntMin

(* The default of a type is a value of it.                                 *)
LEMMA DefaultIsValue ==
  ASSUME NEW t \in ValueTypes
  PROVE  IsValue(DefaultValue(t), t)
<1>1. CASE t = "BOOL"
  <2>1. DefaultValue(t) = BoolV(FALSE)
    BY <1>1 DEF DefaultValue, IntTypes
  <2> QED BY <1>1, <2>1 DEF IsValue, IsBool, IntTypes
<1>2. CASE t \in IntTypes
  <2>1. DefaultValue(t) = IntV(0)
    BY <1>2 DEF DefaultValue, IntTypes
  <2>2. IsInt(IntV(0))
    BY ZeroIsInRange DEF IsInt
  <2> QED BY <1>2, <2>1, <2>2 DEF IsValue, IntTypes
<1>3. CASE t \in {"REAL", "TIME"}
  <2>1. DefaultValue(t) = RealV(0, 1)
    BY <1>3 DEF DefaultValue, IntTypes
  <2>2. IsReal(RealV(0, 1))
    BY DEF IsReal
  <2> QED BY <1>3, <2>1, <2>2 DEF IsValue, IntTypes
<1>4. CASE t = "STRING"
  <2>1. DefaultValue(t) = StrV(0)
    BY <1>4 DEF DefaultValue, IntTypes
  <2>2. StrV(0).n = 0
    BY DEF StrV
  <2> QED BY <1>4, <2>1, <2>2 DEF IsValue, IntTypes
<1> QED BY <1>1, <1>2, <1>3, <1>4 DEF ValueTypes, NumericTypes

(* What a field of a block may hold: the delay of a timer in a ladder is   *)
(* any number, as it was given (the operand pt of TimerBlock), the others  *)
(* are values of their types.                                              *)
FieldFits(v, f) == IF f = "PT" THEN IsNumber(v) ELSE IsValue(v, FieldType(f))

(* The memory of a block beside its fields.                                *)
Memory == {"prev", "up", "down", "running"}
Slots(t) == FieldsOf(t) \cup {"fb"} \cup Memory
IsBlock(b, t) ==
  /\ Over(b, Slots(t)) /\ b.fb = t
  /\ \A f \in Memory : b[f] \in BOOLEAN
  /\ \A f \in FieldsOf(t) : FieldFits(b[f], f)

(* The fields of every block type.                                         *)
LEMMA Fields ==
  /\ \A t \in Timers : FieldsOf(t) = {"IN", "PT", "Q", "ET"}
  /\ FieldsOf("CTU") = {"CU", "R", "PV", "Q", "CV"}
  /\ FieldsOf("CTD") = {"CD", "LD", "PV", "Q", "CV"}
  /\ FieldsOf("CTUD") = {"CU", "CD", "R", "LD", "PV", "QU", "QD", "CV"}
  /\ \A t \in Triggers : FieldsOf(t) = {"CLK", "Q"}
  /\ FieldsOf("SR") = {"S1", "R", "Q1", "Q"}
  /\ FieldsOf("RS") = {"S", "R1", "Q1", "Q"}
<1> USE DEF Triggers, Latches
<1>1. ASSUME NEW t \in Timers PROVE FieldsOf(t) = {"IN", "PT", "Q", "ET"}
  <2>1. t \notin {"CTU", "CTD", "CTUD", "SR", "RS"} /\ t \notin {"R_TRIG", "F_TRIG"}
    BY DEF Timers
  <2>2. InputsOf(t) = <<"IN", "PT">>
    BY <2>1 DEF InputsOf
  <2>3. OutputsOf(t) = <<"Q", "ET">>
    BY <2>1 DEF OutputsOf
  <2> QED BY <2>2, <2>3 DEF FieldsOf, Elements
<1>2. FieldsOf("CTU") = {"CU", "R", "PV", "Q", "CV"}
  <2>1. InputsOf("CTU") = <<"CU", "R", "PV">>
    BY DEF InputsOf, Timers
  <2>2. OutputsOf("CTU") = <<"Q", "CV">>
    BY DEF OutputsOf, Timers
  <2> QED BY <2>1, <2>2 DEF FieldsOf, Elements
<1>3. FieldsOf("CTD") = {"CD", "LD", "PV", "Q", "CV"}
  <2>1. InputsOf("CTD") = <<"CD", "LD", "PV">>
    BY DEF InputsOf, Timers
  <2>2. OutputsOf("CTD") = <<"Q", "CV">>
    BY DEF OutputsOf, Timers
  <2> QED BY <2>1, <2>2 DEF FieldsOf, Elements
<1>4. FieldsOf("CTUD") = {"CU", "CD", "R", "LD", "PV", "QU", "QD", "CV"}
  <2>1. InputsOf("CTUD") = <<"CU", "CD", "R", "LD", "PV">>
    BY DEF InputsOf, Timers
  <2>2. OutputsOf("CTUD") = <<"QU", "QD", "CV">>
    BY DEF OutputsOf, Timers
  <2> QED BY <2>1, <2>2 DEF FieldsOf, Elements
<1>5. ASSUME NEW t \in Triggers PROVE FieldsOf(t) = {"CLK", "Q"}
  <2>1. InputsOf(t) = <<"CLK">>
    BY DEF InputsOf, Timers
  <2>2. OutputsOf(t) = <<"Q">>
    BY DEF OutputsOf, Timers
  <2> QED BY <2>1, <2>2 DEF FieldsOf, Elements
<1>6. FieldsOf("SR") = {"S1", "R", "Q1", "Q"}
  <2>1. InputsOf("SR") = <<"S1", "R">>
    BY DEF InputsOf, Timers
  <2>2. OutputsOf("SR") = <<"Q1", "Q">>
    BY DEF OutputsOf, Timers
  <2> QED BY <2>1, <2>2 DEF FieldsOf, Elements
<1>7. FieldsOf("RS") = {"S", "R1", "Q1", "Q"}
  <2>1. InputsOf("RS") = <<"S", "R1">>
    BY DEF InputsOf, Timers
  <2>2. OutputsOf("RS") = <<"Q1", "Q">>
    BY DEF OutputsOf, Timers
  <2> QED BY <2>1, <2>2 DEF FieldsOf, Elements
<1> QED BY <1>1, <1>2, <1>3, <1>4, <1>5, <1>6, <1>7

FieldNames == {"IN", "PT", "Q", "ET", "CU", "CD", "R", "LD", "PV", "CV", "QU", "QD", "CLK", "S1", "S", "R1", "Q1"}

(* No block has other fields than these.                                   *)
LEMMA FieldsAreNamed ==
  ASSUME NEW t \in BlockTypes
  PROVE  FieldsOf(t) \subseteq FieldNames
BY Fields DEF BlockTypes, Timers, Counters, Triggers, Latches, FieldNames

(* Times, counts, and Boolean fields.                                      *)
LEMMA FieldTypes ==
  /\ \A f \in {"PT", "ET"} : FieldType(f) = "TIME"
  /\ \A f \in {"PV", "CV"} : FieldType(f) = "DINT"
  /\ \A f \in FieldNames \ {"PT", "ET", "PV", "CV"} : FieldType(f) = "BOOL"
BY DEF FieldType, FieldNames

(* A field is replaced by a value of its type.                             *)
LEMMA PutField ==
  ASSUME NEW t \in BlockTypes, NEW b, IsBlock(b, t), NEW f \in FieldsOf(t), NEW v, FieldFits(v, f)
  PROVE  IsBlock([b EXCEPT ![f] = v], t)
<1>1. f \notin Memory /\ f # "fb" /\ Memory \subseteq Slots(t) /\ "fb" \in Slots(t) /\ "fb" \notin Memory
      /\ FieldsOf(t) \subseteq Slots(t)
  BY FieldsAreNamed DEF Memory, FieldNames, Slots
<1> DEFINE D == Slots(t)  c == [b EXCEPT ![f] = v]
<1>2. Over(b, D) /\ f \in D
  BY <1>1 DEF IsBlock
<1> HIDE DEF D
<1>3. Over(c, D) /\ c[f] = v /\ \A i \in D \ {f} : c[i] = b[i]
  BY <1>2, UpdatedStore
<1> HIDE DEF c
<1>4. /\ Over(b, Slots(t)) /\ b.fb = t
      /\ \A x \in Memory : b[x] \in BOOLEAN
      /\ \A x \in FieldsOf(t) : FieldFits(b[x], x)
  BY Zenon DEF IsBlock
<1>5. c.fb = t
  BY <1>1, <1>3, <1>4 DEF D
<1>6. \A x \in Memory : c[x] \in BOOLEAN
  BY <1>1, <1>3, <1>4 DEF D
<1>7. ASSUME NEW x \in FieldsOf(t) PROVE FieldFits(c[x], x)
  <2>1. CASE x = f
    BY <1>3, <2>1
  <2>2. CASE x # f
    <3>1. c[x] = b[x]
      BY <1>1, <1>3, <2>2 DEF D
    <3> QED BY <1>4, <3>1
  <2> QED BY <2>1, <2>2
<1> QED BY <1>3, <1>5, <1>6, <1>7, Zenon DEF IsBlock, c, D

(* A memory cell is replaced.                                              *)
LEMMA PutMemory ==
  ASSUME NEW t \in BlockTypes, NEW b, IsBlock(b, t), NEW f \in Memory, NEW v \in BOOLEAN
  PROVE  IsBlock([b EXCEPT ![f] = v], t)
<1>1. f \notin FieldsOf(t) /\ f # "fb" /\ Memory \subseteq Slots(t) /\ "fb" \in Slots(t)
      /\ FieldsOf(t) \subseteq Slots(t)
  BY FieldsAreNamed DEF Memory, FieldNames, Slots
<1> DEFINE D == Slots(t)  c == [b EXCEPT ![f] = v]
<1>2. Over(b, D) /\ f \in D
  BY <1>1 DEF IsBlock
<1> HIDE DEF D
<1>3. Over(c, D) /\ c[f] = v /\ \A i \in D \ {f} : c[i] = b[i]
  BY <1>2, UpdatedStore
<1> HIDE DEF c
<1>4. /\ Over(b, Slots(t)) /\ b.fb = t
      /\ \A x \in Memory : b[x] \in BOOLEAN
      /\ \A x \in FieldsOf(t) : FieldFits(b[x], x)
  BY Zenon DEF IsBlock
<1>5. c.fb = t
  BY <1>1, <1>3, <1>4 DEF D
<1>6. \A x \in Memory : c[x] \in BOOLEAN
  BY <1>1, <1>3, <1>4 DEF D
<1>7. ASSUME NEW x \in FieldsOf(t) PROVE FieldFits(c[x], x)
  <2>1. c[x] = b[x]
    BY <1>1, <1>3 DEF D
  <2> QED BY <1>4, <2>1
<1> QED BY <1>3, <1>5, <1>6, <1>7, Zenon DEF IsBlock, c, D

(* A value of the type of a field may be in the field.                     *)
LEMMA ValueFits ==
  ASSUME NEW f, NEW v, IsValue(v, FieldType(f))
  PROVE  FieldFits(v, f)
<1>1. CASE f = "PT"
  <2>1. IsReal(v)
    BY <1>1, FieldTypes DEF IsValue
  <2>2. PICK n \in Int, d \in Nat \ {0} : v = RealV(n, d)
    BY <2>1 DEF IsReal
  <2> QED BY <1>1, <2>2 DEF RealV, IsNumber, FieldFits
<1>2. CASE f # "PT"
  BY <1>2 DEF FieldFits
<1> QED BY <1>1, <1>2

(* A new block is one of its type.                                         *)
LEMMA NewBlockIsBlock ==
  ASSUME NEW t \in BlockTypes
  PROVE  IsBlock(NewBlock(t), t)
<1> DEFINE b == NewBlock(t)
<1>0. FieldsOf(t) \subseteq FieldNames
  BY FieldsAreNamed
<1>1. b = [f \in FieldsOf(t) \cup {"fb", "prev", "up", "down", "running"} |->
             CASE f = "fb"   -> t
               [] f = "prev" -> t = "F_TRIG"
               [] f \in {"up", "down", "running"} -> FALSE
               [] OTHER      -> DefaultValue(FieldType(f))]
  BY Zenon DEF NewBlock
<1>2. FieldsOf(t) \cup {"fb", "prev", "up", "down", "running"} = Slots(t)
  BY DEF Slots, Memory
<1> HIDE DEF b
<1>3. Over(b, Slots(t)) /\ b.fb = t
  BY <1>1, <1>2 DEF Over, Slots
<1>4. \A f \in Memory : b[f] \in BOOLEAN
  <2>1. b["prev"] = (t = "F_TRIG") /\ b["up"] = FALSE /\ b["down"] = FALSE /\ b["running"] = FALSE
    BY <1>1
  <2> QED BY <2>1 DEF Memory
<1>5. ASSUME NEW f \in FieldsOf(t) PROVE FieldFits(b[f], f)
  <2>1. b[f] = DefaultValue(FieldType(f))
    BY <1>0, <1>1 DEF FieldNames
  <2>2. FieldType(f) \in ValueTypes
    BY <1>0, FieldTypes DEF ValueTypes, NumericTypes, IntTypes
  <2> QED BY <2>1, <2>2, DefaultIsValue, ValueFits
<1> QED BY <1>3, <1>4, <1>5 DEF IsBlock, b

(* A Boolean result is a value of its type.                                *)
LEMMA BoolIsValue ==
  ASSUME NEW x
  PROVE  IsBool(BoolV(x)) /\ IsValue(BoolV(x), "BOOL")
BY DEF BoolV, IsBool, IsValue, IntTypes

(* What the fields of a block may hold.                                    *)
LEMMA FieldValue ==
  ASSUME NEW v
  PROVE  /\ \A f \in {"PT", "ET"} : IsValue(v, FieldType(f)) <=> IsReal(v)
         /\ \A f \in {"PV", "CV"} : IsValue(v, FieldType(f)) <=> IsInt(v)
         /\ \A f \in FieldNames \ {"PT", "ET", "PV", "CV"} : IsValue(v, FieldType(f)) <=> IsBool(v)
<1>1. (IsValue(v, "TIME") <=> IsReal(v)) /\ (IsValue(v, "DINT") <=> IsInt(v)) /\ (IsValue(v, "BOOL") <=> IsBool(v))
  BY DEF IsValue, IntTypes
<1> QED BY <1>1, FieldTypes

(* Times add up to times.                                                  *)
LEMMA SumIsReal ==
  ASSUME NEW a, NEW b, IsReal(a), IsReal(b)
  PROVE  IsReal(Kernel("add", a, b))
<1>1. PICK p \in Int, q \in Nat \ {0} : a = RealV(p, q)
  BY DEF IsReal
<1>2. PICK r \in Int, s \in Nat \ {0} : b = RealV(r, s)
  BY DEF IsReal
<1>3. a.n = p /\ a.d = q /\ a.k = "real" /\ b.n = r /\ b.d = s
  BY <1>1, <1>2 DEF RealV
<1>4. Kernel("add", a, b) = Number(a, b, a.n * b.d + b.n * a.d, a.d * b.d)
  BY Zenon DEF Kernel
<1>5. Kernel("add", a, b) = RealV(p * s + r * q, q * s)
  BY <1>3, <1>4 DEF Number
<1>6. p * s \in Int /\ r * q \in Int /\ q * s \in Nat \ {0}
  OBVIOUS
<1>7. p * s + r * q \in Int
  BY <1>6
<1> QED BY <1>5, <1>6, <1>7 DEF IsReal

(* A count stays in the integer range.                                     *)
LEMMA CountIsInt ==
  ASSUME NEW v, IsInt(v)
  PROVE  IsInt(Up(v)) /\ IsInt(Down(v)) /\ IsInt(IntV(0))
<1>1. PICK i \in IntMin .. IntMax : v = IntV(i)
  BY DEF IsInt
<1>2. v.n = i
  BY <1>1 DEF IntV
<1>3. IntMin \in Int /\ IntMax \in Int
  BY Widths
<1>4. IsInt(Up(v))
  <2>1. CASE i < IntMax
    <3>1. Up(v) = IntV(i + 1) /\ i + 1 \in IntMin .. IntMax
      BY <1>2, <1>3, <2>1 DEF Up
    <3> QED BY <3>1 DEF IsInt
  <2>2. CASE ~(i < IntMax)
    BY <1>2, <2>2 DEF Up
  <2> QED BY <2>1, <2>2
<1>5. IsInt(Down(v))
  <2>1. CASE i > IntMin
    <3>1. Down(v) = IntV(i - 1) /\ i - 1 \in IntMin .. IntMax
      BY <1>2, <1>3, <2>1 DEF Down
    <3> QED BY <3>1 DEF IsInt
  <2>2. CASE ~(i > IntMin)
    BY <1>2, <2>2 DEF Down
  <2> QED BY <2>1, <2>2
<1> QED BY <1>4, <1>5, ZeroIsInRange DEF IsInt

(* The fields of timers and counters have numbers of their types.          *)
LEMMA BlockFields ==
  ASSUME NEW t \in BlockTypes, NEW b, IsBlock(b, t)
  PROVE  /\ "PT" \in FieldsOf(t) => IsNumber(b.PT)
         /\ "ET" \in FieldsOf(t) => IsReal(b.ET)
         /\ \A f \in FieldsOf(t) \cap {"PV", "CV"} : IsInt(b[f])
<1>1. \A f \in FieldsOf(t) : FieldFits(b[f], f)
  BY Zenon DEF IsBlock
<1> QED BY <1>1, FieldValue DEF FieldFits

(* A Boolean field is set.                                                 *)
LEMMA PutBool ==
  ASSUME NEW t \in BlockTypes, NEW b, IsBlock(b, t),
         NEW f \in FieldsOf(t) \ {"PT", "ET", "PV", "CV"}, NEW x
  PROVE  IsBlock([b EXCEPT ![f] = BoolV(x)], t)
<1>1. IsValue(BoolV(x), FieldType(f))
  BY BoolIsValue, FieldValue, FieldsAreNamed
<1> QED BY <1>1, ValueFits, PutField

(* The elapsed time is set.                                                *)
LEMMA PutTime ==
  ASSUME NEW t \in BlockTypes, NEW b, IsBlock(b, t), "ET" \in FieldsOf(t), NEW v, IsReal(v)
  PROVE  IsBlock([b EXCEPT !.ET = v], t)
<1>1. IsValue(v, FieldType("ET"))
  BY FieldValue
<1> QED BY <1>1, ValueFits, PutField

(* The count is set.                                                       *)
LEMMA PutCount ==
  ASSUME NEW t \in BlockTypes, NEW b, IsBlock(b, t), "CV" \in FieldsOf(t), NEW v, IsInt(v)
  PROVE  IsBlock([b EXCEPT !.CV = v], t)
<1>1. IsValue(v, FieldType("CV"))
  BY FieldValue
<1> QED BY <1>1, ValueFits, PutField

(* A timer is advanced or set back.                                        *)
LEMMA TimeIsPut ==
  ASSUME NEW t \in Timers, NEW b, IsBlock(b, t), NEW dt, IsReal(dt)
  PROVE  /\ t \in BlockTypes /\ "ET" \in FieldsOf(t) /\ "Q" \in FieldsOf(t)
         /\ IsBlock(Advance(b, dt), t) /\ IsBlock(ResetEt(b), t)
<1>1. t \in BlockTypes /\ "ET" \in FieldsOf(t) /\ "PT" \in FieldsOf(t) /\ "Q" \in FieldsOf(t)
  BY Fields DEF BlockTypes
<1>2. IsReal(b.ET) /\ IsNumber(b.PT)
  BY <1>1, BlockFields
<1> DEFINE sum == Kernel("add", b.ET, dt)
           v == IF Less(sum, b.PT) THEN sum ELSE Float(b.PT)
<1>3. IsReal(v)
  <2>1. IsReal(sum) /\ IsReal(Float(b.PT))
    BY <1>2, SumIsReal DEF Float, IsNumber, IsReal
  <2> HIDE DEF sum
  <2> QED BY <2>1
<1>4. Advance(b, dt) = IF Elapsed(b) THEN b ELSE [b EXCEPT !.ET = v]
  BY Zenon DEF Advance
<1> HIDE DEF v
<1>5. IsBlock([b EXCEPT !.ET = v], t)
  BY <1>1, <1>3, PutTime
<1>6. IsBlock(Advance(b, dt), t)
  BY <1>4, <1>5, Zenon
<1>7. IsReal(RealV(0, 1))
  BY DEF IsReal
<1>8. IsBlock(ResetEt(b), t)
  BY <1>1, <1>7, PutTime DEF ResetEt
<1> QED BY <1>1, <1>6, <1>8

(* The output and the memory of a block are set.                           *)
LEMMA PutOutput ==
  ASSUME NEW t \in BlockTypes, NEW b, IsBlock(b, t), NEW f \in FieldsOf(t) \ {"PT", "ET", "PV", "CV"}, NEW x,
         NEW g \in Memory, NEW m \in BOOLEAN
  PROVE  /\ IsBlock([b EXCEPT ![f] = BoolV(x), ![g] = m], t)
         /\ IsBlock([b EXCEPT ![g] = m, ![f] = BoolV(x)], t)
<1> DEFINE v == BoolV(x)
           c == [b EXCEPT ![f] = v]
           d == [b EXCEPT ![g] = m]
<1>1. IsBlock(c, t)
  BY PutBool
<1>2. IsBlock([c EXCEPT ![g] = m], t)
  <2> HIDE DEF c
  <2> QED BY <1>1, PutMemory
<1>3. IsBlock(d, t)
  BY PutMemory
<1>4. IsBlock([d EXCEPT ![f] = v], t)
  <2> HIDE DEF d
  <2> QED BY <1>3, PutBool
<1> QED BY <1>2, <1>4

(* One call of a timer.                                                    *)
LEMMA TimerIsBlock ==
  ASSUME NEW t \in Timers, NEW b, IsBlock(b, t), NEW dt, IsReal(dt)
  PROVE  IsBlock(OnDelay(b, dt), t) /\ IsBlock(OffDelay(b, dt), t) /\ IsBlock(Pulse(b, dt), t)
<1> DEFINE on == Truth(b.IN)
           a == Advance(b, dt)
           z == ResetEt(b)
<1>1. t \in BlockTypes /\ "Q" \in FieldsOf(t) /\ "Q" \notin {"PT", "ET", "PV", "CV"}
      /\ IsBlock(a, t) /\ IsBlock(z, t)
  BY TimeIsPut
<1>2. on \in BOOLEAN
  BY DEF Truth
<1>3. "prev" \in Memory /\ "running" \in Memory
  BY DEF Memory
<1>4. IsBlock(OnDelay(b, dt), t)
  <2> DEFINE s == IF on /\ b.prev THEN a ELSE z
             w == on /\ Elapsed(s)
  <2>1. OnDelay(b, dt) = [s EXCEPT !.Q = BoolV(w), !.prev = on]
    BY Zenon DEF OnDelay
  <2>2. IsBlock(s, t)
    BY <1>1, Zenon
  <2> HIDE DEF s, w, on, a, z
  <2>3. IsBlock([s EXCEPT !.Q = BoolV(w), !.prev = on], t)
    BY <1>1, <1>2, <1>3, <2>2, PutOutput
  <2> QED BY <2>1, <2>3, Zenon
<1>5. IsBlock(OffDelay(b, dt), t)
  <2> DEFINE s == CASE on           -> [z EXCEPT !.Q = BoolV(TRUE)]
                    [] ~on /\ b.prev -> [z EXCEPT !.Q = BoolV(Truth(b.Q) /\ ~NoDelay(b))]
                    [] ~on /\ ~b.prev /\ Truth(b.Q) -> [a EXCEPT !.Q = BoolV(~Elapsed(a))]
                    [] OTHER         -> b
  <2>1. OffDelay(b, dt) = [s EXCEPT !.prev = on]
    BY Zenon DEF OffDelay
  <2>2. IsBlock(s, t)
    <3> DEFINE x == Truth(b.Q) /\ ~NoDelay(b)
               y == ~Elapsed(a)
    <3>1. /\ IsBlock([z EXCEPT !.Q = BoolV(TRUE)], t) /\ IsBlock([z EXCEPT !.Q = BoolV(x)], t)
          /\ IsBlock([a EXCEPT !.Q = BoolV(y)], t)
      <4> HIDE DEF a, z, x, y
      <4> QED BY <1>1, PutBool
    <3>2. \/ s = [z EXCEPT !.Q = BoolV(TRUE)] \/ s = [z EXCEPT !.Q = BoolV(x)]
          \/ s = [a EXCEPT !.Q = BoolV(y)] \/ s = b
      BY Zenon
    <3> QED BY <3>1, <3>2, Zenon
  <2> HIDE DEF s, on
  <2> QED BY <1>1, <1>2, <1>3, <2>1, <2>2, PutMemory
<1>6. IsBlock(Pulse(b, dt), t)
  <2> DEFINE s == CASE b.running -> [a EXCEPT !.running = ~Elapsed(a), !.Q = BoolV(Truth(b.Q) /\ ~Elapsed(a))]
                    [] ~b.running /\ on /\ ~b.prev -> [z EXCEPT !.running = ~NoDelay(b), !.Q = BoolV(~NoDelay(b))]
                    [] ~b.running /\ ~on -> z
                    [] OTHER             -> b
  <2>1. Pulse(b, dt) = [s EXCEPT !.prev = on]
    BY Zenon DEF Pulse
  <2>2. IsBlock(s, t)
    <3> DEFINE x == ~Elapsed(a)
               w == Truth(b.Q) /\ ~Elapsed(a)
               y == ~NoDelay(b)
    <3>0. x \in BOOLEAN /\ y \in BOOLEAN
      BY DEF Elapsed, NoDelay
    <3>1. /\ IsBlock([a EXCEPT !.running = x, !.Q = BoolV(w)], t)
          /\ IsBlock([z EXCEPT !.running = y, !.Q = BoolV(y)], t)
      <4> HIDE DEF a, z, x, y, w
      <4> QED BY <1>1, <1>3, <3>0, PutOutput
    <3>2. \/ s = [a EXCEPT !.running = x, !.Q = BoolV(w)] \/ s = [z EXCEPT !.running = y, !.Q = BoolV(y)]
          \/ s = z \/ s = b
      BY Zenon
    <3> QED BY <1>1, <3>1, <3>2, Zenon
  <2> HIDE DEF s, on
  <2> QED BY <1>1, <1>2, <1>3, <2>1, <2>2, PutMemory
<1> QED BY <1>4, <1>5, <1>6

(* One call of a counter.                                                  *)
LEMMA CounterIsBlock ==
  ASSUME NEW t \in Counters, NEW b, IsBlock(b, t)
  PROVE  /\ t = "CTU" => IsBlock(CountUp(b), t)
         /\ t = "CTD" => IsBlock(CountDown(b), t)
         /\ t = "CTUD" => IsBlock(CountUpDown(b), t)
<1>1. t \in BlockTypes /\ "CV" \in FieldsOf(t) /\ "PV" \in FieldsOf(t)
      /\ "up" \in Memory /\ "down" \in Memory
  BY Fields DEF BlockTypes, Counters, Memory
<1>2. IsInt(b.CV) /\ IsInt(b.PV) /\ IsInt(Up(b.CV)) /\ IsInt(Down(b.CV)) /\ IsInt(IntV(0))
  BY <1>1, BlockFields, CountIsInt
<1>3. Truth(b.CU) \in BOOLEAN /\ Truth(b.CD) \in BOOLEAN
  BY DEF Truth
<1>4. ASSUME t = "CTU" PROVE IsBlock(CountUp(b), t)
  <2> DEFINE cv == CASE Truth(b.R)           -> IntV(0)
                     [] ~Truth(b.R) /\ Truth(b.CU) /\ ~b.up -> Up(b.CV)
                     [] OTHER                -> b.CV
             c == [b EXCEPT !.CV = cv]
             q == cv.n >= b.PV.n
             m == Truth(b.CU)
  <2>1. CountUp(b) = [c EXCEPT !.Q = BoolV(q), !.up = m]
    BY Zenon DEF CountUp
  <2>2. cv = IntV(0) \/ cv = Up(b.CV) \/ cv = b.CV
    BY Zenon
  <2>3. IsInt(cv)
    BY <1>2, <2>2, Zenon
  <2>4. IsBlock(c, t)
    <3> HIDE DEF cv
    <3> QED BY <1>1, <2>3, PutCount
  <2>5. "Q" \in FieldsOf(t)
    BY <1>4, Fields
  <2>6. m \in BOOLEAN
    BY <1>3
  <2> HIDE DEF c, q, m
  <2>7. IsBlock([c EXCEPT !.Q = BoolV(q), !.up = m], t)
    BY <1>1, <2>4, <2>5, <2>6, PutOutput
  <2> QED BY <2>1, <2>7, Zenon
<1>5. ASSUME t = "CTD" PROVE IsBlock(CountDown(b), t)
  <2> DEFINE cv == CASE Truth(b.LD)          -> b.PV
                     [] ~Truth(b.LD) /\ Truth(b.CD) /\ ~b.down -> Down(b.CV)
                     [] OTHER                -> b.CV
             c == [b EXCEPT !.CV = cv]
             q == cv.n <= 0
             m == Truth(b.CD)
  <2>1. CountDown(b) = [c EXCEPT !.Q = BoolV(q), !.down = m]
    BY Zenon DEF CountDown
  <2>2. cv = b.PV \/ cv = Down(b.CV) \/ cv = b.CV
    BY Zenon
  <2>3. IsInt(cv)
    BY <1>2, <2>2, Zenon
  <2>4. IsBlock(c, t)
    <3> HIDE DEF cv
    <3> QED BY <1>1, <2>3, PutCount
  <2>5. "Q" \in FieldsOf(t)
    BY <1>5, Fields
  <2>6. m \in BOOLEAN
    BY <1>3
  <2> HIDE DEF c, q, m
  <2>7. IsBlock([c EXCEPT !.Q = BoolV(q), !.down = m], t)
    BY <1>1, <2>4, <2>5, <2>6, PutOutput
  <2> QED BY <2>1, <2>7, Zenon
<1>6. ASSUME t = "CTUD" PROVE IsBlock(CountUpDown(b), t)
  <2> DEFINE up   == Truth(b.CU) /\ ~b.up
             down == Truth(b.CD) /\ ~b.down
             cv   == CASE Truth(b.R)                   -> IntV(0)
                       [] ~Truth(b.R) /\ Truth(b.LD)   -> b.PV
                       [] ~Truth(b.R) /\ ~Truth(b.LD) /\ up /\ ~down -> Up(b.CV)
                       [] ~Truth(b.R) /\ ~Truth(b.LD) /\ down /\ ~up -> Down(b.CV)
                       [] OTHER                        -> b.CV
             c == [b EXCEPT !.CV = cv]
             p == cv.n >= b.PV.n
             q == cv.n <= 0
             m == Truth(b.CU)
             n == Truth(b.CD)
             d == [c EXCEPT !.QU = BoolV(p)]
             e == [d EXCEPT !.QD = BoolV(q), !.up = m]
  <2>1. CountUpDown(b) = [e EXCEPT !.down = n]
    BY Zenon DEF CountUpDown
  <2>2. cv = IntV(0) \/ cv = b.PV \/ cv = Up(b.CV) \/ cv = Down(b.CV) \/ cv = b.CV
    BY Zenon
  <2>3. IsInt(cv)
    BY <1>2, <2>2, Zenon
  <2>4. IsBlock(c, t)
    <3> HIDE DEF cv
    <3> QED BY <1>1, <2>3, PutCount
  <2>5. "QU" \in FieldsOf(t) /\ "QD" \in FieldsOf(t)
    BY <1>6, Fields
  <2>6. IsBlock(d, t)
    <3> HIDE DEF c, p
    <3> QED BY <1>1, <2>4, <2>5, PutBool
  <2>7. IsBlock(e, t)
    <3> HIDE DEF d, q, m
    <3> QED BY <1>1, <1>3, <2>6, <2>5, PutOutput DEF m
  <2> HIDE DEF e, n
  <2> QED BY <1>1, <1>3, <2>1, <2>7, PutMemory DEF n
<1> QED BY <1>4, <1>5, <1>6

(* Whatever a program set its inputs to and whatever the length of the     *)
(* scan, one call of a function block leaves a block of its type: every    *)
(* output is a value of its type, a count within the integer range at      *)
(* every width (the execute methods of fb.py).                             *)
THEOREM BlocksKeepTypes ==
  ASSUME NEW t \in BlockTypes, NEW b, IsBlock(b, t), NEW dt, IsReal(dt)
  PROVE  IsBlock(Execute(b, dt), t)
<1>0. b.fb = t
  BY Zenon DEF IsBlock
<1>1. CASE t \in Timers
  <2>1. IsBlock(OnDelay(b, dt), t) /\ IsBlock(OffDelay(b, dt), t) /\ IsBlock(Pulse(b, dt), t)
    BY <1>1, TimerIsBlock
  <2>2. t = "TON" \/ t = "TOF" \/ t = "TP"
    BY <1>1 DEF Timers
  <2>3. Execute(b, dt) \in {OnDelay(b, dt), OffDelay(b, dt), Pulse(b, dt)}
    BY <1>0, <2>2, Zenon DEF Execute
  <2> QED BY <2>1, <2>3, Zenon
<1>2. CASE t \in Counters
  <2>1. t = "CTU" \/ t = "CTD" \/ t = "CTUD"
    BY <1>2 DEF Counters
  <2>2. /\ t = "CTU" => Execute(b, dt) = CountUp(b)
        /\ t = "CTD" => Execute(b, dt) = CountDown(b)
        /\ t = "CTUD" => Execute(b, dt) = CountUpDown(b)
    BY <1>0, Zenon DEF Execute
  <2> QED BY <1>2, <2>1, <2>2, CounterIsBlock, Zenon
<1>3. CASE t \in Triggers
  <2> DEFINE m == Truth(b.CLK)
             n == ~Truth(b.CLK)
             p == m /\ ~b.prev
             q == n /\ ~b.prev
  <2>1. m \in BOOLEAN /\ n \in BOOLEAN
    BY DEF Truth
  <2>2. "Q" \in FieldsOf(t) /\ "prev" \in Memory
    BY <1>3, Fields DEF Memory
  <2>3. /\ t = "R_TRIG" => Execute(b, dt) = [b EXCEPT !.Q = BoolV(p), !.prev = m]
        /\ t = "F_TRIG" => Execute(b, dt) = [b EXCEPT !.Q = BoolV(q), !.prev = n]
    BY <1>0, Zenon DEF Execute
  <2> HIDE DEF m, n, p, q
  <2>4. IsBlock([b EXCEPT !.Q = BoolV(p), !.prev = m], t) /\ IsBlock([b EXCEPT !.Q = BoolV(q), !.prev = n], t)
    BY <2>1, <2>2, PutOutput
  <2>5. t = "R_TRIG" \/ t = "F_TRIG"
    BY <1>3 DEF Triggers
  <2> QED BY <2>3, <2>4, <2>5, Zenon
<1>4. CASE t \in Latches
  <2> DEFINE p == Truth(b.S1) \/ (~Truth(b.R) /\ Truth(b.Q1))
             q == ~Truth(b.R1) /\ (Truth(b.S) \/ Truth(b.Q1))
  <2>1. t = "SR" \/ t = "RS"
    BY <1>4 DEF Latches
  <2>2. "Q1" \in FieldsOf(t)
    BY <2>1, Fields
  <2>3. /\ t = "SR" => Execute(b, dt) = [b EXCEPT !.Q1 = BoolV(p)]
        /\ t = "RS" => Execute(b, dt) = [b EXCEPT !.Q1 = BoolV(q)]
    BY <1>0, Zenon DEF Execute
  <2> HIDE DEF p, q
  <2>4. IsBlock([b EXCEPT !.Q1 = BoolV(p)], t) /\ IsBlock([b EXCEPT !.Q1 = BoolV(q)], t)
    BY <2>2, PutBool
  <2> QED BY <2>1, <2>3, <2>4, Zenon
<1> QED BY <1>1, <1>2, <1>3, <1>4 DEF BlockTypes

-----------------------------------------------------------------------------
(* The image is typed.                                                     *)

(* What a variable or a block of a symbol may hold.                        *)
Suits(v, s) == IF s.fb = "none" THEN IsValue(v, s.type) ELSE IsBlock(v, s.fb)

(* A symbol as a compiler declares it: a block, or a value of a type whose *)
(* initial value, if it has one, is of that type.                          *)
IsSymbol(s) ==
  /\ s.scope \in {"local", "global"}
  /\ s.fb # "none" => s.fb \in BlockTypes
  /\ s.fb = "none" => s.type \in ValueTypes /\ (s.init # NoValue => IsValue(s.init, s.type))

(* What may be written to a variable of type t: a number, or anything that *)
(* is only told from zero or kept as a text.                               *)
Accepted(v, t) == t \in {"BOOL", "STRING"} \/ IsNumber(v)

TypedTags == \A n \in DOMAIN Tags : Tags[n].type \in ValueTypes /\ Tags[n].dir \in {"in", "out"}

(* The values of a store that program p may read.                          *)
TypedSys(s) ==
  /\ DOMAIN s = {"SYS_ABORT", "SYS_SCAN_TIME", "SYS_FIRST_SCAN", "SYS_TIME"}
  /\ IsBool(s.SYS_ABORT) /\ IsReal(s.SYS_SCAN_TIME) /\ IsBool(s.SYS_FIRST_SCAN) /\ IsReal(s.SYS_TIME)
TypedStore(s, p) ==
  /\ \A n \in Owned(p, "local")  : Suits(s.local[n], p.syms[n])
  /\ \A n \in Owned(p, "global") : Suits(s.global[n], p.syms[n])
  /\ \A n \in TagsOf("out") : IsValue(s.output[n], Tags[n].type)

(* A context of typed values, from which program p may start.              *)
TypedContext(c, p) ==
  /\ IsContext(c, p) /\ Over(c.store.output, TagsOf("out")) /\ IsReal(c.dt)
  /\ TypedStore(c.store, p) /\ TypedSys(c.store.sys)
  /\ \A n \in TagsOf("in") : IsValue(c.store.input[n], Tags[n].type)

(* From typed values, one run of program p leaves typed values, unless it  *)
(* fails, and it never fails inside.                                       *)
KeepsTypes(p) ==
  \A c : TypedContext(c, p) =>
    /\ RunBody(c, p).sig # "internal"
    /\ RunBody(c, p).sig \in {"go", "return"} => TypedStore(RunBody(c, p).ctx.store, p)

TypedPrograms(ps) ==
  \A i \in DOMAIN ps : KeepsTypes(ps[i]) /\ \A n \in DOMAIN ps[i].syms : IsSymbol(ps[i].syms[n])

(* The memory between the programs of a scan and between scans.            *)
TypedMem(m) ==
  /\ \A n \in TagsOf("in")  : IsValue(m.input[n], Tags[n].type) /\ IsValue(m.told[n], Tags[n].type)
  /\ \A n \in TagsOf("out") : IsValue(m.output[n], Tags[n].type)
  /\ \A i \in DOMAIN Programs : \A n \in Owned(Programs[i], "global") :
       Suits(m.global[n], Programs[i].syms[n])
  /\ \A i \in DOMAIN Programs : \A n \in Owned(Programs[i], "local") :
       Suits(m.local[Programs[i].name][n], Programs[i].syms[n])

TypedForces(f) == \A k \in DOMAIN f : IsValue(f[k], ForceType(k))

(* What a run of dt may leave in a variable that held old: the same, a     *)
(* value as a conversion to its type gives one, or its block after any     *)
(* number of assignments to its inputs and calls.                          *)
SetFields(b, ins) == [f \in DOMAIN b |-> IF f \in DOMAIN ins THEN ins[f] ELSE b[f]]
IsInputs(ins, t) == DOMAIN ins \subseteq FieldsOf(t) /\ \A f \in DOMAIN ins : FieldFits(ins[f], f)
Converted(v, t) == \E x : Accepted(x, t) /\ v = Coerce(x, t)
Used(v, b, t, dt) ==
  \E ins : IsInputs(ins, t) /\ v \in {SetFields(b, ins), Execute(SetFields(b, ins), dt)}
UsedOften(v, b, t, dt) ==
  \E n \in Nat : \E h : h[0] = b /\ h[n] = v /\ \A i \in 0 .. n - 1 : Used(h[i + 1], h[i], t, dt)
Left(v, old, s, dt) ==
  \/ v = old
  \/ s.fb = "none" /\ Converted(v, s.type)
  \/ s.fb # "none" /\ UsedOften(v, old, s.fb, dt)

(* A program of stores and calls: what it stores is a value as conversions *)
(* give it, as compiled assignments, coils and boxes do, and its blocks    *)
(* get inputs that fit.                                                    *)
Converts(p) ==
  \A c : TypedContext(c, p) =>
    LET r == RunBody(c, p)  s == r.ctx.store
    IN  /\ r.sig # "internal"
        /\ r.sig \in {"go", "return"} =>
             /\ \A n \in Owned(p, "local")  : Left(s.local[n], c.store.local[n], p.syms[n], c.dt)
             /\ \A n \in Owned(p, "global") : Left(s.global[n], c.store.global[n], p.syms[n], c.dt)
             /\ \A n \in TagsOf("out") :
                  s.output[n] = c.store.output[n] \/ Converted(s.output[n], Tags[n].type)

(* The program list of a typed plan.                                       *)
TypedList == IsList /\ Mergeable(Programs) /\ TypedTags /\ TypedPrograms(Programs)

(* The value that a write or a force gives is one of the variable's type.  *)
LEMMA AcceptedGivesValue ==
  ASSUME NEW t \in ValueTypes, NEW v, Accepted(v, t)
  PROVE  IsValue(Coerce(v, t), t)
<1>1. CASE IsNumber(v)
  BY <1>1, CoerceGivesValue
<1>2. CASE t = "BOOL"
  <2>1. Coerce(v, t) = BoolV(Truth(v))
    BY <1>2 DEF Coerce, IntTypes
  <2> QED BY <1>2, <2>1, BoolIsValue
<1>3. CASE t = "STRING"
  <2>1. Coerce(v, t) = StrV(v.n)
    BY <1>3 DEF Coerce, IntTypes
  <2>2. StrV(v.n).n = v.n
    BY DEF StrV
  <2> QED BY <1>3, <2>1, <2>2 DEF IsValue, IntTypes
<1> QED BY <1>1, <1>2, <1>3 DEF Accepted

(* The fields of a block are set to values of their types.                 *)
LEMMA SetIsBlock ==
  ASSUME NEW t \in BlockTypes, NEW b, IsBlock(b, t), NEW ins, IsInputs(ins, t)
  PROVE  IsBlock(SetFields(b, ins), t)
<1> DEFINE c == SetFields(b, ins)
           D == Slots(t)
<1>1. /\ Over(b, D) /\ b.fb = t /\ \A f \in Memory : b[f] \in BOOLEAN
      /\ \A f \in FieldsOf(t) : FieldFits(b[f], f)
  BY Zenon DEF IsBlock
<1>2. FieldsOf(t) \cap (Memory \cup {"fb"}) = {} /\ D = FieldsOf(t) \cup {"fb"} \cup Memory
  BY FieldsAreNamed DEF Memory, FieldNames, Slots
<1>3. DOMAIN ins \subseteq FieldsOf(t) /\ \A f \in DOMAIN ins : FieldFits(ins[f], f)
  BY Zenon DEF IsInputs
<1> HIDE DEF D
<1>4. c = [f \in D |-> IF f \in DOMAIN ins THEN ins[f] ELSE b[f]]
  BY <1>1 DEF Over, SetFields
<1> HIDE DEF c
<1>5. Over(c, D) /\ \A f \in D : c[f] = IF f \in DOMAIN ins THEN ins[f] ELSE b[f]
  BY <1>4 DEF Over
<1>6. c.fb = t /\ \A f \in Memory : c[f] \in BOOLEAN
  BY <1>1, <1>2, <1>3, <1>5
<1>7. \A f \in FieldsOf(t) : FieldFits(c[f], f)
  BY <1>1, <1>2, <1>3, <1>5
<1> QED BY <1>5, <1>6, <1>7, Zenon DEF IsBlock, c, D

(* A block is one of its type after any number of uses.                    *)
LEMMA UsedIsBlock ==
  ASSUME NEW t \in BlockTypes, NEW n \in Nat, NEW h, IsBlock(h[0], t), NEW dt, IsReal(dt),
         \A i \in 0 .. n - 1 : Used(h[i + 1], h[i], t, dt)
  PROVE  IsBlock(h[n], t)
<1> DEFINE S == {i \in 0 .. n : IsBlock(h[i], t)}
<1>1. 0 \in S
  OBVIOUS
<1>2. ASSUME NEW i \in 0 .. n - 1, i \in S PROVE i + 1 \in S
  <2>1. IsBlock(h[i], t)
    BY <1>2
  <2>2. PICK ins : IsInputs(ins, t) /\ h[i + 1] \in {SetFields(h[i], ins), Execute(SetFields(h[i], ins), dt)}
    BY <1>2, Zenon DEF Used
  <2>3. IsBlock(SetFields(h[i], ins), t)
    BY <2>1, <2>2, SetIsBlock
  <2>4. IsBlock(Execute(SetFields(h[i], ins), dt), t)
    BY <2>3, BlocksKeepTypes
  <2>5. IsBlock(h[i + 1], t)
    BY <2>2, <2>3, <2>4, Zenon
  <2>6. i + 1 \in 0 .. n
    BY <1>2
  <2> QED BY <2>5, <2>6
<1> HIDE DEF S
<1>3. \A i \in 0 .. n : i \in S
  BY <1>1, <1>2, IntervalInduction
<1>4. n \in 0 .. n
  OBVIOUS
<1> QED BY <1>3, <1>4 DEF S

(* A program that stores nothing but values as conversions give them, and  *)
(* uses its blocks with inputs that fit, keeps types (the assignments and  *)
(* calls of nodes.py, the coils and boxes of ladder.py).                   *)
THEOREM ConversionsKeepTypes ==
  ASSUME TypedTags, NEW p, \A n \in DOMAIN p.syms : IsSymbol(p.syms[n]), Converts(p)
  PROVE  KeepsTypes(p)
<1>1. ASSUME NEW t \in ValueTypes, NEW v, Converted(v, t) PROVE IsValue(v, t)
  BY <1>1, AcceptedGivesValue, Zenon DEF Converted
<1>2. ASSUME NEW s, IsSymbol(s), NEW old, Suits(old, s), NEW dt, IsReal(dt), NEW v, Left(v, old, s, dt)
      PROVE  Suits(v, s)
  <2>1. CASE s.fb = "none" /\ Converted(v, s.type)
    <3>1. s.type \in ValueTypes
      BY <1>2, <2>1, Zenon DEF IsSymbol
    <3> QED BY <1>1, <2>1, <3>1, Zenon DEF Suits
  <2>2. CASE s.fb # "none" /\ UsedOften(v, old, s.fb, dt)
    <3>1. PICK n \in Nat : \E h : /\ h[0] = old /\ h[n] = v
                                 /\ \A i \in 0 .. n - 1 : Used(h[i + 1], h[i], s.fb, dt)
      BY <2>2, Zenon DEF UsedOften
    <3>2. PICK h : h[0] = old /\ h[n] = v /\ \A i \in 0 .. n - 1 : Used(h[i + 1], h[i], s.fb, dt)
      BY <3>1, Zenon
    <3>3. s.fb \in BlockTypes /\ IsBlock(old, s.fb)
      BY <1>2, <2>2, Zenon DEF IsSymbol, Suits
    <3>4. IsBlock(v, s.fb)
      BY <1>2, <3>2, <3>3, UsedIsBlock, Zenon
    <3> QED BY <2>2, <3>4, Zenon DEF Suits
  <2> QED BY <1>2, <2>1, <2>2, Zenon DEF Left
<1>3. SUFFICES ASSUME NEW c, TypedContext(c, p)
               PROVE  /\ RunBody(c, p).sig # "internal"
                      /\ RunBody(c, p).sig \in {"go", "return"} => TypedStore(RunBody(c, p).ctx.store, p)
  BY Zenon DEF KeepsTypes
<1> DEFINE r == RunBody(c, p)
           s == r.ctx.store
<1>4. IsReal(c.dt) /\ TypedStore(c.store, p)
  BY <1>3, Zenon DEF TypedContext
<1>5. /\ r.sig # "internal"
      /\ r.sig \in {"go", "return"} =>
           /\ \A n \in Owned(p, "local")  : Left(s.local[n], c.store.local[n], p.syms[n], c.dt)
           /\ \A n \in Owned(p, "global") : Left(s.global[n], c.store.global[n], p.syms[n], c.dt)
           /\ \A n \in TagsOf("out") :
                s.output[n] = c.store.output[n] \/ Converted(s.output[n], Tags[n].type)
  BY <1>3, Zenon DEF Converts
<1> HIDE DEF r, s
<1>6. ASSUME r.sig \in {"go", "return"} PROVE TypedStore(s, p)
  <2>1. ASSUME NEW n \in Owned(p, "local") PROVE Suits(s.local[n], p.syms[n])
    <3>1. IsSymbol(p.syms[n])
      BY DEF Owned
    <3>2. Suits(c.store.local[n], p.syms[n])
      BY <1>4, Zenon DEF TypedStore
    <3> QED BY <1>2, <1>4, <1>5, <1>6, <3>1, <3>2, Zenon
  <2>2. ASSUME NEW n \in Owned(p, "global") PROVE Suits(s.global[n], p.syms[n])
    <3>1. IsSymbol(p.syms[n])
      BY DEF Owned
    <3>2. Suits(c.store.global[n], p.syms[n])
      BY <1>4, Zenon DEF TypedStore
    <3> QED BY <1>2, <1>4, <1>5, <1>6, <3>1, <3>2, Zenon
  <2>3. ASSUME NEW n \in TagsOf("out") PROVE IsValue(s.output[n], Tags[n].type)
    <3>1. Tags[n].type \in ValueTypes
      BY DEF TypedTags, TagsOf
    <3>2. IsValue(c.store.output[n], Tags[n].type)
      BY <1>4, Zenon DEF TypedStore
    <3> QED BY <1>1, <1>5, <1>6, <3>1, <3>2, Zenon
  <2> QED BY <2>1, <2>2, <2>3, Zenon DEF TypedStore
<1> QED BY <1>5, <1>6 DEF r, s

(* A merged global is one of the declarations, and they agree.             *)
LEMMA MergedAgrees ==
  ASSUME IsList, Mergeable(Programs), NEW n \in DOMAIN MergedGlobals(Programs)
  PROVE  LET s == MergedGlobals(Programs)[n]
         IN  /\ \E i \in DOMAIN Programs : n \in Owned(Programs[i], "global") /\ s = Programs[i].syms[n]
             /\ \A i \in DOMAIN Programs : n \in Owned(Programs[i], "global") =>
                  Programs[i].syms[n].type = s.type /\ Programs[i].syms[n].fb = s.fb
<1> DEFINE ps == Programs
           by(x)    == {i \in DOMAIN ps : x \in Owned(ps[i], "global")}
           given(x) == {i \in by(x) : ps[i].syms[x].init # NoValue}
           First(I) == CHOOSE i \in I : \A j \in I : i <= j
           m == MergedGlobals(ps)
           I == IF given(n) = {} THEN by(n) ELSE given(n)
<1>1. m = [x \in UNION {Owned(p, "global") : p \in Elements(ps)} |->
             ps[First(IF given(x) = {} THEN by(x) ELSE given(x))].syms[x]]
  BY Zenon DEF MergedGlobals
<1>2. DOMAIN ps \subseteq Nat /\ Elements(ps) = {ps[i] : i \in DOMAIN ps}
  BY DEF IsList, Elements
<1>3. Mergeable(ps) /\ n \in DOMAIN m
  OBVIOUS
<1> HIDE DEF ps, m
<1>4. PICK i \in DOMAIN ps : n \in Owned(ps[i], "global")
  <2>1. n \in UNION {Owned(p, "global") : p \in Elements(ps)}
    BY <1>1, <1>3, Zenon
  <2>2. PICK p \in Elements(ps) : n \in Owned(p, "global")
    BY <2>1
  <2> QED BY <1>2, <2>2
<1>5. I \in SUBSET Nat /\ I # {} /\ I \subseteq by(n)
  BY <1>2, <1>4
<1>6. First(I) \in I
  <2>1. \E j \in I : \A x \in I : j <= x
    <3> HIDE DEF I
    <3> QED BY <1>5, LeastNumber
  <2> HIDE DEF I
  <2> QED BY <2>1, Zenon
<1>7. m[n] = ps[First(I)].syms[n]
  BY <1>1, <1>3, Zenon
<1>8. PICK k \in by(n) : m[n] = ps[k].syms[n]
  BY <1>5, <1>6, <1>7, Zenon
<1>9. k \in DOMAIN ps /\ n \in Owned(ps[k], "global")
  BY Zenon
<1>10. ASSUME NEW j \in DOMAIN ps, n \in Owned(ps[j], "global")
       PROVE  ps[j].syms[n].type = m[n].type /\ ps[j].syms[n].fb = m[n].fb
  <2>1. n \in Owned(ps[j], "global") \cap Owned(ps[k], "global")
    BY <1>9, <1>10
  <2>2. SameGlobal(ps[j].syms[n], ps[k].syms[n])
    BY <1>3, <1>9, <2>1, Zenon DEF Mergeable
  <2> QED BY <1>8, <2>2, Zenon DEF SameGlobal
<1> QED BY <1>8, <1>9, <1>10, Zenon DEF m, ps

(* A value of a global fits every declaration of it if it fits one.        *)
LEMMA FitsAll ==
  ASSUME NEW v, NEW s, NEW u, s.type = u.type, s.fb = u.fb, Suits(v, s)
  PROVE  Suits(v, u)
BY Zenon DEF Suits

(* What may be forced is no block, and has a type.                         *)
LEMMA ForcedValues ==
  ASSUME TypedList
  PROVE  /\ \A n : <<"input", "", n>> \in Forceable =>
              n \in TagsOf("in") /\ ForceType(<<"input", "", n>>) = Tags[n].type
         /\ \A n : <<"output", "", n>> \in Forceable =>
              n \in TagsOf("out") /\ ForceType(<<"output", "", n>>) = Tags[n].type
         /\ \A n : <<"global", "", n>> \in Forceable =>
              /\ n \in DOMAIN MergedGlobals(Programs) /\ MergedGlobals(Programs)[n].fb = "none"
              /\ ForceType(<<"global", "", n>>) = MergedGlobals(Programs)[n].type
         /\ \A i \in DOMAIN Programs : \A n : <<"local", Programs[i].name, n>> \in Forceable =>
              /\ n \in Owned(Programs[i], "local") /\ Programs[i].syms[n].fb = "none"
              /\ ForceType(<<"local", Programs[i].name, n>>) = Programs[i].syms[n].type
<1> DEFINE G == {x \in DOMAIN MergedGlobals(Programs) : MergedGlobals(Programs)[x].fb = "none"}
           L(p) == {x \in Owned(p, "local") : p.syms[x].fb = "none"}
<1>0. Forceable = {<<"input", "", n>> : n \in TagsOf("in")} \cup {<<"output", "", n>> : n \in TagsOf("out")}
                  \cup {<<"global", "", n>> : n \in G}
                  \cup UNION {{<<"local", p.name, n>> : n \in L(p)} : p \in Elements(Programs)}
  BY Zenon DEF Forceable
<1>5. ASSUME NEW k \in Forceable
      PROVE  \/ k[1] = "input" /\ k[3] \in TagsOf("in")
             \/ k[1] = "output" /\ k[3] \in TagsOf("out")
             \/ k[1] = "global" /\ k[3] \in G
             \/ k[1] = "local"
  <2>1. CASE k \in {<<"input", "", n>> : n \in TagsOf("in")}
    <3>1. PICK n \in TagsOf("in") : k = <<"input", "", n>>
      BY <2>1
    <3> QED BY <3>1
  <2>2. CASE k \in {<<"output", "", n>> : n \in TagsOf("out")}
    <3>1. PICK n \in TagsOf("out") : k = <<"output", "", n>>
      BY <2>2
    <3> QED BY <3>1
  <2>3. CASE k \in {<<"global", "", n>> : n \in G}
    <3>1. PICK n \in G : k = <<"global", "", n>>
      BY <2>3
    <3> HIDE DEF G
    <3> QED BY <3>1
  <2>4. CASE k \in UNION {{<<"local", p.name, n>> : n \in L(p)} : p \in Elements(Programs)}
    <3>1. PICK p \in Elements(Programs) : k \in {<<"local", p.name, n>> : n \in L(p)}
      BY <2>4
    <3> HIDE DEF L
    <3> QED BY <3>1
  <2> HIDE DEF G, L
  <2> QED BY <1>0, <2>1, <2>2, <2>3, <2>4, Zenon
<1> HIDE DEF G, L
<1>1. ASSUME NEW n, <<"input", "", n>> \in Forceable
      PROVE  n \in TagsOf("in") /\ ForceType(<<"input", "", n>>) = Tags[n].type
  <2>1. n \in TagsOf("in")
    <3> DEFINE k == <<"input", "", n>>
    <3>1. k[1] = "input" /\ k[3] = n /\ k \in Forceable
      BY <1>1
    <3> HIDE DEF k
    <3> QED BY <1>5, <3>1
  <2>2. <<"input", "", n>>[1] = "input" /\ <<"input", "", n>>[3] = n
    OBVIOUS
  <2> QED BY <2>1, <2>2 DEF ForceType
<1>2. ASSUME NEW n, <<"output", "", n>> \in Forceable
      PROVE  n \in TagsOf("out") /\ ForceType(<<"output", "", n>>) = Tags[n].type
  <2>1. n \in TagsOf("out")
    <3> DEFINE k == <<"output", "", n>>
    <3>1. k[1] = "output" /\ k[3] = n /\ k \in Forceable
      BY <1>2
    <3> HIDE DEF k
    <3> QED BY <1>5, <3>1
  <2>2. <<"output", "", n>>[1] = "output" /\ <<"output", "", n>>[3] = n
    OBVIOUS
  <2> QED BY <2>1, <2>2 DEF ForceType
<1>3. ASSUME NEW n, <<"global", "", n>> \in Forceable
      PROVE  /\ n \in DOMAIN MergedGlobals(Programs) /\ MergedGlobals(Programs)[n].fb = "none"
             /\ ForceType(<<"global", "", n>>) = MergedGlobals(Programs)[n].type
  <2>1. n \in G
    <3> DEFINE k == <<"global", "", n>>
    <3>1. k[1] = "global" /\ k[3] = n /\ k \in Forceable
      BY <1>3
    <3> HIDE DEF k
    <3> QED BY <1>5, <3>1
  <2>2. <<"global", "", n>>[1] = "global" /\ <<"global", "", n>>[3] = n
    OBVIOUS
  <2>3. ForceType(<<"global", "", n>>) = MergedGlobals(Programs)[n].type
    BY <2>2 DEF ForceType
  <2> QED BY <2>1, <2>3 DEF G
<1>4. ASSUME NEW i \in DOMAIN Programs, NEW n, <<"local", Programs[i].name, n>> \in Forceable
      PROVE  /\ n \in Owned(Programs[i], "local") /\ Programs[i].syms[n].fb = "none"
             /\ ForceType(<<"local", Programs[i].name, n>>) = Programs[i].syms[n].type
  <2> DEFINE x == Programs[i].name
             k == <<"local", x, n>>
  <2>1. k[1] = "local" /\ k[2] = x /\ k[3] = n /\ Named(x) = Programs[i]
    BY NamedIsUnique DEF TypedList
  <2>2. PICK p \in Elements(Programs) : k \in {<<"local", p.name, y>> : y \in L(p)}
    BY <1>0, <1>4
  <2>3. p.name = x /\ n \in L(p)
    BY <2>2
  <2>4. PICK j \in DOMAIN Programs : p = Programs[j]
    BY DEF Elements
  <2>5. p = Programs[i]
    BY <2>3, <2>4 DEF TypedList, IsList
  <2> HIDE DEF k
  <2>6. ForceType(k) = Programs[i].syms[n].type
    BY <2>1 DEF ForceType
  <2> QED BY <2>3, <2>5, <2>6 DEF k, L
<1> QED BY <1>1, <1>2, <1>3, <1>4

(* Typed forces keep the memory typed.                                     *)
LEMMA PinnedIsTyped ==
  ASSUME TypedList, NEW f, IsForces(f), TypedForces(f), NEW m, IsMem(m), TypedMem(m)
  PROVE  TypedMem(ApplyForces(f, m))
<1> DEFINE w == ApplyForces(f, m)
<1>0. IsList /\ TypedPrograms(Programs) /\ Mergeable(Programs)
  BY DEF TypedList
<1>1. /\ Over(m, Parts) /\ DOMAIN m.input = TagsOf("in") /\ DOMAIN m.output = TagsOf("out")
      /\ DOMAIN m.global = DOMAIN MergedGlobals(Programs) /\ DOMAIN m.local = Names
      /\ \A x \in Names : DOMAIN m.local[x] = Owned(Named(x), "local")
  BY DEF IsMem, Over
<1>2. /\ w.input = Pin(f, "input", "", m.input) /\ w.output = Pin(f, "output", "", m.output)
      /\ w.global = Pin(f, "global", "", m.global) /\ w.told = m.told
      /\ w.local = [p \in DOMAIN m.local |-> Pin(f, "local", p, m.local[p])]
  BY <1>1 DEF ApplyForces, Over, Parts
<1>3. DOMAIN f \subseteq Forceable
  BY DEF IsForces
<1> HIDE DEF w
<1>4. ASSUME NEW n \in TagsOf("in") PROVE IsValue(w.input[n], Tags[n].type) /\ IsValue(w.told[n], Tags[n].type)
  <2> DEFINE k == <<"input", "", n>>
  <2>1. w.input[n] = IF k \in DOMAIN f THEN f[k] ELSE m.input[n]
    BY <1>1, <1>2 DEF Pin
  <2>2. k \in DOMAIN f => ForceType(k) = Tags[n].type
    BY <1>3, ForcedValues
  <2>3. k \in DOMAIN f => IsValue(f[k], ForceType(k))
    BY Zenon DEF TypedForces
  <2>4. IsValue(m.input[n], Tags[n].type) /\ IsValue(m.told[n], Tags[n].type)
    BY Zenon DEF TypedMem
  <2> HIDE DEF k
  <2> QED BY <1>2, <2>1, <2>2, <2>3, <2>4, Zenon
<1>5. ASSUME NEW n \in TagsOf("out") PROVE IsValue(w.output[n], Tags[n].type)
  <2> DEFINE k == <<"output", "", n>>
  <2>1. w.output[n] = IF k \in DOMAIN f THEN f[k] ELSE m.output[n]
    BY <1>1, <1>2 DEF Pin
  <2>2. k \in DOMAIN f => ForceType(k) = Tags[n].type
    BY <1>3, ForcedValues
  <2>3. k \in DOMAIN f => IsValue(f[k], ForceType(k))
    BY Zenon DEF TypedForces
  <2>4. IsValue(m.output[n], Tags[n].type)
    BY Zenon DEF TypedMem
  <2> HIDE DEF k
  <2> QED BY <2>1, <2>2, <2>3, <2>4, Zenon
<1>6. ASSUME NEW i \in DOMAIN Programs, NEW n \in Owned(Programs[i], "global")
      PROVE  Suits(w.global[n], Programs[i].syms[n])
  <2> DEFINE k == <<"global", "", n>>
             s == Programs[i].syms[n]
  <2>0. n \in DOMAIN MergedGlobals(Programs)
    BY DEF MergedGlobals, Elements
  <2>1. w.global[n] = IF k \in DOMAIN f THEN f[k] ELSE m.global[n]
    BY <1>1, <1>2, <2>0 DEF Pin
  <2>2. k \in DOMAIN f => /\ MergedGlobals(Programs)[n].fb = "none"
                          /\ ForceType(k) = MergedGlobals(Programs)[n].type
    BY <1>3, ForcedValues
  <2>3. s.type = MergedGlobals(Programs)[n].type /\ s.fb = MergedGlobals(Programs)[n].fb
    BY <1>0, <2>0, MergedAgrees
  <2>4. k \in DOMAIN f => IsValue(f[k], ForceType(k))
    BY Zenon DEF TypedForces
  <2>5. Suits(m.global[n], s)
    BY Zenon DEF TypedMem
  <2> HIDE DEF k, s
  <2>6. k \in DOMAIN f => Suits(f[k], s)
    BY <2>2, <2>3, <2>4, Zenon DEF Suits
  <2> QED BY <2>1, <2>5, <2>6, Zenon DEF s
<1>7. ASSUME NEW i \in DOMAIN Programs, NEW n \in Owned(Programs[i], "local")
      PROVE  Suits(w.local[Programs[i].name][n], Programs[i].syms[n])
  <2> DEFINE x == Programs[i].name
             k == <<"local", x, n>>
             s == Programs[i].syms[n]
  <2>0. x \in Names /\ Named(x) = Programs[i]
    BY <1>0, NamedIsUnique
  <2>1. w.local[x][n] = IF k \in DOMAIN f THEN f[k] ELSE m.local[x][n]
    <3>1. w.local[x] = Pin(f, "local", x, m.local[x])
      BY <1>1, <1>2, <2>0
    <3>2. n \in DOMAIN m.local[x]
      BY <1>1, <2>0
    <3> QED BY <3>1, <3>2 DEF Pin
  <2>2. k \in DOMAIN f => s.fb = "none" /\ ForceType(k) = s.type
    BY <1>3, ForcedValues
  <2>4. k \in DOMAIN f => IsValue(f[k], ForceType(k))
    BY Zenon DEF TypedForces
  <2>5. Suits(m.local[x][n], s)
    BY Zenon DEF TypedMem
  <2> HIDE DEF k, s, x
  <2>6. k \in DOMAIN f => Suits(f[k], s)
    BY <2>2, <2>4, Zenon DEF Suits
  <2> QED BY <2>1, <2>5, <2>6, Zenon DEF s, x
<1> QED BY <1>4, <1>5, <1>6, <1>7, Zenon DEF TypedMem, w

(* The first value of a symbol fits it.                                    *)
LEMMA InitialFits ==
  ASSUME NEW s, IsSymbol(s)
  PROVE  Suits(MakeValue(s), s)
<1>1. CASE s.fb # "none"
  <2>1. MakeValue(s) = NewBlock(s.fb)
    BY <1>1, Zenon DEF MakeValue
  <2>2. s.fb \in BlockTypes
    BY <1>1 DEF IsSymbol
  <2> QED BY <1>1, <2>1, <2>2, NewBlockIsBlock, Zenon DEF Suits
<1>2. CASE s.fb = "none" /\ s.init # NoValue
  <2>1. MakeValue(s) = s.init
    BY <1>2, Zenon DEF MakeValue
  <2> QED BY <1>2, <2>1, Zenon DEF Suits, IsSymbol
<1>3. CASE s.fb = "none" /\ s.init = NoValue
  <2>1. MakeValue(s) = DefaultValue(s.type)
    BY <1>3, Zenon DEF MakeValue
  <2>2. s.type \in ValueTypes
    BY <1>3, Zenon DEF IsSymbol
  <2> QED BY <1>3, <2>1, <2>2, DefaultIsValue, Zenon DEF Suits
<1> QED BY <1>1, <1>2, <1>3

(* A runtime built anew is typed.                                          *)
LEMMA BuiltIsTyped ==
  ASSUME TypedList, NEW f, IsForces(f), TypedForces(f)
  PROVE  TypedMem(Built(f))
<1> DEFINE gl == [n \in DOMAIN MergedGlobals(Programs) |-> MakeValue(MergedGlobals(Programs)[n])]
           sy == SysImage(FALSE, RealV(0, 1), TRUE, RealV(0, 1))
           lo == [x \in Names |-> [n \in Owned(Named(x), "local") |-> MakeValue(Named(x).syms[n])]]
           m == [input |-> TagImage("in"), told |-> TagImage("in"), output |-> TagImage("out"),
                 global |-> gl, sys |-> sy, local |-> lo]
<1>0. IsList /\ Mergeable(Programs) /\ TypedTags /\ TypedPrograms(Programs)
  BY DEF TypedList
<1>1. Built(f) = ApplyForces(f, m)
  BY Zenon DEF Built
<1>2. /\ Over(TagImage("in"), TagsOf("in")) /\ Over(TagImage("out"), TagsOf("out"))
      /\ Over(gl, DOMAIN MergedGlobals(Programs)) /\ Over(lo, Names)
  BY DEF Over, TagImage
<1>3. \A x \in Names : Over(lo[x], Owned(Named(x), "local"))
  BY DEF Over
<1>4. \A n \in DOMAIN MergedGlobals(Programs) : gl[n] = MakeValue(MergedGlobals(Programs)[n])
  OBVIOUS
<1>5. \A x \in Names : \A n \in Owned(Named(x), "local") : lo[x][n] = MakeValue(Named(x).syms[n])
  OBVIOUS
<1> HIDE DEF gl, sy, lo
<1>6. /\ Over(m, Parts) /\ m.input = TagImage("in") /\ m.told = TagImage("in") /\ m.output = TagImage("out")
      /\ m.global = gl /\ m.local = lo
  BY DEF Over, Parts
<1> HIDE DEF m
<1>7. IsMem(m)
  BY <1>2, <1>3, <1>6 DEF IsMem
<1>8. TypedMem(m)
  <2>1. ASSUME NEW dir \in {"in", "out"}, NEW n \in TagsOf(dir) PROVE IsValue(TagImage(dir)[n], Tags[n].type)
    <3>1. TagImage(dir)[n] = DefaultValue(Tags[n].type) /\ n \in DOMAIN Tags
      BY DEF TagImage, TagsOf
    <3> QED BY <1>0, <3>1, DefaultIsValue DEF TypedTags
  <2>2. ASSUME NEW i \in DOMAIN Programs, NEW n \in Owned(Programs[i], "global")
        PROVE  Suits(m.global[n], Programs[i].syms[n])
    <3> DEFINE s == MergedGlobals(Programs)[n]
    <3>1. n \in DOMAIN MergedGlobals(Programs)
      BY DEF MergedGlobals, Elements
    <3>2. PICK j \in DOMAIN Programs : n \in Owned(Programs[j], "global") /\ s = Programs[j].syms[n]
      BY <1>0, <3>1, MergedAgrees
    <3>3. IsSymbol(s)
      BY <1>0, <3>2 DEF TypedPrograms, Owned
    <3>4. m.global[n] = MakeValue(s)
      BY <1>4, <1>6, <3>1
    <3>5. Programs[i].syms[n].type = s.type /\ Programs[i].syms[n].fb = s.fb
      BY <1>0, <3>1, MergedAgrees
    <3> HIDE DEF s
    <3> QED BY <3>3, <3>4, <3>5, InitialFits, FitsAll
  <2>3. ASSUME NEW i \in DOMAIN Programs, NEW n \in Owned(Programs[i], "local")
        PROVE  Suits(m.local[Programs[i].name][n], Programs[i].syms[n])
    <3>1. Programs[i].name \in Names /\ Named(Programs[i].name) = Programs[i]
      BY <1>0, NamedIsUnique
    <3>2. m.local[Programs[i].name][n] = MakeValue(Programs[i].syms[n])
      BY <1>5, <1>6, <3>1
    <3>3. IsSymbol(Programs[i].syms[n])
      BY <1>0 DEF TypedPrograms, Owned
    <3> QED BY <3>2, <3>3, InitialFits
  <2> QED BY <1>6, <2>1, <2>2, <2>3, Zenon DEF TypedMem
<1> QED BY <1>1, <1>7, <1>8, PinnedIsTyped

(* No program failed inside.                                               *)
NoneInternal(faults) == \A x \in faults : x[2] # "internal"

(* What a program finds is typed.                                          *)
LEMMA ContextIsTyped ==
  ASSUME TypedList, NEW a, IsAcc(a), TypedMem(a.mem), TypedSys(a.mem.sys),
         NEW i \in DOMAIN Programs, NEW dt, IsReal(dt)
  PROVE  TypedContext(Context(a, Programs[i], dt), Programs[i])
<1> DEFINE p == Programs[i]
           c == Context(a, p, dt)
           m == a.mem
           lo == m.local[p.name]
           st == [local |-> lo, global |-> m.global, input |-> m.input, output |-> m.output, sys |-> m.sys]
<1>1. p.name \in Names /\ Named(p.name) = p
  BY NamedIsUnique DEF TypedList
<1>2. /\ Over(lo, Owned(p, "local")) /\ Over(m.input, TagsOf("in")) /\ Over(m.output, TagsOf("out"))
      /\ DOMAIN m.global = DOMAIN MergedGlobals(Programs)
  <2>1. Over(m.local[p.name], Owned(Named(p.name), "local"))
    BY <1>1 DEF IsAcc, IsMem
  <2> HIDE DEF p, m
  <2> QED BY <1>1, <2>1 DEF IsAcc, IsMem, Over, m
<1>3. Owned(p, "global") \subseteq DOMAIN MergedGlobals(Programs)
  BY DEF MergedGlobals, Elements
<1>4. /\ \A n \in Owned(p, "local") : Suits(lo[n], p.syms[n])
      /\ \A n \in Owned(p, "global") : Suits(m.global[n], p.syms[n])
      /\ \A n \in TagsOf("out") : IsValue(m.output[n], Tags[n].type)
      /\ \A n \in TagsOf("in") : IsValue(m.input[n], Tags[n].type)
  BY Zenon DEF TypedMem
<1>5. c = [store |-> st, dt |-> dt, steps |-> << >>, written |-> a.written]
  BY Zenon DEF Context
<1>6. TypedSys(m.sys)
  OBVIOUS
<1> HIDE DEF m, lo, p, c, st
<1>7. /\ Over(st, {"local", "global", "input", "output", "sys"})
      /\ st.local = lo /\ st.global = m.global /\ st.input = m.input /\ st.output = m.output /\ st.sys = m.sys
  BY DEF st, Over
<1>8. Over(c, {"store", "dt", "steps", "written"}) /\ c.store = st /\ c.dt = dt /\ c.steps = << >>
  BY <1>5 DEF Over
<1>9. IsContext(c, p)
  BY <1>2, <1>3, <1>7, <1>8 DEF IsContext
<1>10. TypedStore(c.store, p)
  BY <1>4, <1>7, <1>8, Zenon DEF TypedStore
<1> QED BY <1>2, <1>4, <1>6, <1>7, <1>8, <1>9, <1>10 DEF TypedContext, c, p

(* A program that does not fail leaves its locals, the globals it declares *)
(* and the outputs.                                                        *)
LEMMA ProgramLeaves ==
  ASSUME IsList, NEW a, IsAcc(a), NEW i \in DOMAIN Programs, NEW dt, ~Fails(a, i, dt)
  PROVE  LET p == Programs[i]
             s == Body(a, i, dt).ctx.store
             w == RunProgram(a, p, dt).mem
         IN  /\ w.local = [a.mem.local EXCEPT ![p.name] = Kept(a.mem.local[p.name], Owned(p, "local"), s.local)]
             /\ w.global = Kept(a.mem.global, Owned(p, "global"), s.global)
             /\ w.output = Kept(a.mem.output, TagsOf("out"), s.output)
<1> DEFINE p == Programs[i]
           n == p.name
           r == Body(a, i, dt)
           left == r.ctx.store
           lo == Kept(a.mem.local[n], DOMAIN a.mem.local[n], left.local)
           gl == Kept(a.mem.global, Owned(p, "global"), left.global)
           ou == Kept(a.mem.output, DOMAIN a.mem.output, left.output)
           m == [a.mem EXCEPT !.local[n] = lo, !.global = gl, !.output = ou]
           w == RunProgram(a, p, dt)
<1>1. n \in Names /\ Named(n) = p
  BY NamedIsUnique
<1>2. /\ Over(a.mem, Parts) /\ DOMAIN a.mem.local[n] = Owned(p, "local") /\ DOMAIN a.mem.output = TagsOf("out")
      /\ DOMAIN a.mem.local = Names
  <2>1. Over(a.mem.local[n], Owned(Named(n), "local"))
    BY <1>1 DEF IsAcc, IsMem
  <2> HIDE DEF n, p
  <2> QED BY <1>1, <2>1 DEF IsAcc, IsMem, Over
<1>3. w = [a EXCEPT !.mem = m, !.written = r.ctx.written]
  <2>1. r.sig \in {"go", "return"}
    BY Zenon DEF Fails
  <2> QED BY <2>1, Zenon DEF RunProgram, Leave, Body
<1> HIDE DEF p, n, r, w, left, lo, gl, ou
<1>4. m.global = gl /\ m.output = ou /\ m.local = [a.mem.local EXCEPT ![n] = lo]
  BY <1>2 DEF Over, Parts
<1> HIDE DEF m
<1>5. w.mem = m
  BY <1>3 DEF IsAcc, Over
<1> QED BY <1>2, <1>4, <1>5, Zenon DEF w, p, n, left, r, lo, gl, ou

(* A program leaves typed values, whether it fails or not.                 *)
LEMMA ProgramKeepsTypes ==
  ASSUME TypedList, NEW a, IsAcc(a), TypedMem(a.mem), TypedSys(a.mem.sys), NoneInternal(a.faults),
         NEW i \in DOMAIN Programs, NEW dt, IsReal(dt)
  PROVE  LET w == RunProgram(a, Programs[i], dt)
         IN  IsAcc(w) /\ TypedMem(w.mem) /\ TypedSys(w.mem.sys) /\ NoneInternal(w.faults)
<1> DEFINE p == Programs[i]
           w == RunProgram(a, p, dt)
           r == Body(a, i, dt)
           s == r.ctx.store
<1>0. IsList /\ TypedPrograms(Programs) /\ Mergeable(Programs)
  BY DEF TypedList
<1>1. /\ IsAcc(w) /\ w.mem.input = a.mem.input /\ w.mem.told = a.mem.told /\ w.mem.sys = a.mem.sys
      /\ Fails(a, i, dt) => w.mem = a.mem /\ w.faults = a.faults \cup {<<p.name, r.sig>>}
      /\ ~Fails(a, i, dt) => w.faults = a.faults
  BY <1>0, ProgramKeepsShape
<1>2. r.sig # "internal" /\ (r.sig \in {"go", "return"} => TypedStore(s, p))
  <2>1. KeepsTypes(p)
    BY <1>0 DEF TypedPrograms
  <2>2. TypedContext(Context(a, p, dt), p)
    BY ContextIsTyped
  <2>3. r = RunBody(Context(a, p, dt), p)
    BY Zenon DEF Body
  <2> HIDE DEF p, r
  <2> QED BY <2>1, <2>2, <2>3, Zenon DEF KeepsTypes
<1>3. CASE Fails(a, i, dt)
  <2>1. NoneInternal(w.faults)
    <3>1. <<p.name, r.sig>>[2] = r.sig
      OBVIOUS
    <3> HIDE DEF p, r, w
    <3> QED BY <1>1, <1>2, <1>3, <3>1 DEF NoneInternal
  <2> HIDE DEF w
  <2> QED BY <1>1, <1>3, <2>1 DEF w
<1>4. CASE ~Fails(a, i, dt)
  <2>1. TypedStore(s, p)
    BY <1>2, <1>4, Zenon DEF Fails
  <2>2. /\ w.mem.local = [a.mem.local EXCEPT ![p.name] = Kept(a.mem.local[p.name], Owned(p, "local"), s.local)]
        /\ w.mem.global = Kept(a.mem.global, Owned(p, "global"), s.global)
        /\ w.mem.output = Kept(a.mem.output, TagsOf("out"), s.output)
    BY <1>0, <1>4, ProgramLeaves
  <2>3. p.name \in Names /\ Named(p.name) = p /\ p \in Elements(Programs)
    BY <1>0, NamedIsUnique DEF Elements
  <2>4. /\ DOMAIN a.mem.local = Names /\ DOMAIN a.mem.local[p.name] = Owned(p, "local")
        /\ DOMAIN a.mem.global = DOMAIN MergedGlobals(Programs) /\ DOMAIN a.mem.output = TagsOf("out")
    <3>1. Over(a.mem.local[p.name], Owned(Named(p.name), "local"))
      BY <2>3 DEF IsAcc, IsMem
    <3> HIDE DEF p
    <3> QED BY <2>3, <3>1 DEF IsAcc, IsMem, Over
  <2> HIDE DEF w, s, r
  <2>5. ASSUME NEW n \in TagsOf("out") PROVE IsValue(w.mem.output[n], Tags[n].type)
    <3>1. w.mem.output[n] = s.output[n]
      BY <2>2, <2>4 DEF Kept
    <3> QED BY <2>1, <3>1, Zenon DEF TypedStore
  <2>6. ASSUME NEW j \in DOMAIN Programs, NEW n \in Owned(Programs[j], "global")
        PROVE  Suits(w.mem.global[n], Programs[j].syms[n])
    <3> DEFINE q == Programs[j]
    <3>0. n \in DOMAIN MergedGlobals(Programs)
      BY DEF MergedGlobals, Elements
    <3>1. CASE n \in Owned(p, "global")
      <4>1. w.mem.global[n] = s.global[n]
        BY <2>2, <2>4, <3>0, <3>1 DEF Kept
      <4>2. Suits(s.global[n], p.syms[n])
        BY <2>1, <3>1, Zenon DEF TypedStore
      <4>3. p.syms[n].type = q.syms[n].type /\ p.syms[n].fb = q.syms[n].fb
        BY <1>0, <3>0, <3>1, MergedAgrees
      <4> HIDE DEF p, q
      <4> QED BY <4>1, <4>2, <4>3, FitsAll DEF q
    <3>2. CASE n \notin Owned(p, "global")
      <4>1. w.mem.global[n] = a.mem.global[n]
        BY <2>2, <2>4, <3>0, <3>2 DEF Kept
      <4>2. Suits(a.mem.global[n], Programs[j].syms[n])
        BY Zenon DEF TypedMem
      <4> QED BY <4>1, <4>2
    <3> QED BY <3>1, <3>2
  <2>7. ASSUME NEW j \in DOMAIN Programs, NEW n \in Owned(Programs[j], "local")
        PROVE  Suits(w.mem.local[Programs[j].name][n], Programs[j].syms[n])
    <3> DEFINE x == Programs[j].name
    <3>1. CASE j = i
      <4>1. w.mem.local[p.name] = Kept(a.mem.local[p.name], Owned(p, "local"), s.local)
        BY <2>2, <2>3, <2>4
      <4>2. w.mem.local[p.name][n] = s.local[n]
        BY <2>4, <3>1, <4>1 DEF Kept
      <4> QED BY <2>1, <3>1, <4>2 DEF TypedStore
    <3>2. CASE j # i
      <4>1. x # p.name /\ x \in Names
        BY <1>0, <3>2, NamedIsUnique DEF IsList
      <4>2. w.mem.local[x] = a.mem.local[x]
        BY <2>2, <2>4, <4>1
      <4>3. Suits(a.mem.local[x][n], Programs[j].syms[n])
        BY Zenon DEF TypedMem
      <4> QED BY <4>2, <4>3
    <3> QED BY <3>1, <3>2
  <2>8. \A n \in TagsOf("in") : IsValue(w.mem.input[n], Tags[n].type) /\ IsValue(w.mem.told[n], Tags[n].type)
    BY <1>1, Zenon DEF TypedMem
  <2>9. TypedMem(w.mem)
    BY <2>5, <2>6, <2>7, <2>8, Zenon DEF TypedMem
  <2> QED BY <1>1, <1>4, <2>9 DEF w
<1> QED BY <1>3, <1>4

(* The whole pass keeps the types, and no program of it fails inside.      *)
Entering(a) == IsAcc(a) /\ TypedMem(a.mem) /\ TypedSys(a.mem.sys) /\ NoneInternal(a.faults)

(* Nor does a whole pass of programs lose a type.                          *)
LEMMA PassKeepsTypes ==
  ASSUME TypedList, NEW dt, IsReal(dt), NEW skip, NEW f,
         f[0] = Entered(dt), Entering(Entered(dt)),
         \A n \in 0 .. Len(Programs) - 1 : f[n + 1] = NextProgram(f[n], Programs[n + 1], dt, skip)
  PROVE  \A n \in 0 .. Len(Programs) : Entering(f[n])
<1> DEFINE L == Len(Programs)
           S == {n \in 0 .. L : Entering(f[n])}
<1>0. L \in Nat /\ IsList
  BY DEF TypedList, IsList
<1>1. 0 \in S
  BY <1>0
<1>2. ASSUME NEW n \in 0 .. L - 1, n \in S PROVE n + 1 \in S
  <2>1. n + 1 \in DOMAIN Programs /\ n + 1 \in 0 .. L
    BY <1>0 DEF IsList
  <2>2. f[n + 1] = NextProgram(f[n], Programs[n + 1], dt, skip) /\ Entering(f[n])
    BY <1>2
  <2>3. Entering(f[n + 1])
    <3>1. CASE Programs[n + 1].name \in skip
      BY <2>2, <3>1 DEF NextProgram
    <3>2. CASE Programs[n + 1].name \notin skip
      <4>1. f[n + 1] = RunProgram(f[n], Programs[n + 1], dt)
        BY <2>2, <3>2 DEF NextProgram
      <4> QED BY <2>1, <2>2, <4>1, ProgramKeepsTypes DEF Entering
    <3> QED BY <3>1, <3>2
  <2> QED BY <2>1, <2>3
<1> HIDE DEF S
<1>3. \A n \in 0 .. L : n \in S
  BY <1>0, <1>1, <1>2, IntervalInduction
<1> QED BY <1>3 DEF S

(* A scan of a typed memory leaves one.                                    *)
LEMMA ScanKeepsTypes ==
  ASSUME ForcesInv, TypedList, TypedMem(mem), TypedForces(forced), IsReal(time),
         NEW dt, IsReal(dt), NEW skip
  PROVE  TypedMem(Scanned(dt, skip).mem) /\ NoneInternal(Scanned(dt, skip).faults)
<1> DEFINE e == Entered(dt)
           y == SysImage(abort, dt, scans = 0, time)
           a == Passed(dt, skip)
           q == Scanned(dt, skip)
<1>0. IsList /\ IsForces(forced) /\ Over(mem, Parts) /\ Len(Programs) \in 0 .. Len(Programs)
  <2>1. Len(Programs) \in 0 .. Len(Programs)
    BY DEF ForcesInv, IsList
  <2> QED BY <2>1, MemParts
<1>1. e.mem = [mem EXCEPT !.sys = y] /\ IsAcc(e) /\ e.faults = {}
  BY EnteredIsMem
<1>2. TypedSys(y)
  <2>1. /\ y.SYS_ABORT = BoolV(abort) /\ y.SYS_SCAN_TIME = dt /\ y.SYS_FIRST_SCAN = BoolV(scans = 0) /\ y.SYS_TIME = time
        /\ DOMAIN y = {"SYS_ABORT", "SYS_SCAN_TIME", "SYS_FIRST_SCAN", "SYS_TIME"}
    BY DEF SysImage
  <2>2. IsBool(BoolV(abort)) /\ IsBool(BoolV(scans = 0))
    BY BoolIsValue
  <2> QED BY <2>1, <2>2, Zenon DEF TypedSys
<1> HIDE DEF e, y, a, q
<1>3. e.mem.sys = y /\ e.mem.input = mem.input /\ e.mem.told = mem.told /\ e.mem.output = mem.output
      /\ e.mem.global = mem.global /\ e.mem.local = mem.local
  BY <1>0, <1>1 DEF Over, Parts
<1>4. TypedMem(e.mem)
  BY <1>3, Zenon DEF TypedMem
<1>5. Entering(e)
  BY <1>1, <1>2, <1>3, <1>4 DEF Entering, NoneInternal
<1>6. PICK f : /\ f[0] = e
               /\ \A n \in 0 .. Len(Programs) - 1 : f[n + 1] = NextProgram(f[n], Programs[n + 1], dt, skip)
               /\ a = f[Len(Programs)]
  BY <1>0, PassedIsPass DEF e, a
<1>7. Entering(a)
  BY <1>0, <1>5, <1>6, PassKeepsTypes DEF e
<1>8. q.mem = ApplyForces(forced, a.mem) /\ q.faults = a.faults
  <2>1. q = [a EXCEPT !.mem = ApplyForces(forced, @)]
    BY Zenon DEF Scanned, Forced, q, a
  <2>2. Over(a, {"mem", "written", "faults"})
    BY <1>7 DEF Entering, IsAcc
  <2> QED BY <2>1, <2>2 DEF Over
<1>9. IsMem(a.mem) /\ TypedMem(a.mem) /\ NoneInternal(a.faults)
  BY <1>7 DEF Entering, IsAcc
<1>10. TypedMem(ApplyForces(forced, a.mem))
  BY <1>0, <1>9, PinnedIsTyped
<1> QED BY <1>8, <1>9, <1>10 DEF q

(* Every value written or forced is one that the type accepts, and every   *)
(* scan has a length.                                                      *)
RequestsPlanned ==
  /\ \A n \in DOMAIN plan.inputs \cap TagsOf("in") : \A v \in plan.inputs[n] : Accepted(v, Tags[n].type)
  /\ \A n \in DOMAIN plan.globals \cap DOMAIN MergedGlobals(Programs) : \A v \in plan.globals[n] :
       MergedGlobals(Programs)[n].fb = "none" => Accepted(v, MergedGlobals(Programs)[n].type)
  /\ \A k \in DOMAIN plan.forces \cap Forceable : \A v \in plan.forces[k] : Accepted(v, ForceType(k))
  /\ \A dt \in plan.dts : IsReal(dt)

(* A plan with typed tags and programs, and with requests that they accept. *)
TypesPlanned == TypedTags /\ TypedPrograms(Programs) /\ RequestsPlanned

TypesInv ==
  /\ ForcesInv /\ TypesPlanned /\ Mergeable(Programs)
  /\ TypedMem(mem) /\ TypedForces(forced) /\ IsReal(time) /\ NoneInternal(result.faults)

(* The invariant, put together from its parts.                             *)
LEMMA TypesInvAfter ==
  ASSUME TypesInv, ForcesInv', plan' = plan, TypedMem(mem'), TypedForces(forced'),
         IsReal(time'), NoneInternal(result'.faults)
  PROVE  TypesInv'
<1>1. Programs' = Programs /\ Forceable' = Forceable /\ \A x : Named(x)' = Named(x)
  BY PlanIsKept
<1>2. Mergeable(Programs)'
  BY <1>1, Zenon DEF TypesInv
<1>3. \A k : ForceType(k)' = ForceType(k)
  BY <1>1, Zenon DEF ForceType
<1>4. TypesPlanned'
  BY <1>1, <1>3, Zenon DEF TypesInv, TypesPlanned, RequestsPlanned
<1>5. TypedMem(mem)'
  BY <1>1, Zenon DEF TypedMem
<1>6. TypedForces(forced)'
  BY <1>3, Zenon DEF TypedForces
<1> QED BY <1>2, <1>4, <1>5, <1>6, Zenon DEF TypesInv

(* What the invariant says of the list and the forces.                     *)
LEMMA TypesParts ==
  ASSUME TypesInv
  PROVE  /\ ForcesInv /\ TypedList /\ TypedMem(mem) /\ TypedForces(forced)
         /\ TypedTags /\ IsReal(time) /\ NoneInternal(result.faults)
         /\ IsList /\ Mergeable(Programs) /\ TypedPrograms(Programs)
BY Zenon DEF TypesInv, TypesPlanned, TypedList, ForcesInv

(* A value written to an input.                                            *)
LEMMA WriteInputsKeepsTypes ==
  ASSUME TypesInv, NEW n \in DOMAIN plan.inputs, NEW v \in plan.inputs[n], WriteInputs(n, v)
  PROVE  TypedMem(mem')
<1> DEFINE t == Tags[n].type
           x == Coerce(v, t)
           y == IF <<"input", "", n>> \in DOMAIN forced THEN mem.input[n] ELSE x
<1>1. n \in TagsOf("in") /\ mem' = [mem EXCEPT !.told[n] = x, !.input[n] = y]
  BY Zenon DEF WriteInputs
<1>2. IsValue(x, t)
  <2>1. Accepted(v, t)
    BY <1>1, Zenon DEF TypesInv, TypesPlanned, RequestsPlanned
  <2>2. t \in ValueTypes
    BY <1>1, TypesParts DEF TypedTags, TagsOf
  <2> HIDE DEF t
  <2> QED BY <2>1, <2>2, AcceptedGivesValue
<1>3. IsValue(y, t)
  <2>1. IsValue(mem.input[n], t)
    BY <1>1, TypesParts, Zenon DEF TypedMem
  <2> QED BY <1>2, <2>1, Zenon
<1> HIDE DEF x, y
<1>4. /\ mem'.told = [mem.told EXCEPT ![n] = x] /\ mem'.input = [mem.input EXCEPT ![n] = y]
      /\ mem'.output = mem.output /\ mem'.global = mem.global /\ mem'.local = mem.local
      /\ Over(mem.told, TagsOf("in")) /\ Over(mem.input, TagsOf("in"))
  BY <1>1, TypesParts, MemParts DEF Over, Parts
<1>5. /\ mem'.told[n] = x /\ mem'.input[n] = y
      /\ \A i \in TagsOf("in") \ {n} : mem'.told[i] = mem.told[i] /\ mem'.input[i] = mem.input[i]
  BY <1>1, <1>4 DEF Over
<1>6. \A i \in TagsOf("in") : IsValue(mem.input[i], Tags[i].type) /\ IsValue(mem.told[i], Tags[i].type)
  BY TypesParts, Zenon DEF TypedMem
<1>7. \A i \in TagsOf("in") : IsValue(mem'.input[i], Tags[i].type) /\ IsValue(mem'.told[i], Tags[i].type)
  BY <1>2, <1>3, <1>5, <1>6
<1>8. TypedMem(mem)
  BY TypesParts
<1> QED BY <1>4, <1>7, <1>8, Zenon DEF TypedMem

(* A value written to a global.                                            *)
LEMMA WriteGlobalsKeepsTypes ==
  ASSUME TypesInv, NEW n \in DOMAIN plan.globals, NEW v \in plan.globals[n], WriteGlobals(n, v)
  PROVE  TypedMem(mem')
<1> DEFINE s == MergedGlobals(Programs)[n]
           y == IF <<"global", "", n>> \in DOMAIN forced THEN forced[<<"global", "", n>>] ELSE Coerce(v, s.type)
<1>1. n \in DOMAIN MergedGlobals(Programs) /\ s.fb = "none" /\ mem' = [mem EXCEPT !.global[n] = y]
  BY Zenon DEF WriteGlobals
<1>2. s.type \in ValueTypes
  <2>1. PICK i \in DOMAIN Programs : n \in Owned(Programs[i], "global") /\ s = Programs[i].syms[n]
    BY <1>1, TypesParts, MergedAgrees
  <2>2. IsSymbol(s)
    BY <2>1, TypesParts DEF TypedPrograms, Owned
  <2> QED BY <1>1, <2>2, Zenon DEF IsSymbol
<1>3. IsValue(y, s.type)
  <2>1. Accepted(v, s.type)
    BY <1>1, Zenon DEF TypesInv, TypesPlanned, RequestsPlanned
  <2>2. IsValue(Coerce(v, s.type), s.type)
    <3> HIDE DEF s
    <3> QED BY <1>2, <2>1, AcceptedGivesValue
  <2>3. CASE <<"global", "", n>> \in DOMAIN forced
    <3>1. <<"global", "", n>> \in Forceable
      BY <2>3, TypesParts, MemParts DEF IsForces
    <3>2. ForceType(<<"global", "", n>>) = s.type
      BY <3>1, TypesParts, ForcedValues
    <3>3. IsValue(forced[<<"global", "", n>>], ForceType(<<"global", "", n>>))
      BY <2>3, TypesParts, Zenon DEF TypedForces
    <3> QED BY <2>3, <3>2, <3>3, Zenon
  <2>4. CASE <<"global", "", n>> \notin DOMAIN forced
    BY <2>2, <2>4, Zenon
  <2> QED BY <2>3, <2>4
<1> HIDE DEF y
<1>4. /\ mem'.told = mem.told /\ mem'.input = mem.input /\ mem'.global = [mem.global EXCEPT ![n] = y]
      /\ mem'.output = mem.output /\ mem'.local = mem.local
      /\ Over(mem.global, DOMAIN MergedGlobals(Programs))
  BY <1>1, TypesParts, MemParts DEF Over, Parts
<1>5. mem'.global[n] = y /\ \A i \in DOMAIN MergedGlobals(Programs) \ {n} : mem'.global[i] = mem.global[i]
  BY <1>1, <1>4 DEF Over
<1>6. ASSUME NEW i \in DOMAIN Programs, NEW x \in Owned(Programs[i], "global")
      PROVE  Suits(mem'.global[x], Programs[i].syms[x])
  <2>1. CASE x = n
    <3>1. Programs[i].syms[n].type = s.type /\ Programs[i].syms[n].fb = s.fb
      BY <1>1, <2>1, TypesParts, MergedAgrees
    <3>2. Suits(y, Programs[i].syms[n])
      BY <1>1, <1>3, <3>1 DEF Suits
    <3> QED BY <1>5, <2>1, <3>2
  <2>2. CASE x # n
    <3>1. x \in DOMAIN MergedGlobals(Programs)
      BY DEF MergedGlobals, Elements
    <3>2. Suits(mem.global[x], Programs[i].syms[x])
      BY TypesParts, Zenon DEF TypedMem
    <3> QED BY <1>5, <2>2, <3>1, <3>2
  <2> QED BY <2>1, <2>2
<1>7. TypedMem(mem)
  BY TypesParts
<1> QED BY <1>4, <1>6, <1>7, Zenon DEF TypedMem

(* A force set.                                                            *)
LEMMA ForceKeepsTypes ==
  ASSUME TypesInv, NEW k \in DOMAIN plan.forces, NEW v \in plan.forces[k], ForceValue(k, v), ForcesInv'
  PROVE  TypedMem(mem') /\ TypedForces(forced')
<1> DEFINE f == [x \in DOMAIN forced \cup {k} |-> IF x = k THEN Coerce(v, ForceType(k)) ELSE forced[x]]
<1>1. k \in Forceable /\ forced' = f /\ mem' = ApplyForces(f, mem) /\ plan' = plan
  BY Zenon DEF ForceValue
<1>2. ForceType(k) \in ValueTypes
  <2>1. CASE k = <<"input", "", k[3]>> /\ k[3] \in TagsOf("in")
    <3>1. ForceType(k) = Tags[k[3]].type
      BY <1>1, <2>1, TypesParts, ForcedValues
    <3> QED BY <2>1, <3>1, TypesParts DEF TypedTags, TagsOf
  <2>2. CASE k = <<"output", "", k[3]>> /\ k[3] \in TagsOf("out")
    <3>1. ForceType(k) = Tags[k[3]].type
      BY <1>1, <2>2, TypesParts, ForcedValues
    <3> QED BY <2>2, <3>1, TypesParts DEF TypedTags, TagsOf
  <2>3. CASE k = <<"global", "", k[3]>> /\ k[3] \in DOMAIN MergedGlobals(Programs)
    <3> DEFINE n == k[3]  s == MergedGlobals(Programs)[n]
    <3>1. ForceType(k) = s.type /\ s.fb = "none"
      BY <1>1, <2>3, TypesParts, ForcedValues
    <3>2. PICK i \in DOMAIN Programs : n \in Owned(Programs[i], "global") /\ s = Programs[i].syms[n]
      BY <2>3, TypesParts, MergedAgrees
    <3>3. IsSymbol(s)
      BY <3>2, TypesParts DEF TypedPrograms, Owned
    <3> QED BY <3>1, <3>3, Zenon DEF IsSymbol
  <2>4. CASE /\ k[1] = "local" /\ k = <<"local", k[2], k[3]>>
             /\ k[2] \in Names /\ k[3] \in Owned(Named(k[2]), "local")
    <3>1. PICK i \in DOMAIN Programs : k[2] = Programs[i].name
      BY <2>4 DEF Names, Elements
    <3>2. ForceType(k) = Programs[i].syms[k[3]].type /\ Programs[i].syms[k[3]].fb = "none"
          /\ k[3] \in Owned(Programs[i], "local")
      BY <1>1, <2>4, <3>1, TypesParts, ForcedValues
    <3>3. IsSymbol(Programs[i].syms[k[3]])
      BY <3>2, TypesParts DEF TypedPrograms, Owned
    <3> QED BY <3>2, <3>3, Zenon DEF IsSymbol
  <2> QED BY <1>1, <2>1, <2>2, <2>3, <2>4, TypesParts, ForceableKinds
<1>3. Accepted(v, ForceType(k))
  BY <1>1, Zenon DEF TypesInv, TypesPlanned, RequestsPlanned
<1>4. IsValue(Coerce(v, ForceType(k)), ForceType(k))
  BY <1>2, <1>3, AcceptedGivesValue
<1>5. TypedForces(f)
  <2>1. TypedForces(forced)
    BY TypesParts
  <2> QED BY <1>4, <2>1 DEF TypedForces
<1> HIDE DEF f
<1>6. IsForces(f)
  BY <1>1, PlanIsKept DEF ForcesInv, IsForces
<1>7. TypedMem(ApplyForces(f, mem))
  BY <1>5, <1>6, TypesParts, MemParts, PinnedIsTyped
<1> QED BY <1>1, <1>5, <1>7

(* A force taken back.                                                     *)
LEMMA UnforceKeepsTypes ==
  ASSUME TypesInv, NEW k, UnforceValue(k)
  PROVE  TypedMem(mem') /\ TypedForces(forced')
<1>1. /\ k \in DOMAIN forced
      /\ forced' = [x \in DOMAIN forced \ {k} |-> forced[x]]
      /\ mem' = IF k[1] = "input" THEN [mem EXCEPT !.input[k[3]] = mem.told[k[3]]] ELSE mem
  BY Zenon DEF UnforceValue
<1>2. TypedForces(forced')
  BY <1>1, TypesParts DEF TypedForces
<1>3. TypedMem(mem)
  BY TypesParts
<1>4. CASE k[1] = "input"
  <2> DEFINE n == k[3]
  <2>1. mem' = [mem EXCEPT !.input[n] = mem.told[n]]
    BY <1>1, <1>4
  <2> HIDE DEF n
  <2>2. /\ mem'.told = mem.told /\ mem'.input = [mem.input EXCEPT ![n] = mem.told[n]]
        /\ mem'.output = mem.output /\ mem'.global = mem.global /\ mem'.local = mem.local
        /\ Over(mem.input, TagsOf("in"))
    BY <2>1, TypesParts, MemParts DEF Over, Parts
  <2>3. \A i \in TagsOf("in") : mem'.input[i] = mem.told[i] \/ mem'.input[i] = mem.input[i]
    BY <2>2 DEF Over
  <2>4. \A i \in TagsOf("in") : IsValue(mem.input[i], Tags[i].type) /\ IsValue(mem.told[i], Tags[i].type)
    BY <1>3, Zenon DEF TypedMem
  <2>5. \A i \in TagsOf("in") : IsValue(mem'.input[i], Tags[i].type)
    BY <2>3, <2>4
  <2> QED BY <1>2, <1>3, <2>2, <2>5, Zenon DEF TypedMem
<1>5. CASE k[1] # "input"
  BY <1>1, <1>2, <1>3, <1>5
<1> QED BY <1>4, <1>5

(* No request and no scan loses a type.                                    *)
LEMMA NextKeepsTypes ==
  ASSUME TypesInv, [HNext]_<<vars, seen>>
  PROVE  TypesInv'
<1>0. ForcesInv'
  BY TypesParts, NextHoldsForces
<1>1. /\ TypedMem(mem) /\ TypedForces(forced) /\ IsReal(time) /\ NoneInternal(result.faults)
      /\ TypedList /\ ForcesInv
  BY TypesParts
<1>2. ASSUME plan' = plan, mem' = mem, forced' = forced, time' = time, result' = result
      PROVE  TypesInv'
  BY <1>0, <1>1, <1>2, TypesInvAfter
<1>3. ASSUME NEW n \in DOMAIN plan.inputs, NEW v \in plan.inputs[n], WriteInputs(n, v) PROVE TypesInv'
  <2>1. plan' = plan /\ forced' = forced /\ time' = time /\ result' = result
    BY <1>3, Zenon DEF WriteInputs
  <2> QED BY <1>0, <1>1, <1>3, <2>1, WriteInputsKeepsTypes, TypesInvAfter
<1>4. ASSUME NEW n \in DOMAIN plan.globals, NEW v \in plan.globals[n], WriteGlobals(n, v) PROVE TypesInv'
  <2>1. plan' = plan /\ forced' = forced /\ time' = time /\ result' = result
    BY <1>4, Zenon DEF WriteGlobals
  <2> QED BY <1>0, <1>1, <1>4, <2>1, WriteGlobalsKeepsTypes, TypesInvAfter
<1>5. ASSUME NEW k \in DOMAIN plan.forces, NEW v \in plan.forces[k], ForceValue(k, v) PROVE TypesInv'
  <2>1. plan' = plan /\ time' = time /\ result' = result
    BY <1>5, Zenon DEF ForceValue
  <2> QED BY <1>0, <1>1, <1>5, <2>1, ForceKeepsTypes, TypesInvAfter
<1>6. ASSUME NEW k, UnforceValue(k) PROVE TypesInv'
  <2>1. plan' = plan /\ time' = time /\ result' = result
    BY <1>6, Zenon DEF UnforceValue
  <2> QED BY <1>0, <1>1, <1>6, <2>1, UnforceKeepsTypes, TypesInvAfter
<1>7. ASSUME NEW n, NEW on, SetProgramEnabled(n, on) PROVE TypesInv'
  BY <1>2, <1>7 DEF SetProgramEnabled
<1>8. ASSUME ClearFaults PROVE TypesInv'
  BY <1>2, <1>8 DEF ClearFaults
<1>9. ASSUME NEW on, SetAbort(on) PROVE TypesInv'
  <2>1. /\ plan' = plan /\ forced' = forced /\ time' = time /\ result' = result
        /\ mem' = [mem EXCEPT !.sys.SYS_ABORT = BoolV(on)]
    BY <1>9 DEF SetAbort
  <2>2. /\ mem'.input = mem.input /\ mem'.told = mem.told
        /\ mem'.output = mem.output /\ mem'.global = mem.global /\ mem'.local = mem.local
    BY <2>1, <1>1, MemParts DEF Over, Parts
  <2>3. TypedMem(mem')
    BY <1>1, <2>2, Zenon DEF TypedMem
  <2> QED BY <1>0, <1>1, <2>1, <2>3, TypesInvAfter
<1>10. ASSUME Reset PROVE TypesInv'
  <2>1. plan' = plan /\ forced' = forced /\ mem' = Built(forced) /\ time' = RealV(0, 1) /\ result' = result
    BY <1>10 DEF Reset
  <2>2. TypedMem(mem')
    BY <1>1, <2>1, MemParts, BuiltIsTyped
  <2>3. IsReal(time')
    BY <2>1 DEF IsReal
  <2> QED BY <1>0, <1>1, <2>1, <2>2, <2>3, TypesInvAfter
<1>11. ASSUME NEW dt \in plan.dts, Scan(dt) PROVE TypesInv'
  <2> DEFINE q == Scanned(dt, Skipped)
  <2>1. plan' = plan /\ forced' = forced /\ time' = Kernel("add", time, dt)
        /\ mem' = q.mem /\ result'.faults = q.faults
    BY <1>11 DEF Scan, Finish
  <2>2. IsReal(dt)
    BY Zenon DEF TypesInv, TypesPlanned, RequestsPlanned
  <2>3. TypedMem(q.mem) /\ NoneInternal(q.faults)
    BY <1>1, <2>2, ScanKeepsTypes
  <2>4. IsReal(Kernel("add", time, dt))
    BY <1>1, <2>2, SumIsReal
  <2> HIDE DEF q
  <2> QED BY <1>0, <1>1, <2>1, <2>3, <2>4, TypesInvAfter
<1>12. CASE UNCHANGED <<vars, seen>>
  BY <1>2, <1>12 DEF vars
<1>13. CASE Next
  BY <1>3, <1>4, <1>5, <1>6, <1>7, <1>8, <1>9, <1>10, <1>11, <1>13, Zenon DEF Next
<1> QED BY <1>12, <1>13, Zenon DEF HNext

(* The delay of a timer is none of its outputs.                            *)
LEMMA NoDelayIsAnOutput ==
  ASSUME NEW t \in BlockTypes
  PROVE  "PT" \notin Elements(OutputsOf(t))
<1>1. OutputsOf(t) \in {<<"Q", "ET">>, <<"Q", "CV">>, <<"QU", "QD", "CV">>, <<"Q">>, <<"Q1", "Q">>}
  BY DEF OutputsOf, BlockTypes, Timers, Counters, Triggers, Latches
<1> QED BY <1>1 DEF Elements

(* A typed memory is a typed image.                                        *)
LEMMA FitsIsTyped ==
  ASSUME NEW v, NEW s, IsSymbol(s), Suits(v, s)
  PROVE  TypedSym(v, s)
<1>1. CASE s.fb = "none"
  <2>1. s.type \in ValueTypes /\ IsValue(v, s.type)
    BY <1>1, Zenon DEF IsSymbol, Suits
  <2> QED BY <1>1, <2>1, ValueIsTyped, Zenon DEF TypedSym
<1>2. CASE s.fb # "none"
  <2>1. s.fb \in BlockTypes /\ IsBlock(v, s.fb)
    BY <1>2, Zenon DEF IsSymbol, Suits
  <2>2. ASSUME NEW f \in Elements(OutputsOf(s.fb)) PROVE Typed(v[f], FieldType(f))
    <3>1. f \in FieldsOf(s.fb)
      BY DEF FieldsOf
    <3>2. FieldFits(v[f], f) /\ f # "PT"
      BY <2>1, <3>1, NoDelayIsAnOutput, Zenon DEF IsBlock
    <3>3. FieldType(f) \in ValueTypes
      BY <2>1, <3>1, FieldsAreNamed, FieldTypes DEF ValueTypes, NumericTypes, IntTypes, FieldNames
    <3> QED BY <3>2, <3>3, ValueIsTyped DEF FieldFits
  <2> QED BY <1>2, <2>2, Zenon DEF TypedSym
<1> QED BY <1>1, <1>2

(* The invariant says what the property asks.                              *)
LEMMA ImageFromTypes ==
  ASSUME TypesInv
  PROVE  ImageIsTyped
<1>1. \A x \in result.faults : x[2] # "internal"
  BY TypesParts DEF NoneInternal
<1>2. ASSUME NEW n \in DOMAIN Tags
      PROVE  Typed(IF Tags[n].dir = "in" THEN mem.input[n] ELSE mem.output[n], Tags[n].type)
  <2>1. Tags[n].type \in ValueTypes /\ Tags[n].dir \in {"in", "out"}
    BY TypesParts DEF TypedTags
  <2>2. CASE Tags[n].dir = "in"
    <3>1. n \in TagsOf("in")
      BY <2>2 DEF TagsOf
    <3>2. IsValue(mem.input[n], Tags[n].type)
      BY <3>1, TypesParts, Zenon DEF TypedMem
    <3> QED BY <2>1, <2>2, <3>2, ValueIsTyped
  <2>3. CASE Tags[n].dir = "out"
    <3>1. n \in TagsOf("out")
      BY <2>3 DEF TagsOf
    <3>2. IsValue(mem.output[n], Tags[n].type)
      BY <3>1, TypesParts, Zenon DEF TypedMem
    <3> QED BY <2>1, <2>3, <3>2, ValueIsTyped
  <2> QED BY <2>1, <2>2, <2>3
<1>3. ASSUME NEW p \in Elements(Programs), NEW n \in DOMAIN p.syms
      PROVE  TypedSym(IF p.syms[n].scope = "local" THEN mem.local[p.name][n] ELSE mem.global[n], p.syms[n])
  <2>1. PICK i \in DOMAIN Programs : p = Programs[i]
    BY DEF Elements
  <2>2. IsSymbol(p.syms[n])
    BY <2>1, TypesParts DEF TypedPrograms
  <2>3. CASE p.syms[n].scope = "local"
    <3>1. n \in Owned(Programs[i], "local")
      BY <2>1, <2>3 DEF Owned
    <3>2. Suits(mem.local[p.name][n], p.syms[n])
      BY <2>1, <3>1, TypesParts, Zenon DEF TypedMem
    <3> QED BY <2>2, <2>3, <3>2, FitsIsTyped
  <2>4. CASE p.syms[n].scope = "global"
    <3>1. n \in Owned(Programs[i], "global")
      BY <2>1, <2>4 DEF Owned
    <3>2. Suits(mem.global[n], p.syms[n])
      BY <2>1, <3>1, TypesParts, Zenon DEF TypedMem
    <3> QED BY <2>2, <2>4, <3>2, FitsIsTyped
  <2> QED BY <2>2, <2>3, <2>4 DEF IsSymbol
<1> QED BY <1>1, <1>2, <1>3, Zenon DEF ImageIsTyped

(* Whatever is written, forced and scanned, and whichever programs fail in *)
(* the middle of a scan, every tag, every variable and every output of a   *)
(* block holds a value of its type, an integer within its range, as long   *)
(* as every single program keeps the types of the values it is given       *)
(* (PlcRuntime.scan, _merge_globals, _restore, force, write_inputs).       *)
THEOREM ImageIsAlwaysTyped == HSpec /\ TypesPlanned => []ImageIsTyped
<1>1. HInit /\ TypesPlanned => TypesInv
  <2> SUFFICES ASSUME HInit, TypesPlanned PROVE TypesInv
    OBVIOUS
  <2>1. Init
    BY DEF HInit
  <2>2. ForcesInv /\ Mergeable(Programs)
    BY <2>1, InitForces DEF Init
  <2>3. TypedList
    BY <2>2 DEF TypedList, TypesPlanned, ForcesInv
  <2>4. forced = << >> /\ mem = Built(forced) /\ time = RealV(0, 1) /\ result = NoResult
    BY <2>1 DEF Init
  <2>5. TypedForces(forced)
    BY <2>4 DEF TypedForces
  <2>6. TypedMem(mem)
    BY <2>2, <2>3, <2>4, <2>5, MemParts, BuiltIsTyped
  <2>7. IsReal(time) /\ NoneInternal(result.faults)
    BY <2>4 DEF IsReal, NoneInternal, NoResult
  <2> QED BY <2>2, <2>5, <2>6, <2>7 DEF TypesInv
<1>2. TypesInv /\ [HNext]_<<vars, seen>> => TypesInv'
  BY NextKeepsTypes
<1>3. TypesInv => ImageIsTyped
  BY ImageFromTypes
<1> QED BY <1>1, <1>2, <1>3, PTL DEF HSpec
=============================================================================
