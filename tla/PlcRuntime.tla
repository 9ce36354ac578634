----------------------------- MODULE PlcRuntime -----------------------------
(***************************************************************************)
(* PlcRuntime of plc/runtime.py with the values it holds: the I/O image,   *)
(* the variables, forces, faults and their rollback, for programs in       *)
(* structured text and ladder.  (Simulator has the charts, the abort and   *)
(* the arbitration, and treats values as data.)                            *)
(*                                                                         *)
(* A plan is what a behaviour is about: the sources of the programs, in    *)
(* order, the values written and forced in it, the lengths of its scans    *)
(* and how many there are.  Init compiles the sources.                     *)
(***************************************************************************)
EXTENDS FunctionBlocks

CONSTANTS
  Tags,              \* name -> [type, dir]
  Plans,
  Compiled(_, _),    \* the program that a source compiles to, with these tags
  RunBody(_, _)      \* what a program leaves of a context: [ctx, sig]

ASSUME PlansAreLists ==
  \A q \in Plans : /\ "programs" \in DOMAIN q
                   /\ Len(q.programs) \in Nat /\ DOMAIN q.programs = 1 .. Len(q.programs)

VARIABLES
  plan,
  mem,      \* [input, told, output, global, sys, local]: name -> value; local by program
  forced,   \* <<kind, program, name>> -> value
  halted, enabled,   \* names of programs
  abort,    \* _abort
  scans, time,       \* _scan_index, _sim_time
  result    \* of the last scan: [faults, written, changed]

vars == <<plan, mem, forced, halted, enabled, abort, scans, time, result>>

-----------------------------------------------------------------------------
(* A program is [name, lang, bad, syms, code]; syms has, for each name it
   declares, the scope, the type, the block type fb and the initial value. *)
Loaded(q) == [q EXCEPT !.programs = [i \in DOMAIN @ |-> Compiled(Tags, @[i])]]

Programs == plan.programs
Named(n) == CHOOSE p \in Elements(Programs) : p.name = n
Names    == {p.name : p \in Elements(Programs)}
Owned(p, scope) == {n \in DOMAIN p.syms : p.syms[n].scope = scope}

(* _merge_globals: programs share a global by its name; the declarations must
   agree, and the first one with an initial value gives it. *)
SameGlobal(a, b) ==
  /\ a.type = b.type /\ a.fb = b.fb
  /\ NoValue \notin {a.init, b.init} => a.init = b.init
Mergeable(ps) ==
  \A i, j \in DOMAIN ps : \A n \in Owned(ps[i], "global") \cap Owned(ps[j], "global") :
    SameGlobal(ps[i].syms[n], ps[j].syms[n])
MergedGlobals(ps) ==
  LET by(n)    == {i \in DOMAIN ps : n \in Owned(ps[i], "global")}
      given(n) == {i \in by(n) : ps[i].syms[n].init # NoValue}
      First(I) == CHOOSE i \in I : \A j \in I : i <= j
  IN  [n \in UNION {Owned(p, "global") : p \in Elements(ps)} |->
         ps[First(IF given(n) = {} THEN by(n) ELSE given(n))].syms[n]]

TagsOf(dir) == {n \in DOMAIN Tags : Tags[n].dir = dir}
TagImage(dir) == [n \in TagsOf(dir) |-> DefaultValue(Tags[n].type)]
SysImage(aborted, dt, first, now) ==
  [SYS_ABORT |-> BoolV(aborted), SYS_SCAN_TIME |-> dt, SYS_FIRST_SCAN |-> BoolV(first),
   SYS_TIME |-> now]

(* _apply_forces. *)
Pin(f, kind, prog, store) ==
  [n \in DOMAIN store |-> IF <<kind, prog, n>> \in DOMAIN f THEN f[<<kind, prog, n>>] ELSE store[n]]
ApplyForces(f, m) ==
  [m EXCEPT !.input  = Pin(f, "input", "", @),
            !.output = Pin(f, "output", "", @),
            !.global = Pin(f, "global", "", @),
            !.local  = [p \in DOMAIN @ |-> Pin(f, "local", p, @[p])]]

(* _build: everything at its first value, but for what is forced. *)
Built(f) ==
  ApplyForces(f,
    [input  |-> TagImage("in"), told |-> TagImage("in"), output |-> TagImage("out"),
     global |-> [n \in DOMAIN MergedGlobals(Programs) |-> MakeValue(MergedGlobals(Programs)[n])],
     sys    |-> SysImage(FALSE, RealV(0, 1), TRUE, RealV(0, 1)),
     local  |-> [x \in Names |-> [n \in Owned(Named(x), "local") |-> MakeValue(Named(x).syms[n])]]])

NoResult == [faults |-> {}, written |-> {}, changed |-> {}]

Init ==
  /\ plan \in {Loaded(p) : p \in Plans}
  /\ \A p \in Elements(Programs) : ~p.bad
  /\ \A i, j \in DOMAIN Programs : Programs[i].name = Programs[j].name => i = j
  /\ Mergeable(Programs)
  /\ forced = << >>
  /\ mem = Built(forced)
  /\ halted = {}
  /\ enabled = Names
  /\ abort = FALSE
  /\ scans = 0
  /\ time = RealV(0, 1)
  /\ result = NoResult

-----------------------------------------------------------------------------
(* Requests between scans.                                                  *)

WriteInputsUnforced(n, v) ==    \* Mutant of WriteInputs: a forced tag is written too
  LET x == Coerce(v, Tags[n].type)
  IN  /\ n \in TagsOf("in")
      /\ mem' = [mem EXCEPT !.told[n] = x, !.input[n] = x]
      /\ UNCHANGED <<plan, forced, halted, enabled, abort, scans, time, result>>
WriteInputs(n, v) ==
  LET x == Coerce(v, Tags[n].type)
  IN  /\ n \in TagsOf("in")
      /\ mem' = [mem EXCEPT !.told[n] = x,
                            !.input[n] = IF <<"input", "", n>> \in DOMAIN forced THEN @ ELSE x]
      /\ UNCHANGED <<plan, forced, halted, enabled, abort, scans, time, result>>

WriteGlobals(n, v) ==
  /\ n \in DOMAIN MergedGlobals(Programs) /\ MergedGlobals(Programs)[n].fb = "none"
  /\ mem' = [mem EXCEPT !.global[n] =
                IF <<"global", "", n>> \in DOMAIN forced THEN forced[<<"global", "", n>>]
                ELSE Coerce(v, MergedGlobals(Programs)[n].type)]
  /\ UNCHANGED <<plan, forced, halted, enabled, abort, scans, time, result>>

(* _resolve_force: what may be forced, and its type; a block may not. *)
Forceable ==
  {<<"input", "", n>> : n \in TagsOf("in")} \cup {<<"output", "", n>> : n \in TagsOf("out")}
  \cup {<<"global", "", n>> : n \in {x \in DOMAIN MergedGlobals(Programs) : MergedGlobals(Programs)[x].fb = "none"}}
  \cup UNION {{<<"local", p.name, n>> : n \in {x \in Owned(p, "local") : p.syms[x].fb = "none"}} :
               p \in Elements(Programs)}
ForceType(k) ==
  LET kind == k[1]  n == k[3]
  IN  CASE kind \in {"input", "output"} -> Tags[n].type
        [] kind = "global" -> MergedGlobals(Programs)[n].type
        [] kind = "local"  -> Named(k[2]).syms[n].type

ForceValue(k, v) ==
  /\ k \in Forceable
  /\ forced' = [x \in DOMAIN forced \cup {k} |-> IF x = k THEN Coerce(v, ForceType(k)) ELSE forced[x]]
  /\ mem' = ApplyForces(forced', mem)
  /\ UNCHANGED <<plan, halted, enabled, abort, scans, time, result>>

(* An input goes back to what was written; anything else keeps its value. *)
UnforceValue(k) ==
  /\ k \in DOMAIN forced
  /\ forced' = [x \in DOMAIN forced \ {k} |-> forced[x]]
  /\ mem' = IF k[1] = "input" THEN [mem EXCEPT !.input[k[3]] = mem.told[k[3]]] ELSE mem
  /\ UNCHANGED <<plan, halted, enabled, abort, scans, time, result>>

SetProgramEnabled(n, on) ==
  /\ enabled' = IF on THEN enabled \cup {n} ELSE enabled \ {n}
  /\ UNCHANGED <<plan, mem, forced, halted, abort, scans, time, result>>

ClearFaults ==
  /\ halted' = {}
  /\ UNCHANGED <<plan, mem, forced, enabled, abort, scans, time, result>>

(* trigger_abort and clear_abort, with no chart in the program list. *)
SetAbort(on) ==
  /\ abort' = on
  /\ mem' = [mem EXCEPT !.sys.SYS_ABORT = BoolV(on)]
  /\ UNCHANGED <<plan, forced, halted, enabled, scans, time, result>>

Reset ==
  /\ mem' = Built(forced)
  /\ halted' = {}
  /\ enabled' = Names
  /\ abort' = FALSE
  /\ scans' = 0
  /\ time' = RealV(0, 1)
  /\ UNCHANGED <<plan, forced, result>>

-----------------------------------------------------------------------------
(* scan.                                                                    *)

(* _snapshot is the memory before the body.  _restore puts back the locals,
   the globals and the outputs; function blocks are objects, whose state is
   put back if the program declares them. *)
RestoreNoGlobals(p, before, after) ==     \* Mutant of Restore: globals are left as they are
  [after EXCEPT !.local[p.name] = before.local[p.name], !.output = before.output]
Restore(p, before, after) ==
  [after EXCEPT !.local[p.name] = before.local[p.name],
                !.output = before.output,
                !.global = [n \in DOMAIN before.global |->
                              IF "fb" \in DOMAIN before.global[n] /\ n \notin Owned(p, "global")
                              THEN after.global[n] ELSE before.global[n]]]

(* What program p writes in a store: the names it declares, and no others. *)
Kept(store, names, after) == [n \in DOMAIN store |-> IF n \in names THEN after[n] ELSE store[n]]

(* One program of the list: what it leaves, or what is restored. *)
Leave(acc, p, r) ==
  LET left == r.ctx.store
      m == [acc.mem EXCEPT !.local[p.name] = Kept(@, DOMAIN @, left.local),
                           !.global = Kept(@, Owned(p, "global"), left.global),
                           !.output = Kept(@, DOMAIN @, left.output)]
  IN  IF r.sig \in {"go", "return"}
      THEN [acc EXCEPT !.mem = m, !.written = r.ctx.written]
      ELSE [acc EXCEPT !.mem = Restore(p, acc.mem, m), !.faults = @ \cup {<<p.name, r.sig>>}]

Context(acc, p, dt) ==
  [store |-> [local |-> acc.mem.local[p.name], global |-> acc.mem.global,
              input |-> acc.mem.input, output |-> acc.mem.output, sys |-> acc.mem.sys],
   dt |-> dt, steps |-> << >>, written |-> acc.written]
RunProgram(acc, p, dt) == Leave(acc, p, RunBody(Context(acc, p, dt), p))
NextProgram(acc, p, dt, skip) == IF p.name \in skip THEN acc ELSE RunProgram(acc, p, dt)

(* The programs one after the other, but for those in skip. *)
Entered(dt) ==
  [mem |-> ApplyForces(forced, [mem EXCEPT !.sys = SysImage(abort, dt, scans = 0, time)]),
   written |-> {}, faults |-> {}]
Passed(dt, skip) ==
  LET acc[i \in 0 .. Len(Programs)] ==
        IF i = 0 THEN Entered(dt) ELSE NextProgram(acc[i - 1], Programs[i], dt, skip)
  IN  acc[Len(Programs)]
Forced(acc) == [acc EXCEPT !.mem = ApplyForces(forced, @)]
Scanned(dt, skip) == Forced(Passed(dt, skip))

(* outputs_changed compares with the outputs as forces leave them first. *)
Finish(r) ==
  LET before == Pin(forced, "output", "", mem.output)
  IN  /\ mem' = r.mem
      /\ halted' = halted \cup {f[1] : f \in r.faults}
      /\ result' = [faults  |-> r.faults, written |-> r.written,
                    changed |-> {n \in DOMAIN before : before[n] # r.mem.output[n]}]

Skipped == halted \cup (Names \ enabled)
Scan(dt) ==
  /\ scans < plan.scans
  /\ scans' = scans + 1
  /\ time' = Kernel("add", time, dt)
  /\ Finish(Scanned(dt, Skipped))
  /\ UNCHANGED <<plan, forced, enabled, abort>>

Next ==
  \/ \E n \in DOMAIN plan.inputs : \E v \in plan.inputs[n] : WriteInputs(n, v)
  \/ \E n \in DOMAIN plan.globals : \E v \in plan.globals[n] : WriteGlobals(n, v)
  \/ \E k \in DOMAIN plan.forces : \E v \in plan.forces[k] : ForceValue(k, v)
  \/ \E k \in DOMAIN plan.forces : UnforceValue(k)
  \/ \E n \in plan.switched, on \in BOOLEAN : SetProgramEnabled(n, on)
  \/ plan.recovers /\ (ClearFaults \/ Reset \/ \E on \in BOOLEAN : SetAbort(on))
  \/ \E dt \in plan.dts : Scan(dt)

Spec == Init /\ [][Next]_vars
=============================================================================
