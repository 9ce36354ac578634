----------------------------- MODULE PlcHistory -----------------------------
(***************************************************************************)
(* What programs may rely on scan after scan: PlcRuntime observed over     *)
(* time.  The plans "timers" and "edges" have one ladder program, "ladder",*)
(* whose blocks and counters are compared with what its inputs did in the  *)
(* scans it completed.                                                     *)
(***************************************************************************)
EXTENDS PlcRuntime

VARIABLE seen    \* the clocks and counts that the inputs call for

NotRunning == -1
Fresh == [was  |-> FALSE,       \* start in the last completed scan
          on   |-> NotRunning,  \* time since start rose, while it is high
          off  |-> NotRunning,  \* time since it fell, while it is low
          pulse |-> NotRunning, \* time since it rose with no pulse running
          offDone |-> FALSE, pulseDone |-> FALSE,
          pt   |-> 0,           \* the delay in the last completed scan
          late |-> FALSE,       \* the delay was raised after the on-delay was over
          rises |-> 0, falls |-> 0, counted |-> 0]

High(n) == Truth(mem'.input[n])

(* The clocks s after a scan of dt with this start and this delay, as if there
   were no timers. *)
Clocks(s, in, pt, dt) ==
  LET pulsing == s.pulse # NotRunning /\ ~s.pulseDone
      on    == CASE ~in -> NotRunning
                 [] in /\ s.on = NotRunning -> 0
                 [] OTHER -> s.on + dt
      off   == CASE in -> NotRunning
                 [] ~in /\ s.was -> 0
                 [] ~in /\ ~s.was /\ s.off # NotRunning -> s.off + dt
                 [] OTHER -> NotRunning
      pulse == CASE pulsing -> s.pulse + dt
                 [] in /\ ~s.was /\ ~pulsing -> 0
                 [] OTHER -> NotRunning
  IN  [s EXCEPT !.was = in, !.on = on, !.off = off, !.pulse = pulse, !.pt = pt,
                !.offDone = off # NotRunning /\ ((@ /\ ~s.was) \/ off >= pt),
                !.pulseDone = pulse # NotRunning /\ pulse >= pt,
                !.late = on > 0 /\ (@ \/ (pt > s.pt /\ s.on >= s.pt))]

(* Rises and falls of start while enable has power, and rises since clear. *)
Counts(s, in, power, clear) ==
  LET rose == in /\ ~s.was  fell == ~in /\ s.was
  IN  [s EXCEPT !.was = in,
                !.rises = @ + (IF rose /\ power THEN 1 ELSE 0),
                !.falls = @ + (IF fell /\ power THEN 1 ELSE 0),
                !.counted = IF clear THEN 0 ELSE IF rose THEN @ + 1 ELSE @]

HInit == Init /\ seen = Fresh

(* A scan in which the program is passed over or faults is no scan to it. *)
Completed == "ladder" \notin Skipped \cup {f[1] : f \in result'.faults}

HNext ==
  /\ Next
  /\ seen' = CASE plan.about = "timers" /\ scans' = scans + 1 /\ Completed ->
                    Clocks(seen, High("start"), mem'.global["delay"].n, mem'.sys.SYS_SCAN_TIME.n)
               [] plan.about = "edges" /\ scans' = scans + 1 /\ Completed ->
                    Counts(seen, High("start"), High("enable"), High("clear"))
               [] plan.about \in {"timers", "edges"} /\ scans' < scans     -> Fresh
               [] OTHER -> seen

HSpec == HInit /\ [][HNext]_<<vars, seen>>

-----------------------------------------------------------------------------
Block(n) == mem.local["ladder"][n]

(* The three timers of fb.py against the clocks.  An off-delay and a pulse end
   in the first scan in which the delay of that scan is over, whatever PT did
   before.  An on-delay is never early, and is on time unless PT was raised
   after it was over, for ET stands at the old PT then (_advance).  Time in
   which the program is disabled, halted or rolled back does not count. *)
TimersShow(s, ton, tof, tp) ==
  /\ Truth(ton.Q) => s.on # NotRunning /\ s.on >= s.pt
  /\ s.on # NotRunning /\ s.on >= s.pt /\ ~s.late => Truth(ton.Q)
  /\ ton.ET.n <= (IF s.on = NotRunning THEN 0 ELSE s.on)
  /\ Truth(tof.Q) = (s.was \/ (s.off # NotRunning /\ ~s.offDone))
  /\ Truth(tp.Q) = (s.pulse # NotRunning /\ ~s.pulseDone)
TimersKeepTime == plan.about = "timers" => TimersShow(seen, Block("tn"), Block("tf"), Block("tp"))

(* Edge contacts and counters: every rise and every fall of start is counted
   exactly once, whatever power reaches the contact in the scan it happens in,
   and one that happens while the program is halted or in a scan that is rolled
   back is counted when the program runs again (Contact.run, Ctu.execute). *)
EdgesCountOnce ==
  plan.about = "edges" =>
    /\ mem.local["ladder"]["n"] = IntV(seen.rises)
    /\ mem.local["ladder"]["f"] = IntV(seen.falls)
    /\ Block("c").CV = IntV(seen.counted)
    /\ Truth(Block("c").Q) = (seen.counted >= 2)

(* A program that faults leaves no trace in the scan: memory and written
   outputs are those of the scan without it, and the programs behind it find
   nothing of what it did (scan, _snapshot, _restore). *)
IsScanWithout(failed, r) ==
  /\ mem' = r.mem
  /\ result'.written = r.written
  /\ r.faults = {}
  /\ failed \cap halted = {} /\ failed \subseteq halted'
NoTrace ==
  LET failed == {f[1] : f \in result'.faults}
  IN  IsScanWithout(failed, Scanned(mem'.sys.SYS_SCAN_TIME, Skipped \cup failed))
FaultsLeaveNoTrace == [][scans' = scans + 1 => NoTrace]_vars

(* At every boundary of a scan and after every request a forced input, output,
   global or local has its forced value, whatever was written meanwhile, and an
   input that is not forced has the last value written to it, the ones written
   under a force included (force, unforce, write_inputs, write_globals). *)
ForcesHold ==
  /\ \A k \in DOMAIN forced :
       forced[k] = CASE k[1] = "local" -> mem.local[k[2]][k[3]]
                     [] OTHER          -> mem[k[1]][k[3]]
  /\ \A n \in DOMAIN mem.input :
       <<"input", "", n>> \notin DOMAIN forced => mem.input[n] = mem.told[n]

-----------------------------------------------------------------------------
KindOf(t) == CASE t = "BOOL"            -> "bool"
               [] t \in IntTypes        -> "int"
               [] t \in {"REAL", "TIME"} -> "real"
               [] t = "STRING"          -> "str"
Typed(v, t) == v.k = KindOf(t) /\ (v.k = "int" => v.n \in IntMin..IntMax)
TypedSym(v, s) == IF s.fb = "none" THEN s.type = "none" \/ Typed(v, s.type)
                  ELSE \A f \in Elements(OutputsOf(s.fb)) : Typed(v[f], FieldType(f))

(* Whatever document the ladder compiler accepts, no scan, write or force makes
   the engine fail inside, and every variable, block output and tag keeps a
   value of its type, an INT within 32 bits. *)
ImageIsTyped ==
  /\ \A f \in result.faults : f[2] # "internal"
  /\ \A n \in DOMAIN Tags : Typed(IF Tags[n].dir = "in" THEN mem.input[n] ELSE mem.output[n], Tags[n].type)
  /\ \A p \in Elements(Programs) : \A n \in DOMAIN p.syms :
       TypedSym(IF p.syms[n].scope = "local" THEN mem.local[p.name][n] ELSE mem.global[n], p.syms[n])
=============================================================================
