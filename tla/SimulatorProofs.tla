-------------------------- MODULE SimulatorProofs ---------------------------
(***************************************************************************)
(* Theorems about Simulator, for every catalogue of programs, every table  *)
(* and every set of outputs and loops.                                     *)
(***************************************************************************)
EXTENDS SimulatorAuthority, TLAPS

-----------------------------------------------------------------------------
(* Chart states stay chart states.                                         *)
LEMMA IdleType == Idle \in ChartState
BY DEF Idle, ChartState

LEMMA StartType == ASSUME NEW c \in Charts PROVE Start(c) \in ChartState
BY ChartAssumption DEF Start, ChartState

LEMMA StopType == ASSUME NEW cs \in ChartState PROVE Stop(cs) \in ChartState
BY DEF Stop, Idle, ChartState

LEMMA ApplyAbortType == ASSUME NEW c \in Charts PROVE ApplyAbort(c) \in ChartState
BY ChartAssumption DEF ApplyAbort, Idle, ChartState

LEMMA AfterType ==
  ASSUME NEW cs \in ChartState, NEW F \in SUBSET Trans
  PROVE  After(cs, F) \in ChartState
<1>1. Targets(F) \subseteq Steps
  BY ChartAssumption DEF Targets
<1>2. CASE cs.running
  BY <1>1, <1>2 DEF After, ChartState
<1>3. CASE ~cs.running
  BY <1>3 DEF After
<1> QED  BY <1>2, <1>3

(* Starting or stopping a chart keeps the chart states well typed.         *)
LEMMA SetChartType ==
  ASSUME TypeOK, NEW c \in Charts, NEW cs \in ChartState, SetChart(c, cs)
  PROVE  TypeOK'
BY DEF SetChart, TypeOK, modeVars, commandVars, configVars, memoryVars

LEMMA SettledType ==
  ASSUME NEW S, NEW gf
  PROVE  Settled(S, gf) \subseteq Globals
BY DEF Settled

(* A rebuilt runtime is well typed.                                        *)
LEMMA RebuildType ==
  ASSUME NEW L \in SUBSET Progs, NEW f \in [Outputs -> Command],
         NEW gf \in [Globals -> {"on", "off", None}], NEW bb \in SUBSET Loops,
         Rebuild(L, f, gf, bb)
  PROVE  /\ image' \in [Outputs -> Position] /\ forced' \in [Outputs -> Command]
         /\ globalForced' \in [Globals -> {"on", "off", None}]
         /\ bbOn' \subseteq Loops /\ globals' \subseteq Globals
         /\ chart' \in [Charts -> ChartState]
         /\ halted' = {} /\ wasEnabled' = {} /\ rtAbort' = FALSE
<1>1. image' \in [Outputs -> Position]
  BY DEF Rebuild, Command, Position
<1>2. globals' \subseteq Globals
  BY SettledType DEF Rebuild
<1>3. chart' \in [Charts -> ChartState]
  BY IdleType, StartType DEF Rebuild
<1> QED  BY <1>1, <1>2, <1>3 DEF Rebuild

LEMMA NoCommandType == NoCommand \in [Outputs -> Command]
BY DEF NoCommand, Command

LEMMA SafeType == Safe \in [Outputs -> Position]
BY DEF Safe, Position
-----------------------------------------------------------------------------
(* Type correctness of what a scan computes.                               *)
LEMMA ScanType ==
  ASSUME TypeOK, NEW r \in SUBSET Rows, NEW flt \in SUBSET Faultable(r),
         NEW F \in Firings(r, flt), NEW v \in Writings(r, flt, F)
  PROVE  /\ ForcedIn(r) \in [Outputs -> Command]
         /\ ChartIn(r) \in [Charts -> ChartState]
         /\ ChartOut(r, flt, F) \in [Charts -> ChartState]
         /\ ImageOut(r, v) \in [Outputs -> Position]
         /\ DrivenOut(r, v) \subseteq Outputs
         /\ ManualOut(r, v, ChartOut(r, flt, F)) \in [Outputs -> Command]
         /\ Final(r, v, ChartOut(r, flt, F)) \in [Outputs -> Position]
         /\ HaltedIn(r) \cup flt \subseteq loaded
         /\ v \in [Outputs -> Command]
<1>1. ForcedIn(r) \in [Outputs -> Command]
  BY NoCommandType DEF ForcedIn, TypeOK
<1>2. ChartIn(r) \in [Charts -> ChartState]
  BY ApplyAbortType DEF ChartIn, TypeOK
<1>3. ChartOut(r, flt, F) \in [Charts -> ChartState]
  <2>1. \A c \in Charts : F \cap TransOf(c) \in SUBSET Trans
    BY DEF TransOf
  <2> QED  BY <1>2, <2>1, AfterType DEF ChartOut
<1>4. v \in [Outputs -> Command]
  BY DEF Writings
<1>5. ImageOut(r, v) \in [Outputs -> Position]
  BY <1>1, <1>4 DEF ImageOut, TypeOK, Command, Position
<1>6. DrivenOut(r, v) \subseteq Outputs
  BY DEF DrivenOut, DrivenIn, Owned, TypeOK
<1>7. DEFINE m == ManualOut(r, v, ChartOut(r, flt, F))
<1>8. m \in [Outputs -> Command]
  BY DEF ManualOut, TypeOK, Command
<1>9. Final(r, v, ChartOut(r, flt, F)) \in [Outputs -> Position]
  <2>1. AbortTable(r, v) \in [Outputs -> Position]
    BY <1>5, SafeType DEF AbortTable
  <2>2. NormalTable(r, v, m) \in [Outputs -> Position]
    <3> SUFFICES ASSUME NEW t \in Outputs
                 PROVE  (IF t \in Owned(r, v) \/ (m[t] = None /\ t \in DrivenOut(r, v))
                         THEN ImageOut(r, v)[t]
                         ELSE IF m[t] # None THEN m[t] ELSE Safe[t]) \in Position
      BY DEF NormalTable
    <3>1. ImageOut(r, v)[t] \in Position /\ Safe[t] \in Position
      BY <1>5, SafeType
    <3>2. m[t] # None => m[t] \in Position
      BY <1>8 DEF Command
    <3> QED  BY <3>1, <3>2
  <2> QED  BY <2>1, <2>2 DEF Final
<1>10. HaltedIn(r) \cup flt \subseteq loaded
  BY DEF HaltedIn, Faultable, Executing, TypeOK
<1> QED  BY <1>1, <1>2, <1>3, <1>4, <1>5, <1>6, <1>8, <1>9, <1>10

LEMMA RequestsGlobalsType == ASSUME NEW q PROVE GlobalsOut(q) \subseteq Globals
BY SettledType DEF GlobalsOut

(* A scan, with its parameters at hand.                                    *)
LEMMA ScanParameters ==
  ASSUME Scan
  PROVE  \E r, flt, F, v, q :
           /\ r \in SUBSET Rows /\ flt \in SUBSET Faultable(r) /\ F \in Firings(r, flt)
           /\ v \in Writings(r, flt, F) /\ q \in Requests(r, flt)
           /\ ScanOn(r, flt, F, v, q) \/ ScanReturn(r, flt, F, v, q)
BY DEF Scan

LEMMA ScanStepType ==
  ASSUME TypeOK, Scan
  PROVE  TypeOK'
<1>5. PICK r, flt, F, v, q :
        /\ r \in SUBSET Rows /\ flt \in SUBSET Faultable(r) /\ F \in Firings(r, flt)
        /\ v \in Writings(r, flt, F)
        /\ ScanOn(r, flt, F, v, q) \/ ScanReturn(r, flt, F, v, q)
  BY ScanParameters
<1> DEFINE ch == ChartOut(r, flt, F)
<1>6. ScanPrograms(r, flt, F, v)
  BY <1>5 DEF ScanOn, ScanReturn
<1>7. /\ ch \in [Charts -> ChartState] /\ ForcedIn(r) \in [Outputs -> Command]
      /\ ImageOut(r, v) \in [Outputs -> Position] /\ DrivenOut(r, v) \subseteq Outputs
      /\ ManualOut(r, v, ch) \in [Outputs -> Command]
      /\ Final(r, v, ch) \in [Outputs -> Position]
      /\ HaltedIn(r) \cup flt \subseteq loaded
  BY <1>5, ScanType
<1>8. /\ running' \in BOOLEAN /\ hmiAbort' \in BOOLEAN /\ loaded' \subseteq Progs
      /\ enabled' \subseteq loaded' /\ halted' \subseteq loaded'
      /\ abortDisabled' \subseteq loaded' \ Charts
      /\ armed' \subseteq Rows /\ cards' \subseteq Rows
      /\ wasEnabled' \subseteq Progs \ Charts
      /\ globalForced' \in [Globals -> {"on", "off", None}]
  <2>1. EnabledIn(r) \subseteq loaded
    BY DEF EnabledIn, TypeOK
  <2>2. SwitchedByAbort \subseteq loaded \ Charts
    BY DEF SwitchedByAbort
  <2> QED  BY <1>5, <1>6, <1>7, <2>1, <2>2 DEF ScanPrograms, TypeOK
<1>9. /\ forced' \in [Outputs -> Command] /\ image' \in [Outputs -> Position]
      /\ outputImage' \in [Outputs -> Position]
  BY <1>6, <1>7 DEF ScanPrograms
<1>10. CASE ScanOn(r, flt, F, v, q)
  <2>1. latched' \in BOOLEAN /\ rtAbort' \in BOOLEAN
    BY <1>10 DEF ScanOn, Aborting, Tripped, Latches, TypeOK
  <2>2. /\ chart' \in [Charts -> ChartState] /\ manual' \in [Outputs -> Command]
        /\ driven' \subseteq Outputs /\ globals' \subseteq Globals /\ bbOn' \subseteq Loops
    BY <1>7, <1>10, RequestsGlobalsType DEF ScanOn, TypeOK
  <2> QED  BY <1>8, <1>9, <2>1, <2>2 DEF TypeOK
<1>11. CASE ScanReturn(r, flt, F, v, q)
  <2>1. chart' \in [Charts -> ChartState]
    BY <1>11, IdleType DEF ScanReturn, TypeOK
  <2>2. manual' \in [Outputs -> Command]
    BY <1>9, <1>11 DEF ScanReturn, Command
  <2>3. globals' \subseteq Globals
    BY <1>11, SettledType DEF ScanReturn
  <2> QED  BY <1>8, <1>9, <1>11, <2>1, <2>2, <2>3 DEF ScanReturn, TypeOK
<1> QED  BY <1>5, <1>10, <1>11

LEMMA LifecycleType ==
  ASSUME TypeOK, Lifecycle
  PROVE  TypeOK'
<1>1. CASE PlcRun
  BY <1>1 DEF TypeOK, PlcRun, modeVars, commandVars, configVars, memoryVars, programVars
<1>2. CASE PlcStop
  <2>1. /\ Rebuild(loaded, NoCommand, globalForced, {}) /\ loaded \in SUBSET Progs
        /\ globalForced \in [Globals -> {"on", "off", None}] /\ {} \in SUBSET Loops
    BY <1>2 DEF PlcStop, TypeOK
  <2>2. /\ image' \in [Outputs -> Position] /\ forced' \in [Outputs -> Command]
        /\ globalForced' \in [Globals -> {"on", "off", None}]
        /\ bbOn' \subseteq Loops /\ globals' \subseteq Globals
        /\ chart' \in [Charts -> ChartState]
        /\ halted' = {} /\ wasEnabled' = {} /\ rtAbort' = FALSE
    BY <2>1, RebuildType, NoCommandType
  <2> QED  BY <1>2, <2>2, NoCommandType DEF TypeOK, PlcStop, ForgetCommands, configVars
<1>3. CASE ResetPlc /\ outputImage' \in {outputImage, Safe}
  <2>1. /\ Rebuild(loaded, forced, globalForced, {}) /\ loaded \in SUBSET Progs
        /\ forced \in [Outputs -> Command] /\ {} \in SUBSET Loops
        /\ globalForced \in [Globals -> {"on", "off", None}]
    BY <1>3 DEF ResetPlc, TypeOK
  <2>2. /\ image' \in [Outputs -> Position] /\ forced' \in [Outputs -> Command]
        /\ globalForced' \in [Globals -> {"on", "off", None}]
        /\ bbOn' \subseteq Loops /\ globals' \subseteq Globals
        /\ chart' \in [Charts -> ChartState]
        /\ halted' = {} /\ wasEnabled' = {} /\ rtAbort' = FALSE
    BY <2>1, RebuildType
  <2> QED  BY <1>3, <2>2, NoCommandType, SafeType
           DEF TypeOK, ResetPlc, ForgetCommands, configVars
<1>4. CASE ClearFaults
  BY <1>4 DEF TypeOK, ClearFaults, modeVars, commandVars, configVars, memoryVars
<1>5. ASSUME NEW L \in LoadChoices, LoadPrograms(L) PROVE TypeOK'
  <2> DEFINE gf == [g \in Globals |-> IF g \in Declared(L) THEN globalForced[g] ELSE None]
  <2>1. L \in SUBSET Progs /\ gf \in [Globals -> {"on", "off", None}]
    BY StandAssumption DEF TypeOK
  <2>2. Rebuild(L, forced, gf, bbOn)
    BY <1>5 DEF LoadPrograms
  <2> HIDE DEF gf
  <2>3. /\ image' \in [Outputs -> Position] /\ forced' \in [Outputs -> Command]
        /\ globalForced' \in [Globals -> {"on", "off", None}]
        /\ bbOn' \subseteq Loops /\ globals' \subseteq Globals
        /\ chart' \in [Charts -> ChartState]
        /\ halted' = {} /\ wasEnabled' = {} /\ rtAbort' = FALSE
    BY <2>1, <2>2, RebuildType DEF TypeOK
  <2> QED  BY <1>5, <2>1, <2>3, NoCommandType DEF TypeOK, LoadPrograms, ForgetCommands
<1> QED  BY <1>1, <1>2, <1>3, <1>4, <1>5 DEF Lifecycle, PlcReset, SimReset

LEMMA CommandType ==
  ASSUME TypeOK, AbortCommand \/ SequenceCommand \/ ValveCommand \/ LoopCommand \/ GlobalCommand
  PROVE  TypeOK'
<1>1. CASE AbortCommand
  BY <1>1 DEF TypeOK, AbortCommand, AbortRequest, AbortConfig,
              modeVars, commandVars, configVars, memoryVars, programVars
<1>2. CASE SequenceCommand
  <2>1. ASSUME NEW c \in Charts, SequenceStart(c) PROVE TypeOK'
    BY <2>1, SetChartType, StartType DEF SequenceStart
  <2>2. ASSUME NEW c \in Charts, SequenceStop(c) PROVE TypeOK'
    <3>1. chart[c] \in ChartState
      BY DEF TypeOK
    <3> QED  BY <2>2, <3>1, SetChartType, StopType DEF SequenceStop
  <2> QED  BY <1>2, <2>1, <2>2 DEF SequenceCommand
<1>3. CASE ValveCommand
  <2>1. ASSUME NEW t \in Outputs, NEW b \in Position, WriteManual(t, b) PROVE TypeOK'
    BY <2>1 DEF TypeOK, WriteManual, Command, modeVars, configVars, memoryVars, programVars
  <2>2. ASSUME NEW t \in Outputs, NEW b \in Position, ForceOutput(t, b) PROVE TypeOK'
    BY <2>2 DEF TypeOK, ForceOutput, Command, modeVars, commandVars, configVars, programVars
  <2>3. ASSUME NEW t \in Outputs, UnforceOutput(t) PROVE TypeOK'
    BY <2>3 DEF TypeOK, UnforceOutput, Command, modeVars, commandVars, configVars, programVars
  <2> QED  BY <1>3, <2>1, <2>2, <2>3, StandAssumption DEF ValveCommand
<1>4. CASE LoopCommand
  <2>1. \A l \in Loops, on \in BOOLEAN : Mirrored(l, on) \subseteq Globals
    BY SettledType DEF Mirrored, TypeOK
  <2>2. \A l \in Loops : Solenoid[l] \in Outputs
    BY StandAssumption
  <2>3. ASSUME NEW l \in Loops, EnableLoop(l) PROVE TypeOK'
    BY <2>1, <2>2, <2>3 DEF TypeOK, EnableLoop, Command, modeVars, configVars, programVars
  <2>4. ASSUME NEW l \in Loops, DisableLoop(l) PROVE TypeOK'
    BY <2>1, <2>4 DEF TypeOK, DisableLoop, modeVars, configVars, programVars
  <2>5. ASSUME NEW l \in Loops, WriteSetpoint(l) PROVE TypeOK'
    <3>1. Mirrored(l, l \in bbOn) \subseteq Globals
      BY SettledType DEF Mirrored, TypeOK
    <3> QED  BY <2>5, <3>1 DEF TypeOK, WriteSetpoint, modeVars, commandVars, configVars, programVars
  <2>6. ASSUME NEW l \in Loops, NEW b \in Position, HandOver(l, b) PROVE TypeOK'
    BY <2>1, <2>2, <2>6 DEF TypeOK, HandOver, Command, modeVars, configVars, programVars
  <2> QED  BY <1>4, <2>3, <2>4, <2>5, <2>6 DEF LoopCommand
<1>5. CASE GlobalCommand
  <2>1. ASSUME NEW g \in Globals, NEW on \in BOOLEAN, WriteGlobal(g, on) PROVE TypeOK'
    BY <2>1, SettledType DEF TypeOK, WriteGlobal, modeVars, commandVars, configVars, programVars
  <2>2. ASSUME NEW g \in Globals, NEW on \in {"on", "off"}, ForceGlobal(g, on) PROVE TypeOK'
    BY <2>2, SettledType DEF TypeOK, ForceGlobal, modeVars, commandVars, configVars, programVars
  <2>3. ASSUME NEW g \in Globals, UnforceGlobal(g) PROVE TypeOK'
    BY <2>3 DEF TypeOK, UnforceGlobal, modeVars, commandVars, configVars, programVars
  <2> QED  BY <1>5, <2>1, <2>2, <2>3, StandAssumption DEF GlobalCommand
<1> QED  BY <1>1, <1>2, <1>3, <1>4, <1>5

LEMMA TypeStep == ASSUME TypeOK, [Next]_vars PROVE TypeOK'
<1>1. CASE ScanStopped
  BY <1>1, SafeType DEF TypeOK, ScanStopped, modeVars, memoryVars, programVars
<1>2. CASE UNCHANGED vars
  BY <1>2 DEF TypeOK, vars, modeVars, commandVars, configVars, memoryVars, programVars
<1> QED  BY <1>1, <1>2, ScanStepType, LifecycleType, CommandType DEF Next

LEMMA InitType == ASSUME Init PROVE TypeOK
BY NoCommandType, SafeType, IdleType DEF Init, TypeOK, Position, None

(* Every variable keeps its type: the state of the scan loop and of the    *)
(* runtime stays well formed through every request and every scan.         *)
THEOREM TypeCorrect == Spec => []TypeOK
BY InitType, TypeStep, PTL DEF Spec
-----------------------------------------------------------------------------
(* A request, seen by the invariants: every action but a running scan.     *)
OtherStep == ScanStopped \/ Lifecycle \/ AbortCommand \/ SequenceCommand
              \/ ValveCommand \/ LoopCommand \/ GlobalCommand

LEMMA StepCases == ASSUME Next PROVE Scan \/ OtherStep
BY DEF Next, OtherStep

(* A step that is no scan never latches, and while an abort is latched it  *)
(* changes neither a command, nor a force, nor an enable, nor an output:   *)
(* the fail-safe state is only shown again, or sim.reset drops the latch.  *)
LEMMA OtherStepLatched ==
  ASSUME AbortAbsolute, OtherStep, latched'
  PROVE  /\ latched /\ forced' = forced /\ loaded' = loaded /\ enabled' = enabled
         /\ abortDisabled' = abortDisabled /\ rtAbort' = rtAbort
         /\ chart' = chart /\ image' = image
         /\ manual' = manual
         /\ outputImage' \in {outputImage, Safe}
<1>1. CASE ScanStopped
  BY <1>1 DEF ScanStopped, modeVars, memoryVars, programVars
<1>2. CASE Lifecycle
  BY <1>2 DEF Lifecycle, PlcRun, PlcStop, PlcReset, SimReset, ResetPlc, LoadPrograms,
              ClearFaults, modeVars, commandVars, configVars, memoryVars, programVars
<1>3. CASE AbortCommand
  BY <1>3 DEF AbortCommand, AbortRequest, AbortConfig,
              modeVars, commandVars, configVars, memoryVars, programVars
<1>4. CASE SequenceCommand
  BY <1>4 DEF SequenceCommand, SequenceStart, SequenceStop, SetChart, modeVars
<1>5. CASE ValveCommand
  <2>1. latched /\ ForceTags \subseteq Outputs => \A t \in ForceTags : forced[t] = None
    BY DEF AbortAbsolute, NoCommand
  <2> QED  BY <1>5, <2>1, StandAssumption
           DEF ValveCommand, WriteManual, ManualAllowed, ForceOutput, UnforceOutput,
               modeVars, configVars, memoryVars, programVars, commandVars
<1>6. CASE LoopCommand
  BY <1>6 DEF LoopCommand, EnableLoop, DisableLoop, WriteSetpoint, HandOver, ManualAllowed,
              modeVars, commandVars, configVars, memoryVars, programVars
<1>7. CASE GlobalCommand
  BY <1>7 DEF GlobalCommand, WriteGlobal, ForceGlobal, UnforceGlobal,
              modeVars, commandVars, configVars, memoryVars, programVars
<1> QED  BY <1>1, <1>2, <1>3, <1>4, <1>5, <1>6, <1>7 DEF OtherStep

(* The same after a scan: what an abort latched by it or before it leaves. *)
LEMMA ScanOnAbsolute ==
  ASSUME AbortAbsolute, NEW r, NEW flt, NEW F, NEW v, NEW q, ScanOn(r, flt, F, v, q)
  PROVE  AbortAbsolute'
<1> SUFFICES ASSUME latched' PROVE AbortAbsolute'
  BY DEF AbortAbsolute
<1>1. Aborting(r) /\ (latched \/ Latches(r)) /\ loaded' = loaded
  BY DEF ScanOn, ScanPrograms, Aborting, Latches
<1>2. manual' = NoCommand
  BY <1>1 DEF ScanOn, ManualOut, NoCommand
<1>3. forced' = NoCommand
  BY <1>1 DEF ScanOn, ScanPrograms, ForcedIn, AbortAbsolute, Latches
<1>4. enabled' \cap SwitchedByAbort = {}
  BY <1>1 DEF ScanOn, ScanPrograms, EnabledIn, AbortAbsolute, Latches
<1>5. \A t \in Outputs \ ChainTags : outputImage'[t] = Safe[t]
  BY <1>1 DEF ScanOn, ScanPrograms, Final, AbortTable
<1>6. SwitchedByAbort' = SwitchedByAbort /\ ChainTags' = ChainTags
  BY <1>1 DEF SwitchedByAbort, ChainTags
<1> QED  BY <1>2, <1>3, <1>4, <1>5, <1>6 DEF AbortAbsolute

LEMMA AbsoluteStep ==
  ASSUME AbortAbsolute, [Next]_vars
  PROVE  AbortAbsolute'
<1>1. CASE Scan
  <2>1. ASSUME NEW r, NEW flt, NEW F, NEW v, NEW q, ScanReturn(r, flt, F, v, q)
        PROVE  AbortAbsolute'
    BY <2>1 DEF ScanReturn, AbortAbsolute
  <2> QED  BY <1>1, <2>1, ScanOnAbsolute DEF Scan
<1>2. CASE OtherStep
  <2> SUFFICES ASSUME latched' PROVE AbortAbsolute'
    BY DEF AbortAbsolute
  <2>1. /\ latched /\ forced' = forced /\ loaded' = loaded /\ enabled' = enabled
        /\ manual' = manual /\ outputImage' \in {outputImage, Safe}
    BY <1>2, OtherStepLatched
  <2>2. SwitchedByAbort' = SwitchedByAbort /\ ChainTags' = ChainTags
    BY <2>1 DEF SwitchedByAbort, ChainTags
  <2> QED  BY <2>1, <2>2 DEF AbortAbsolute
<1>3. CASE UNCHANGED vars
  BY <1>3 DEF AbortAbsolute, SwitchedByAbort, ChainTags, vars,
              modeVars, commandVars, configVars, memoryVars, programVars
<1> QED  BY <1>1, <1>2, <1>3, StepCases

(* An abort is absolute, for every program set: while it is latched there  *)
(* is no manual command, no output force and no enabled valve-driving      *)
(* program but the charts, and valves outside the abort chains are safe.   *)
THEOREM AbortIsAbsolute == Spec => []AbortAbsolute
<1>1. Init => AbortAbsolute
  BY DEF Init, AbortAbsolute
<1> QED  BY <1>1, AbsoluteStep, PTL DEF Spec
-----------------------------------------------------------------------------
(* The three copies of the abort flag.                                     *)
LEMMA AfterAborted ==
  ASSUME NEW cs \in ChartState, NEW F
  PROVE  After(cs, F).aborted = cs.aborted
BY DEF After, ChartState

LEMMA RebuildUnaborted ==
  ASSUME NEW L, NEW f, NEW gf, NEW bb, Rebuild(L, f, gf, bb)
  PROVE  rtAbort' = FALSE /\ \A c \in Charts : ~chart'[c].aborted
BY DEF Rebuild, Start, Idle

LEMMA OtherStepUnlatched ==
  ASSUME TypeOK, AbortFlagsAgree, OtherStep, ~latched'
  PROVE  rtAbort' = FALSE /\ \A c \in Charts : ~chart'[c].aborted
<1>1. CASE PlcStop \/ PlcReset \/ SimReset \/ \E L \in LoadChoices : LoadPrograms(L)
  BY <1>1, RebuildUnaborted DEF PlcStop, PlcReset, SimReset, ResetPlc, LoadPrograms
<1>2. CASE SequenceCommand
  <2>1. ASSUME NEW c \in Charts, NEW cs, ~cs.aborted, SetChart(c, cs)
        PROVE  rtAbort' = FALSE /\ \A d \in Charts : ~chart'[d].aborted
    BY <2>1 DEF SetChart, TypeOK, AbortFlagsAgree, modeVars
  <2>2. \A c \in Charts : ~Start(c).aborted /\ Stop(chart[c]).aborted = chart[c].aborted
    BY DEF Start, Stop, Idle
  <2>3. \A c \in Charts : ~latched => ~chart[c].aborted
    BY DEF AbortFlagsAgree
  <2> QED  BY <1>2, <2>1, <2>2, <2>3 DEF SequenceCommand, SequenceStart, SequenceStop
<1>3. CASE rtAbort' = rtAbort /\ chart' = chart /\ latched' = latched
  BY <1>3 DEF AbortFlagsAgree
<1>4. CASE ScanStopped \/ PlcRun \/ ClearFaults \/ AbortCommand
  BY <1>3, <1>4 DEF ScanStopped, PlcRun, ClearFaults, AbortCommand, AbortRequest, AbortConfig,
                    modeVars, programVars
<1>5. CASE ValveCommand \/ GlobalCommand
  BY <1>3, <1>5 DEF ValveCommand, WriteManual, ForceOutput, UnforceOutput,
                    GlobalCommand, WriteGlobal, ForceGlobal, UnforceGlobal, modeVars, programVars
<1>6. CASE LoopCommand
  BY <1>3, <1>6 DEF LoopCommand, EnableLoop, DisableLoop, WriteSetpoint, HandOver,
                    modeVars, programVars
<1> QED  BY <1>1, <1>2, <1>4, <1>5, <1>6 DEF OtherStep, Lifecycle

LEMMA ScanFlags ==
  ASSUME TypeOK, AbortFlagsAgree, NEW r \in SUBSET Rows, NEW flt \in SUBSET Faultable(r),
         NEW F \in Firings(r, flt), NEW v \in Writings(r, flt, F), NEW q
  PROVE  /\ ScanOn(r, flt, F, v, q) => AbortFlagsAgree'
         /\ ScanReturn(r, flt, F, v, q) => AbortFlagsAgree'
<1>1. ASSUME NEW c \in Charts
      PROVE  /\ ChartIn(r)[c] \in ChartState
             /\ ChartIn(r)[c].aborted <=> Aborting(r) /\ c \in loaded
  <2>1. CASE Latches(r)
    BY <2>1, ScanType DEF ChartIn, ApplyAbort, Idle, AbortFlagsAgree, Latches, Aborting
  <2>2. CASE ~Latches(r)
    BY <2>2, ScanType DEF ChartIn, AbortFlagsAgree, Latches, Aborting
  <2> QED  BY <2>1, <2>2
<1>2. ASSUME ScanOn(r, flt, F, v, q) PROVE AbortFlagsAgree'
  <2>1. \A c \in Charts : ChartOut(r, flt, F)[c].aborted <=> Aborting(r) /\ c \in loaded
    BY <1>1, AfterAborted DEF ChartOut
  <2>2. latched' = Aborting(r) /\ loaded' = loaded /\ chart' = ChartOut(r, flt, F)
    BY <1>2 DEF ScanOn, ScanPrograms
  <2>3. rtAbort' = latched'
    BY <1>2 DEF ScanOn, AbortFlagsAgree, Latches, Aborting, TypeOK
  <2> QED  BY <2>1, <2>2, <2>3 DEF AbortFlagsAgree
<1>3. ASSUME ScanReturn(r, flt, F, v, q) PROVE AbortFlagsAgree'
  BY <1>3 DEF ScanReturn, AbortFlagsAgree, Idle
<1> QED  BY <1>2, <1>3

LEMMA FlagsStep ==
  ASSUME TypeOK, AbortAbsolute, AbortFlagsAgree, [Next]_vars
  PROVE  AbortFlagsAgree'
<1>1. CASE Scan
  BY <1>1, ScanFlags DEF Scan
<1>2. CASE OtherStep /\ latched'
  BY <1>2, OtherStepLatched DEF AbortFlagsAgree
<1>3. CASE OtherStep /\ ~latched'
  <2>1. latched' = FALSE
    BY <1>3, TypeStep DEF TypeOK
  <2> QED  BY <1>3, <2>1, OtherStepUnlatched DEF AbortFlagsAgree
<1>4. CASE UNCHANGED vars
  BY <1>4 DEF AbortFlagsAgree, vars, modeVars, configVars, programVars
<1> QED  BY <1>1, <1>2, <1>3, <1>4, StepCases

(* The latch of the scan loop, the flag of the runtime and the transition  *)
(* block of every loaded chart never disagree.                             *)
THEOREM FlagsAgree == Spec => []AbortFlagsAgree
<1>1. ASSUME Init PROVE AbortFlagsAgree
  <2>1. \A c \in Charts : chart[c].aborted = FALSE
    BY <1>1 DEF Init, Idle
  <2> QED  BY <1>1, <2>1 DEF Init, AbortFlagsAgree
<1> QED  BY <1>1, FlagsStep, TypeCorrect, AbortIsAbsolute, PTL DEF Spec
-----------------------------------------------------------------------------
(* The compiled abort set is closed under the transitions that touch it.   *)
LEMMA AbortSetClosed ==
  ASSUME NEW c \in Charts, NEW tr \in TransOf(c), From[tr] \cap AbortSet[c] # {}
  PROVE  To[tr] \subseteq AbortSet[c]
<1>1. AbortStep[c] # NoStep /\ tr \in Trans /\ ChartOf[tr] = c
  BY DEF AbortSet, TransOf
<1>2. To[tr] \subseteq StepsOf[c]
  BY <1>1, ChartAssumption
<1>3. ASSUME NEW s \in To[tr], NEW S \in SUBSET StepsOf[c], ClosedUnder(c, S)
      PROVE  s \in S
  <2>1. AbortSet[c] \subseteq S
    BY <1>1, <1>3 DEF AbortSet
  <2> QED  BY <1>3, <2>1 DEF ClosedUnder
<1> QED  BY <1>1, <1>2, <1>3 DEF AbortSet

LEMMA ApplyAbortConfined ==
  ASSUME NEW c \in Charts
  PROVE  ApplyAbort(c).active \cup ApplyAbort(c).pending \subseteq AbortSet[c]
<1>1. CASE AbortStep[c] = NoStep
  BY <1>1 DEF ApplyAbort, Idle
<1>2. CASE AbortStep[c] # NoStep
  <2>1. AbortStep[c] \in AbortSet[c]
    BY <1>2, ChartAssumption DEF AbortSet, ClosedUnder
  <2> QED  BY <1>2, <2>1 DEF ApplyAbort
<1> QED  BY <1>1, <1>2

(* An aborted chart that is inside its abort set stays inside it.          *)
LEMMA AfterConfined ==
  ASSUME NEW c \in Charts, NEW cs \in ChartState, cs.aborted, NEW fresh,
         cs.active \cup cs.pending \subseteq AbortSet[c],
         NEW F \in SUBSET Ready(c, cs, fresh)
  PROVE  /\ After(cs, F).active \cup After(cs, F).pending \subseteq AbortSet[c]
         /\ Acting(cs, F) \subseteq AbortSet[c]
<1>1. ASSUME NEW tr \in F PROVE From[tr] \cup To[tr] \subseteq AbortSet[c]
  <2>1. tr \in TransOf(c) /\ From[tr] \subseteq AbortSet[c]
    BY DEF Ready
  <2>2. From[tr] # {}
    BY <2>1, ChartAssumption DEF TransOf
  <2> QED  BY <2>1, <2>2, AbortSetClosed
<1>2. Exited(F) \cup Targets(F) \subseteq AbortSet[c]
  BY <1>1 DEF Exited, Targets
<1>3. After(cs, F).active \cup After(cs, F).pending \subseteq AbortSet[c]
  BY <1>2 DEF After, ChartState
<1> QED  BY <1>2, <1>3 DEF Acting

(* The chart states a scan computes under an abort.                        *)
LEMMA ScanConfined ==
  ASSUME TypeOK, AbortFlagsAgree, ChartsConfined, NEW r \in SUBSET Rows, Aborting(r),
         NEW flt \in SUBSET Faultable(r), NEW F \in Firings(r, flt),
         NEW c \in loaded \cap Charts
  PROVE  /\ ChartIn(r)[c].active \cup ChartIn(r)[c].pending \subseteq AbortSet[c]
         /\ ChartOut(r, flt, F)[c].active \cup ChartOut(r, flt, F)[c].pending \subseteq AbortSet[c]
         /\ c \in Executing(r) \ flt => Acting(ChartIn(r)[c], F \cap TransOf(c)) \subseteq AbortSet[c]
<1>1. ChartIn(r)[c] \in ChartState /\ ChartIn(r)[c].aborted
  <2>1. CASE Latches(r)
    BY <2>1, ApplyAbortType DEF ChartIn, ApplyAbort, Idle
  <2>2. CASE ~Latches(r)
    BY <2>2 DEF ChartIn, AbortFlagsAgree, TypeOK, Latches, Aborting
  <2> QED  BY <2>1, <2>2
<1>2. ChartIn(r)[c].active \cup ChartIn(r)[c].pending \subseteq AbortSet[c]
  <2>1. CASE Latches(r)
    BY <2>1, ApplyAbortConfined DEF ChartIn
  <2>2. CASE ~Latches(r)
    BY <2>2 DEF ChartIn, ChartsConfined, Latches, Aborting
  <2> QED  BY <2>1, <2>2
<1>3. CASE c \in Executing(r) \ flt
  <2>1. F \cap TransOf(c) \in SUBSET Ready(c, ChartIn(r)[c], FreshIn(r, c))
    <3> SUFFICES ASSUME NEW tr \in F, tr \in TransOf(c)
                 PROVE  tr \in Ready(c, ChartIn(r)[c], FreshIn(r, c))
      OBVIOUS
    <3>1. tr \in ReadyTrans(r, flt)
      BY DEF Firings
    <3>2. PICK d \in (Executing(r) \cap Charts) \ flt : tr \in Ready(d, ChartIn(r)[d], FreshIn(r, d))
      BY <3>1 DEF ReadyTrans
    <3>3. d = c
      BY <3>2 DEF Ready, TransOf
    <3> QED  BY <3>2, <3>3
  <2> QED  BY <1>1, <1>2, <1>3, <2>1, AfterConfined DEF ChartOut
<1>4. CASE c \notin Executing(r) \ flt
  BY <1>2, <1>4 DEF ChartOut
<1> QED  BY <1>2, <1>3, <1>4

LEMMA ConfinedStep ==
  ASSUME TypeOK, AbortAbsolute, AbortFlagsAgree, ChartsConfined, [Next]_vars
  PROVE  ChartsConfined'
<1> SUFFICES ASSUME latched' PROVE ChartsConfined'
  BY DEF ChartsConfined
<1>1. CASE Scan
  <2>2. PICK r, flt, F, v, q :
          /\ r \in SUBSET Rows /\ flt \in SUBSET Faultable(r) /\ F \in Firings(r, flt)
          /\ ScanOn(r, flt, F, v, q)
    BY <1>1, ScanParameters DEF ScanReturn
  <2>3. Aborting(r) /\ loaded' = loaded /\ chart' = ChartOut(r, flt, F)
    BY <2>2 DEF ScanOn, ScanPrograms
  <2>4. \A c \in loaded \cap Charts :
          ChartOut(r, flt, F)[c].active \cup ChartOut(r, flt, F)[c].pending \subseteq AbortSet[c]
    BY <2>2, <2>3, ScanConfined
  <2> QED  BY <2>3, <2>4 DEF ChartsConfined
<1>2. CASE OtherStep
  BY <1>2, OtherStepLatched DEF ChartsConfined
<1>3. CASE UNCHANGED vars
  BY <1>3 DEF ChartsConfined, vars, modeVars, configVars, programVars
<1> QED  BY <1>1, <1>2, <1>3, StepCases

(* Whatever the shape of a chart, a latched abort never leaves a step of   *)
(* its normal sequence active or about to act.                             *)
THEOREM AbortConfinesCharts == Spec => []ChartsConfined
<1>1. Init => ChartsConfined
  BY DEF Init, ChartsConfined
<1> QED  BY <1>1, ConfinedStep, TypeCorrect, AbortIsAbsolute, FlagsAgree, PTL DEF Spec
-----------------------------------------------------------------------------
(* What the programs can write in a scan that finds an abort latched.      *)
LEMMA LatchedWrites ==
  ASSUME TypeOK, AbortAbsolute, AbortFlagsAgree, ChartsConfined, latched,
         NEW r \in SUBSET Rows, NEW flt \in SUBSET Faultable(r), NEW F \in Firings(r, flt),
         NEW v \in Writings(r, flt, F), NEW t \in Outputs \ ChainTags
  PROVE  v[t] = None /\ ForcedIn(r)[t] = None
<1>1. ~Latches(r) /\ Aborting(r)
  BY DEF Latches, Aborting
<1>2. ForcedIn(r)[t] = None
  BY <1>1 DEF ForcedIn, AbortAbsolute, NoCommand
<1>3. t \notin Chartable(r, flt, F)
  <2> SUFFICES ASSUME t \in Chartable(r, flt, F) PROVE FALSE
    OBVIOUS
  <2> DEFINE Acts(c) == Acting(ChartIn(r)[c], F \cap TransOf(c))
  <2>1. PICK c \in (Executing(r) \cap Charts) \ flt : t \in UNION {StepWrites[s] : s \in Acts(c)}
    BY DEF Chartable
  <2>2. PICK s \in Acts(c) : t \in StepWrites[s]
    BY <2>1
  <2>3. c \in loaded \cap Charts
    BY <2>1 DEF Executing
  <2>4. s \in AbortSet[c]
    BY <1>1, <2>1, <2>2, <2>3, ScanConfined
  <2> QED  BY <2>2, <2>3, <2>4 DEF ChainTags, AbortWrites
<1>4. ASSUME NEW p \in Code(r, flt) PROVE t \notin CodeWrites[p]
  <2>1. p \in loaded \ Charts /\ p \in enabled
    BY <1>1 DEF Code, Executing, EnabledIn
  <2> QED  BY <2>1 DEF AbortAbsolute, SwitchedByAbort
<1>5. t \notin Driving(r, flt) /\ t \notin Closing(r, flt)
  BY <1>4 DEF Driving, Closing
<1> QED  BY <1>2, <1>3, <1>5 DEF Writings, Writable

LEMMA ChainsWriteStep ==
  ASSUME TypeOK, AbortAbsolute, AbortFlagsAgree, ChartsConfined, [Next]_vars, latched, latched',
         NEW t \in Outputs \ ChainTags
  PROVE  image'[t] = image[t]
<1>1. CASE Scan
  <2>4. PICK r, flt, F, v, q :
          /\ r \in SUBSET Rows /\ flt \in SUBSET Faultable(r) /\ F \in Firings(r, flt)
          /\ v \in Writings(r, flt, F) /\ ScanOn(r, flt, F, v, q)
    BY <1>1, ScanParameters DEF ScanReturn
  <2>5. v[t] = None /\ ForcedIn(r)[t] = None
    BY <2>4, LatchedWrites
  <2>6. image' = ImageOut(r, v)
    BY <2>4 DEF ScanOn, ScanPrograms
  <2> QED  BY <2>5, <2>6 DEF ImageOut
<1>2. CASE OtherStep
  BY <1>2, OtherStepLatched
<1>3. CASE UNCHANGED vars
  BY <1>3 DEF vars, memoryVars
<1> QED  BY <1>1, <1>2, <1>3, StepCases

(* Under an abort no program but an abort chain changes the coil of any    *)
(* valve, not even in the PLC image that arbitration hides.                *)
THEOREM OnlyAbortChainsWrite == Spec => OnlyChainsWrite
<1> DEFINE Inv == TypeOK /\ AbortAbsolute /\ AbortFlagsAgree /\ ChartsConfined
<1>1. Spec => []Inv
  BY TypeCorrect, AbortIsAbsolute, FlagsAgree, AbortConfinesCharts, PTL
<1>2. Inv /\ [Next]_vars =>
        [latched /\ latched' => \A t \in Outputs \ ChainTags : image'[t] = image[t]]_vars
  BY ChainsWriteStep
<1> QED  BY <1>1, <1>2, PTL DEF Spec, OnlyChainsWrite
-----------------------------------------------------------------------------
(* Stopping.                                                               *)
LEMMA InertStep ==
  ASSUME TypeOK, StoppedIsInert, [Next]_vars
  PROVE  StoppedIsInert'
<1> SUFFICES ASSUME ~running' PROVE StoppedIsInert'
  BY DEF StoppedIsInert
<1>1. CASE Scan
  BY <1>1 DEF Scan, ScanOn, ScanReturn, ScanPrograms
<1>2. CASE ScanStopped
  BY <1>2 DEF ScanStopped, StoppedIsInert, modeVars
<1>3. CASE Lifecycle
  BY <1>3 DEF Lifecycle, PlcRun, PlcStop, PlcReset, SimReset, ResetPlc, LoadPrograms,
              ClearFaults, ForgetCommands, StoppedIsInert, modeVars, commandVars
<1>4. CASE AbortCommand
  BY <1>4 DEF AbortCommand, AbortRequest, AbortConfig, StoppedIsInert, modeVars, commandVars
<1>5. CASE SequenceCommand
  BY <1>5 DEF SequenceCommand, SequenceStart, SequenceStop, SetChart, StoppedIsInert,
              modeVars, commandVars
<1>6. CASE ValveCommand
  BY <1>6 DEF ValveCommand, WriteManual, ManualAllowed, ForceOutput, UnforceOutput,
              StoppedIsInert, modeVars, commandVars
<1>7. CASE LoopCommand
  <2>1. ASSUME NEW l \in Loops, EnableLoop(l) PROVE StoppedIsInert'
    <3>1. manual = NoCommand /\ driven = {} /\ ~latched /\ ~hmiAbort
      BY <2>1 DEF EnableLoop, StoppedIsInert, modeVars
    <3>2. manual' = NoCommand
      BY <2>1, <3>1 DEF EnableLoop, NoCommand
    <3> QED  BY <2>1, <3>1, <3>2 DEF EnableLoop, StoppedIsInert, modeVars
  <2>2. ASSUME NEW l \in Loops, DisableLoop(l) \/ WriteSetpoint(l) PROVE StoppedIsInert'
    BY <2>2 DEF DisableLoop, WriteSetpoint, StoppedIsInert, modeVars, commandVars
  <2>3. ASSUME NEW l \in Loops, NEW b \in Position, HandOver(l, b) PROVE FALSE
    BY <2>3 DEF HandOver, ManualAllowed, modeVars
  <2> QED  BY <1>7, <2>1, <2>2, <2>3 DEF LoopCommand
<1>8. CASE GlobalCommand
  BY <1>8 DEF GlobalCommand, WriteGlobal, ForceGlobal, UnforceGlobal, StoppedIsInert,
              modeVars, commandVars
<1>9. CASE UNCHANGED vars
  BY <1>9 DEF vars, StoppedIsInert, modeVars, commandVars
<1> QED  BY <1>1, <1>2, <1>3, <1>4, <1>5, <1>6, <1>7, <1>8, <1>9 DEF Next

(* A stopped PLC has kept no command, no held coil and no pending abort    *)
(* for the next plc.run, whatever was requested while it was stopped.      *)
THEOREM StoppedStandIsInert == Spec => []StoppedIsInert
<1>1. Init => StoppedIsInert
  BY DEF Init, StoppedIsInert
<1> QED  BY <1>1, InertStep, TypeCorrect, PTL DEF Spec
-----------------------------------------------------------------------------
(* Programs an abort switched off.                                         *)
(* Every action but a scan, PlcStop, a reset and a load leaves the enables *)
(* and the program set alone.                                              *)
SameEnables == UNCHANGED <<latched, loaded, enabled, abortDisabled>>

LEMMA EnablesStep ==
  ASSUME [Next]_vars
  PROVE  \/ Scan \/ PlcStop \/ PlcReset \/ SimReset
         \/ \E L \in LoadChoices : LoadPrograms(L)
         \/ SameEnables
<1>1. CASE PlcRun \/ ClearFaults \/ ScanStopped \/ AbortCommand
  BY <1>1 DEF PlcRun, ClearFaults, ScanStopped, AbortCommand, AbortRequest, AbortConfig,
              SameEnables, modeVars, commandVars, configVars, memoryVars, programVars
<1>2. CASE SequenceCommand \/ ValveCommand \/ GlobalCommand
  BY <1>2 DEF SequenceCommand, SequenceStart, SequenceStop, SetChart,
              ValveCommand, WriteManual, ForceOutput, UnforceOutput,
              GlobalCommand, WriteGlobal, ForceGlobal, UnforceGlobal, SameEnables, modeVars, commandVars, configVars, memoryVars, programVars
<1>3. CASE LoopCommand
  BY <1>3 DEF LoopCommand, EnableLoop, DisableLoop, WriteSetpoint, HandOver, SameEnables, modeVars, commandVars, configVars, memoryVars, programVars
<1>4. CASE UNCHANGED vars
  BY <1>4 DEF vars, SameEnables, modeVars, commandVars, configVars, memoryVars, programVars
<1> QED  BY <1>1, <1>2, <1>3, <1>4 DEF Next, Lifecycle

LEMMA ScanEnables ==
  ASSUME Scan
  PROVE  \E r : /\ enabled' = EnabledIn(r) /\ loaded' = loaded
                /\ abortDisabled' = IF Latches(r) THEN abortDisabled \cup SwitchedByAbort
                                    ELSE abortDisabled
                /\ latched' => latched \/ Latches(r)
<1>1. PICK r, flt, F, v, q : ScanOn(r, flt, F, v, q) \/ ScanReturn(r, flt, F, v, q)
  BY ScanParameters
<1> QED  BY <1>1 DEF ScanOn, ScanReturn, ScanPrograms, Aborting, Latches

LEMMA ResetStep ==
  ASSUME PlcReset \/ SimReset \/ \E L \in LoadChoices : LoadPrograms(L)
  PROVE  abortDisabled' = {} /\ manual' = NoCommand /\ driven' = {} /\ ~latched'
<1>1. CASE PlcReset \/ SimReset
  BY <1>1 DEF PlcReset, SimReset, ResetPlc, ForgetCommands
<1>2. ASSUME NEW L \in LoadChoices, LoadPrograms(L)
      PROVE  abortDisabled' = {} /\ manual' = NoCommand /\ driven' = {} /\ ~latched'
  BY <1>2 DEF LoadPrograms, ForgetCommands
<1> QED  BY <1>1, <1>2

LEMMA SwitchedOffStep ==
  ASSUME TypeOK, SwitchedOffStaysOff, [Next]_vars
  PROVE  SwitchedOffStaysOff'
<1>1. CASE Scan
  <2>1. PICK r : /\ enabled' = EnabledIn(r) /\ loaded' = loaded
                 /\ abortDisabled' = IF Latches(r) THEN abortDisabled \cup SwitchedByAbort
                                     ELSE abortDisabled
                 /\ latched' => latched \/ Latches(r)
    BY <1>1, ScanEnables
  <2>2. SwitchedByAbort' = SwitchedByAbort
    BY <2>1 DEF SwitchedByAbort
  <2> QED  BY <2>1, <2>2 DEF SwitchedOffStaysOff, EnabledIn
<1>2. CASE PlcStop
  BY <1>2 DEF PlcStop, SwitchedOffStaysOff
<1>3. CASE PlcReset \/ SimReset \/ \E L \in LoadChoices : LoadPrograms(L)
  <2>1. abortDisabled' = {} /\ ~latched'
    BY <1>3, ResetStep
  <2> QED  BY <2>1 DEF SwitchedOffStaysOff
<1>4. CASE SameEnables
  BY <1>4 DEF SameEnables, SwitchedOffStaysOff, SwitchedByAbort
<1> QED  BY <1>1, <1>2, <1>3, <1>4, EnablesStep

(* A program an abort switched off is never enabled while the abort's list *)
(* names it, and under an abort the list names every valve-driving program *)
(* but the charts.                                                         *)
THEOREM SwitchedOffIsOff == Spec => []SwitchedOffStaysOff
<1>1. Init => SwitchedOffStaysOff
  BY DEF Init, SwitchedOffStaysOff
<1> QED  BY <1>1, SwitchedOffStep, TypeCorrect, PTL DEF Spec

LEMMA ReArmStep ==
  ASSUME SwitchedOffStaysOff, [Next]_vars, NEW p \in abortDisabled, p \in enabled'
  PROVE  manual' = NoCommand /\ driven' = {} /\ ~latched'
<1>1. ~Scan
  BY ScanEnables DEF SwitchedOffStaysOff, EnabledIn
<1>2. ~PlcStop
  BY DEF PlcStop
<1>3. ~SameEnables
  BY DEF SameEnables, SwitchedOffStaysOff
<1>4. PlcReset \/ SimReset \/ \E L \in LoadChoices : LoadPrograms(L)
  BY <1>1, <1>2, <1>3, EnablesStep
<1> QED  BY <1>4, ResetStep

(* Nothing re-arms itself: a program an abort switched off runs again only *)
(* through a step that leaves no command and no held coil.                 *)
THEOREM NothingReArmsItself == Spec => ReArmedOnlyByReset
<1>1. SwitchedOffStaysOff /\ [Next]_vars =>
        [\A p \in abortDisabled :
           p \in enabled' => manual' = NoCommand /\ driven' = {} /\ ~latched']_vars
  BY ReArmStep
<1> QED  BY <1>1, SwitchedOffIsOff, PTL DEF Spec, ReArmedOnlyByReset
-----------------------------------------------------------------------------
(* The operator's abort request.                                           *)
LEMMA RequestStep ==
  ASSUME TypeOK, [Next]_vars, hmiAbort, ~hmiAbort'
  PROVE  \/ manual' = NoCommand /\ driven' = {} /\ bbOn' = {} /\ ~latched'
         \/ /\ enabled' \cap SwitchedByAbort = {}
            /\ \A t \in Outputs \ ChainTags : outputImage'[t] = Safe[t]
<1>1. CASE Scan
  <2>0. PICK r, flt, F, v, q : ScanOn(r, flt, F, v, q) \/ ScanReturn(r, flt, F, v, q)
    BY <1>1, ScanParameters
  <2>1. /\ Latches(r) /\ enabled' = EnabledIn(r)
        /\ outputImage' = Final(r, v, ChartOut(r, flt, F))
    BY <2>0 DEF ScanOn, ScanReturn, ScanPrograms
  <2>2. Aborting(r)
    BY <2>1 DEF Aborting, Latches
  <2> QED  BY <2>1, <2>2 DEF EnabledIn, Final, AbortTable
<1>2. CASE Lifecycle
  BY <1>2 DEF Lifecycle, PlcRun, PlcStop, PlcReset, SimReset, ResetPlc, LoadPrograms,
              ClearFaults, Rebuild, ForgetCommands, modeVars
<1>3. CASE ScanStopped \/ AbortCommand \/ UNCHANGED vars
  BY <1>3 DEF ScanStopped, AbortCommand, AbortRequest, AbortConfig, vars, modeVars
<1>4. CASE SequenceCommand \/ ValveCommand \/ GlobalCommand
  BY <1>4 DEF SequenceCommand, SequenceStart, SequenceStop, SetChart,
              ValveCommand, WriteManual, ForceOutput, UnforceOutput,
              GlobalCommand, WriteGlobal, ForceGlobal, UnforceGlobal, modeVars
<1>5. CASE LoopCommand
  BY <1>5 DEF LoopCommand, EnableLoop, DisableLoop, WriteSetpoint, HandOver, modeVars
<1> QED  BY <1>1, <1>2, <1>3, <1>4, <1>5 DEF Next

(* A pending abort request leaves the machine only by being served.        *)
THEOREM RequestIsServed == Spec => AbortRequestServed
<1>1. TypeOK /\ [Next]_vars =>
        [hmiAbort /\ ~hmiAbort' =>
           \/ manual' = NoCommand /\ driven' = {} /\ bbOn' = {} /\ ~latched'
           \/ /\ enabled' \cap SwitchedByAbort = {}
              /\ \A t \in Outputs \ ChainTags : outputImage'[t] = Safe[t]]_vars
  BY RequestStep
<1> QED  BY <1>1, TypeCorrect, PTL DEF Spec, AbortRequestServed
-----------------------------------------------------------------------------
(* Bang-bang loops and their solenoids.                                    *)
LEMMA OwnershipStep ==
  ASSUME TypeOK, LoopOwnsSolenoid, [Next]_vars
  PROVE  LoopOwnsSolenoid'
<1> USE DEF LoopOwnsSolenoid
<1>1. CASE Scan
  <2>1. PICK r, flt, F, v, q : ScanOn(r, flt, F, v, q) \/ ScanReturn(r, flt, F, v, q)
    BY <1>1, ScanParameters
  <2>2. \A l \in Loops : Solenoid[l] \in Outputs
    BY StandAssumption
  <2>3. CASE ScanOn(r, flt, F, v, q)
    BY <2>2, <2>3 DEF ScanOn, ManualOut, TypeOK
  <2>4. CASE ScanReturn(r, flt, F, v, q)
    BY <2>4 DEF ScanReturn
  <2> QED  BY <2>1, <2>3, <2>4
<1>2. CASE PlcStop \/ PlcReset \/ SimReset \/ \E L \in LoadChoices : LoadPrograms(L)
  <2>1. manual' = NoCommand /\ bbOn' \subseteq Loops
    BY <1>2, ResetStep, TypeStep DEF PlcStop, ForgetCommands, TypeOK
  <2> QED  BY <2>1, StandAssumption DEF NoCommand
<1>3. CASE UNCHANGED <<manual, bbOn>>
  BY <1>3
<1>4. CASE PlcRun \/ ClearFaults \/ ScanStopped \/ AbortCommand \/ SequenceCommand \/ GlobalCommand
  BY <1>3, <1>4 DEF PlcRun, ClearFaults, ScanStopped, AbortCommand, AbortRequest, AbortConfig,
       SequenceCommand, SequenceStart, SequenceStop, SetChart,
       GlobalCommand, WriteGlobal, ForceGlobal, UnforceGlobal, commandVars
<1>5. CASE ValveCommand
  <2>1. ASSUME NEW t \in ManualTags, NEW b \in Position, WriteManual(t, b)
        PROVE  LoopOwnsSolenoid'
    BY <2>1 DEF WriteManual, TypeOK
  <2> QED  BY <1>3, <1>5, <2>1 DEF ValveCommand, ForceOutput, UnforceOutput, commandVars
<1>6. CASE LoopCommand
  <2> USE StandAssumption
  <2>1. ASSUME NEW l \in Loops, EnableLoop(l) PROVE LoopOwnsSolenoid'
    BY <2>1 DEF EnableLoop, TypeOK
  <2>2. ASSUME NEW l \in Loops, DisableLoop(l) PROVE LoopOwnsSolenoid'
    BY <2>2 DEF DisableLoop
  <2>3. ASSUME NEW l \in Loops, NEW b \in Position, HandOver(l, b) PROVE LoopOwnsSolenoid'
    BY <2>3 DEF HandOver, TypeOK
  <2>4. ASSUME NEW l \in Loops, WriteSetpoint(l) PROVE LoopOwnsSolenoid'
    BY <1>3, <2>4 DEF WriteSetpoint, commandVars
  <2> QED  BY <1>6, <2>1, <2>2, <2>3, <2>4 DEF LoopCommand
<1>7. CASE UNCHANGED vars
  BY <1>3, <1>7 DEF vars, commandVars
<1> QED  BY <1>1, <1>2, <1>4, <1>5, <1>6, <1>7 DEF Next, Lifecycle

(* A manual command never sits on the solenoid of an enabled loop, for any *)
(* number of loops.                                                        *)
THEOREM LoopsOwnSolenoids == Spec => []LoopOwnsSolenoid
<1>1. Init => LoopOwnsSolenoid
  BY DEF Init, LoopOwnsSolenoid
<1> QED  BY <1>1, OwnershipStep, TypeCorrect, PTL DEF Spec
-----------------------------------------------------------------------------
(* Restrictions on the programs that some theorems need.                   *)
NoAutostart == Autostart = {}

ChainsAreLong == \A c \in Charts : AbortStep[c] # NoStep => AbortStep[c] \notin Terminal[c]

LEMMA StopRuns == ASSUME NEW cs PROVE Stop(cs).running = FALSE
BY DEF Stop, Idle

LEMMA Restarted ==
  ASSUME NoAutostart, NEW L, NEW f, NEW gf, NEW bb, Rebuild(L, f, gf, bb)
  PROVE  \A c \in Charts : chart'[c] = Idle
BY DEF Rebuild, NoAutostart

(* An abort chain does not get past its first step in the scan that        *)
(* latches: the step is fresh.                                             *)
LEMMA ChainBegins ==
  ASSUME NEW r, NEW flt, NEW F \in Firings(r, flt), Latches(r),
         NEW c \in loaded \cap Charts, AbortStep[c] # NoStep
  PROVE  /\ ChartOut(r, flt, F)[c].active = {AbortStep[c]}
         /\ ChartOut(r, flt, F)[c].running
<1> DEFINE cs == ChartIn(r)[c]
<1>1. cs = ApplyAbort(c) /\ FreshIn(r, c) = {AbortStep[c]}
  BY DEF ChartIn, FreshIn
<1>2. cs.active = {AbortStep[c]} /\ cs.running
  BY <1>1 DEF ApplyAbort
<1>3. Ready(c, cs, FreshIn(r, c)) = {}
  <2>1. \A tr \in TransOf(c) : From[tr] # {}
    BY ChartAssumption DEF TransOf
  <2> QED  BY <1>1, <1>2, <2>1 DEF Ready
<1>4. F \cap TransOf(c) = {}
  <2>1. ASSUME NEW tr \in F, tr \in TransOf(c) PROVE FALSE
    <3>1. PICK d \in Charts : tr \in Ready(d, ChartIn(r)[d], FreshIn(r, d))
      BY <2>1 DEF Firings, ReadyTrans
    <3>2. d = c
      BY <2>1, <3>1 DEF Ready, TransOf
    <3> QED  BY <1>3, <3>1, <3>2
  <2> QED  BY <2>1
<1>5. Exited({}) = {} /\ Targets({}) = {}
  BY DEF Exited, Targets
<1>6. After(cs, {}).active = {AbortStep[c]} /\ After(cs, {}).running
  BY <1>1, <1>2, <1>5 DEF After, ApplyAbort
<1>7. ChartOut(r, flt, F)[c] \in {cs, After(cs, {})}
  BY <1>4 DEF ChartOut
<1> QED  BY <1>2, <1>6, <1>7

(* So an abort that ends in that scan had no chain to run, and leaves      *)
(* every output safe.                                                      *)
LEMMA NoChainIsSafe ==
  ASSUME ChainsAreLong, NEW r, NEW flt, NEW F \in Firings(r, flt), NEW v, NEW q,
         Latches(r), ScanReturn(r, flt, F, v, q)
  PROVE  /\ \A c \in loaded \cap Charts : AbortStep[c] = NoStep
         /\ manual' = NoCommand /\ outputImage' = Safe
<1>1. \A c \in loaded \cap Charts : AbortStep[c] = NoStep
  <2>1. ASSUME NEW c \in loaded \cap Charts, AbortStep[c] # NoStep PROVE FALSE
    <3>1. ChainDone(c, ChartOut(r, flt, F)[c])
      BY <2>1 DEF ScanReturn, Returns
    <3>2. AbortStep[c] \in Terminal[c]
      BY <2>1, <3>1, ChainBegins DEF ChainDone
    <3> QED  BY <2>1, <3>2 DEF ChainsAreLong
  <2> QED  BY <2>1
<1>2. ChainTags = {}
  BY <1>1 DEF ChainTags, AbortWrites, AbortSet
<1>3. outputImage' = [t \in Outputs |-> Safe[t]]
  BY <1>2 DEF ScanReturn, ScanPrograms, Final, AbortTable, Aborting, Latches
<1> QED  BY <1>1, <1>3 DEF ScanReturn, NoCommand, Safe

-----------------------------------------------------------------------------
(* Charts run only while the PLC does.                                     *)
ChartsStopped == ~running => \A c \in Charts : ~chart[c].running

(* Requests that leave the mode, the commands and the charts alone.        *)
Aside ==
  \/ ScanStopped \/ ClearFaults \/ AbortCommand \/ GlobalCommand
  \/ \E t \in ForceTags : (\E b \in Position : ForceOutput(t, b)) \/ UnforceOutput(t)
  \/ \E l \in Loops : DisableLoop(l) \/ WriteSetpoint(l)
  \/ UNCHANGED vars

LEMMA AsideKeeps == ASSUME Aside PROVE UNCHANGED <<running, latched, loaded, chart, manual>>
<1>1. CASE ScanStopped \/ ClearFaults \/ AbortCommand
  BY <1>1 DEF ScanStopped, ClearFaults, AbortCommand, AbortRequest, AbortConfig, modeVars,
              commandVars, configVars, memoryVars, programVars
<1>2. CASE GlobalCommand
  BY <1>2 DEF GlobalCommand, WriteGlobal, ForceGlobal, UnforceGlobal, modeVars, commandVars,
              configVars, programVars
<1>3. CASE \E t \in ForceTags : (\E b \in Position : ForceOutput(t, b)) \/ UnforceOutput(t)
  BY <1>3 DEF ForceOutput, UnforceOutput, modeVars, commandVars, configVars, programVars
<1>4. CASE \E l \in Loops : DisableLoop(l) \/ WriteSetpoint(l)
  BY <1>4 DEF DisableLoop, WriteSetpoint, modeVars, commandVars, configVars, programVars
<1>5. CASE UNCHANGED vars
  BY <1>5 DEF vars, modeVars, commandVars, configVars, programVars
<1> QED  BY <1>1, <1>2, <1>3, <1>4, <1>5 DEF Aside

LEMMA StoppedStep ==
  ASSUME NoAutostart, TypeOK, ChartsStopped, [Next]_vars
  PROVE  ChartsStopped'
<1> SUFFICES ASSUME ~running' PROVE \A c \in Charts : ~chart'[c].running
  BY DEF ChartsStopped
<1>1. CASE Aside
  BY <1>1, AsideKeeps DEF ChartsStopped
<1>2. CASE PlcStop \/ PlcReset \/ SimReset \/ \E L \in LoadChoices : LoadPrograms(L)
  <2>1. \A c \in Charts : chart'[c] = Idle
    BY <1>2, Restarted DEF PlcStop, PlcReset, SimReset, ResetPlc, LoadPrograms
  <2> QED  BY <2>1 DEF Idle
<1>3. ASSUME NEW c \in Charts, SequenceStart(c) \/ SequenceStop(c)
      PROVE  \A d \in Charts : ~chart'[d].running
  BY <1>3, StopRuns DEF SequenceStart, SequenceStop, SetChart, ChartsStopped, TypeOK, modeVars
<1>4. CASE \/ \E t \in ManualTags, b \in Position : WriteManual(t, b)
           \/ \E l \in Loops : EnableLoop(l) \/ \E b \in Position : HandOver(l, b)
  BY <1>4 DEF WriteManual, EnableLoop, HandOver, ChartsStopped, modeVars, programVars
<1>5. CASE Scan
  BY <1>5 DEF Scan, ScanOn, ScanReturn, ScanPrograms
<1>6. CASE PlcRun
  BY <1>6 DEF PlcRun
<1> QED
  BY <1>1, <1>2, <1>3, <1>4, <1>5, <1>6
  DEF Next, Lifecycle, SequenceCommand, ValveCommand, LoopCommand, Aside

-----------------------------------------------------------------------------
-----------------------------------------------------------------------------
AuthInv == TypeOK /\ AbortAbsolute /\ StoppedIsInert /\ ChartsStopped

LEMMA AuthorityInit == Init => A!Init
<1> SUFFICES ASSUME Init PROVE A!Init
  OBVIOUS
<1>1. ~running /\ \A t \in Outputs : manual[t] = None
  BY DEF Init, NoCommand
<1> QED  BY <1>1 DEF A!Init, Mode, ByHand

LEMMA NobodyByHand == ASSUME manual = NoCommand PROVE ByHand = {}
BY DEF ByHand, NoCommand

LEMMA NobodyByHandNext == ASSUME manual' = NoCommand PROVE ByHand' = {}
BY DEF ByHand, NoCommand

(* A stopped or latched stand has no valve by hand; a latched one runs.    *)
LEMMA ModesOf ==
  ASSUME AuthInv
  PROVE  /\ Mode = "stopped" <=> ~running
         /\ Mode = "abort" <=> latched
         /\ Mode \in {"operator", "sequence"} <=> running /\ ~latched
         /\ Mode = "operator" <=> ManualAllowed
         /\ ~running \/ latched => ByHand = {}
<1>1. ~running => ~latched
  BY DEF AuthInv, StoppedIsInert
<1>2. ~running \/ latched => ByHand = {}
  BY NobodyByHand DEF AuthInv, StoppedIsInert, AbortAbsolute
<1> QED  BY <1>1, <1>2 DEF Mode, ManualAllowed

LEMMA AuthorityStep ==
  ASSUME NoAutostart, ChainsAreLong, AuthInv, AuthInv', [Next]_vars
  PROVE  [A!Next]_<<Mode, ByHand>>
<1> USE DEF A!Next
<1>m. /\ Mode = "stopped" <=> ~running
      /\ Mode = "abort" <=> latched
      /\ Mode \in {"operator", "sequence"} <=> running /\ ~latched
      /\ Mode = "operator" <=> ManualAllowed
      /\ ~running \/ latched => ByHand = {}
  BY ModesOf
<1>n. /\ Mode' = "stopped" <=> ~running'
      /\ Mode' = "abort" <=> latched'
      /\ Mode' \in {"operator", "sequence"} <=> running' /\ ~latched'
      /\ Mode' = "operator" <=> running' /\ ~latched' /\ Active' = {}
      /\ ~running' \/ latched' => ByHand' = {}
  <2>1. ~running' => ~latched'
    BY DEF AuthInv, StoppedIsInert
  <2>2. ~running' \/ latched' => ByHand' = {}
    BY NobodyByHandNext DEF AuthInv, StoppedIsInert, AbortAbsolute, NoCommand
  <2> QED  BY <2>1, <2>2 DEF Mode
<1>a. ASSUME UNCHANGED <<running, latched, loaded, chart>> PROVE Mode' = Mode
  BY <1>a DEF Mode, Active
<1>b. ASSUME UNCHANGED manual PROVE ByHand' = ByHand
  BY <1>b DEF ByHand
<1>i. ASSUME \A c \in loaded' \cap Charts : chart'[c] = Idle PROVE Active' = {}
  BY <1>i DEF Active, Idle
<1>p. ASSUME Mode \in {"operator", "sequence"}, Mode' \in {"operator", "sequence"},
             ByHand' \subseteq ByHand
      PROVE  A!Next
  BY <1>p DEF A!Proceed
<1>1. CASE Aside
  BY <1>1, <1>a, <1>b, AsideKeeps
<1>2. CASE PlcRun
  <2>1. /\ ~running /\ running' /\ UNCHANGED <<latched, loaded, chart, manual>>
    BY <1>2 DEF PlcRun, commandVars, configVars, programVars
  <2>2. ~latched' /\ Active' = {}
    BY <2>1 DEF AuthInv, StoppedIsInert, ChartsStopped, Active
  <2> QED  BY <2>1, <2>2, <1>m, <1>n, <1>b DEF A!Run
<1>3. CASE PlcStop
  <2>1. running /\ ~latched /\ ~running'
    BY <1>3 DEF PlcStop
  <2> QED  BY <2>1, <1>m, <1>n DEF A!Stop
<1>4. CASE PlcReset \/ SimReset
  <2>1. /\ running' = running /\ ~latched' /\ ByHand' = {}
        /\ \A c \in Charts : chart'[c] = Idle
    BY <1>4, Restarted, NobodyByHandNext DEF PlcReset, SimReset, ResetPlc, ForgetCommands
  <2>2. CASE running
    BY <2>1, <2>2, <1>i, <1>m, <1>n DEF A!Reset
  <2>3. CASE ~running
    BY <2>1, <2>3, <1>m, <1>n
  <2> QED  BY <2>2, <2>3
<1>5. ASSUME NEW L \in LoadChoices, LoadPrograms(L) PROVE UNCHANGED <<Mode, ByHand>>
  <2>1. ~running /\ ~running'
    BY <1>5 DEF LoadPrograms
  <2> QED  BY <2>1, <1>m, <1>n
<1>6. ASSUME NEW c \in Charts, SequenceStart(c) \/ SequenceStop(c)
      PROVE  [A!Next]_<<Mode, ByHand>>
  <2>1. ~latched /\ UNCHANGED <<running, latched, manual>>
    BY <1>6 DEF SequenceStart, SequenceStop, SetChart, modeVars, commandVars
  <2>2. CASE running
    BY <2>1, <2>2, <1>b, <1>m, <1>n, <1>p
  <2>3. CASE ~running
    BY <2>1, <2>3, <1>m, <1>n
  <2> QED  BY <2>2, <2>3
<1>7. ASSUME NEW t \in Outputs, NEW b \in Position, ManualAllowed,
             manual' = [manual EXCEPT ![t] = b], UNCHANGED <<modeVars, programVars, loaded>>
      PROVE  A!Next
  <2>1. Mode' = Mode /\ Mode = "operator"
    BY <1>7, <1>a, <1>m DEF modeVars, programVars
  <2>2. ByHand' = ByHand \cup {t}
    BY <1>7 DEF ByHand, AuthInv, TypeOK, Position, None
  <2> QED  BY <2>1, <2>2 DEF A!Take
<1>8. ASSUME NEW l \in Loops, EnableLoop(l) PROVE [A!Next]_<<Mode, ByHand>>
  <2>1. ~latched /\ UNCHANGED <<running, latched, loaded, chart>>
    BY <1>8 DEF EnableLoop, modeVars, configVars, programVars
  <2>2. ByHand' \subseteq ByHand
    BY <1>8, StandAssumption DEF EnableLoop, ByHand, AuthInv, TypeOK
  <2>3. CASE running
    BY <2>1, <2>2, <2>3, <1>m, <1>n, <1>p
  <2>4. CASE ~running
    BY <2>1, <2>4, <1>m, <1>n
  <2> QED  BY <2>3, <2>4
<1>9. ASSUME NEW r, NEW flt, NEW F \in Firings(r, flt), NEW v, NEW q, ScanOn(r, flt, F, v, q)
      PROVE  [A!Next]_<<Mode, ByHand>>
  <2>1. running /\ running' /\ latched' = Aborting(r)
    BY <1>9 DEF ScanOn, ScanPrograms
  <2>2. CASE ~Aborting(r)
    <3>1. ~latched /\ ~latched'
      BY <2>1, <2>2 DEF Aborting
    <3>2. ByHand' \subseteq ByHand
      BY <1>9 DEF ScanOn, ManualOut, ByHand
    <3> QED  BY <2>1, <3>1, <3>2, <1>m, <1>n, <1>p
  <2>3. CASE Aborting(r) /\ latched
    BY <2>1, <2>3, <1>m, <1>n
  <2>4. CASE Aborting(r) /\ ~latched
    BY <2>1, <2>4, <1>m, <1>n DEF A!Abort
  <2> QED  BY <2>2, <2>3, <2>4
<1>10. ASSUME NEW r, NEW flt, NEW F \in Firings(r, flt), NEW v, NEW q, ScanReturn(r, flt, F, v, q)
       PROVE  A!Next
  <2>1. running /\ running' /\ ~latched' /\ Aborting(r)
    BY <1>10 DEF ScanReturn, ScanPrograms, Returns
  <2>2. Active' = {}
    BY <1>10, <1>i DEF ScanReturn, ScanPrograms
  <2>3. CASE latched
    <3>1. ByHand' \subseteq Outputs
      BY DEF ByHand
    <3> QED  BY <2>1, <2>2, <2>3, <3>1, <1>m, <1>n DEF A!Return
  <2>4. CASE ~latched
    <3>1. ByHand' = {}
      BY <1>10, <2>1, <2>4, NoChainIsSafe, NobodyByHandNext DEF Aborting, Latches
    <3> QED  BY <2>1, <2>2, <3>1, <1>m, <1>n DEF A!Reset
  <2> QED  BY <2>3, <2>4
<1>11. CASE Scan
  <2>1. PICK r \in SUBSET Rows : \E flt \in SUBSET Faultable(r) : \E F \in Firings(r, flt) :
          \E v \in Writings(r, flt, F) : \E q \in Requests(r, flt) :
            ScanOn(r, flt, F, v, q) \/ ScanReturn(r, flt, F, v, q)
    BY <1>11 DEF Scan
  <2>2. PICK flt \in SUBSET Faultable(r) : \E F \in Firings(r, flt) :
          \E v \in Writings(r, flt, F) : \E q \in Requests(r, flt) :
            ScanOn(r, flt, F, v, q) \/ ScanReturn(r, flt, F, v, q)
    BY <2>1
  <2> QED  BY <2>2, <1>9, <1>10
<1>12. ASSUME NEW t \in ManualTags, NEW b \in Position, WriteManual(t, b) PROVE A!Next
  BY <1>12, <1>7, StandAssumption DEF WriteManual, configVars
<1>13. ASSUME NEW l \in Loops, NEW b \in Position, HandOver(l, b) PROVE A!Next
  BY <1>13, <1>7, StandAssumption DEF HandOver, configVars
<1> HIDE DEF A!Next
<1> QED
  BY <1>1, <1>2, <1>3, <1>4, <1>5, <1>6, <1>8, <1>11, <1>12, <1>13
  DEF Next, Lifecycle, SequenceCommand, ValveCommand, LoopCommand, Aside

(* What the scan loop promises about who may command the valves: every     *)
(* request and every scan is a step of Authority or leaves its state as it *)
(* is.  Only the operator takes a valve by hand; an abort takes them all,  *)
(* and only its own end or a reset leaves it.                              *)
THEOREM SimulatorImplementsAuthority ==
  ASSUME NoAutostart, ChainsAreLong
  PROVE  Spec => ImplementsAuthority
<1>1. Init => ChartsStopped
  <2>1. Init => \A c \in Charts : chart[c] = Idle
    BY DEF Init
  <2>2. ~Idle.running
    BY DEF Idle
  <2> QED  BY <2>1, <2>2 DEF ChartsStopped
<1>2. TypeOK /\ ChartsStopped /\ [Next]_vars => ChartsStopped'
  BY StoppedStep
<1>3. Spec => []AuthInv
  BY <1>1, <1>2, TypeCorrect, AbortIsAbsolute, StoppedStandIsInert, PTL DEF Spec, AuthInv
<1>4. AuthInv /\ AuthInv' /\ [Next]_vars => [A!Next]_<<Mode, ByHand>>
  BY AuthorityStep
<1> QED  BY <1>3, <1>4, AuthorityInit, PTL DEF Spec, ImplementsAuthority, A!Spec
=============================================================================
