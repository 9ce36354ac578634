------------------------------ MODULE Simulator -----------------------------
(***************************************************************************)
(* The stand's scan loop: class Simulator (runtime/simulator.py) together  *)
(* with the PlcRuntime it drives (plc/runtime.py).  Both are synchronous:  *)
(* the server calls one method at a time, so every operator request and    *)
(* every scan is one atomic action.                                        *)
(*                                                                         *)
(* A valve command is "open" (True) or "closed" (False).  What a program   *)
(* computes is data: a scan picks which programs fault, which ready chart  *)
(* transitions fire and what the programs write, within what their code    *)
(* can write.                                                              *)
(***************************************************************************)
EXTENDS SfcChart, Naturals

CONSTANTS
  Progs,         \* the catalogue of programs; the charts are some of them
  Outputs,       \* output tags, one per valve
  NormallyOpen,  \* outputs whose normal_state is NO
  StepWrites,    \* [Steps -> SUBSET Outputs]: step_writes of the SFC compiler
  CodeWrites,    \* [Progs \ Charts -> SUBSET Outputs]: output_writes of ST and LD code
  Regulation,    \* programs explicitly labelled "regulation"
  Requesters,    \* programs that compute auto_abort_request
  Faulty,        \* programs that can raise a runtime fault
  Autostart,     \* charts with "autostart": true
  LoadRank,      \* [Progs -> Nat]: position in the program list
  Loops,         \* bang-bang loops
  Solenoid,      \* [Loops -> Outputs]
  Gate,          \* [Progs \ Charts -> Loops \cup {NoGate}]: the loop a program serves
  NoGate,
  Request,       \* the global auto_abort_request
  Rows,          \* rows of the abort threshold table
  LoadChoices,   \* the program sets a client loads
  ManualTags,    \* the outputs the operator commands by hand
  ForceTags,     \* the outputs a client forces
  GlobalWrites,  \* the globals a client writes
  GlobalForces   \* the globals a client forces

Position == {"open", "closed"}
None == "none"
Command == Position \cup {None}
Globals == Loops \cup {Request}

ASSUME StandAssumption ==
  /\ Charts \subseteq Progs
  /\ NormallyOpen \subseteq Outputs
  /\ StepWrites \in [Steps -> SUBSET Outputs]
  /\ CodeWrites \in [Progs \ Charts -> SUBSET Outputs]
  /\ Regulation \subseteq Progs \ Charts
  /\ Requesters \subseteq Progs \ Charts
  /\ Autostart \subseteq Charts
  /\ LoadRank \in [Progs -> Nat]
  /\ Solenoid \in [Loops -> Outputs]
  /\ \A k, l \in Loops : Solenoid[k] = Solenoid[l] => k = l
  /\ Gate \in [Progs \ Charts -> Loops \cup {NoGate}]
  /\ NoGate \notin Loops /\ Request \notin Loops
  /\ LoadChoices \subseteq SUBSET Progs
  /\ ManualTags \subseteq Outputs /\ ForceTags \subseteq Outputs
  /\ GlobalWrites \subseteq Globals /\ GlobalForces \subseteq Globals

VARIABLES
  running,        \* Simulator._running
  hmiAbort,       \* Simulator._hmi_abort
  latched,        \* Simulator._abort_latched
  abortDisabled,  \* Simulator._abort_disabled
  manual,         \* Simulator._manual; None where there is no command
  driven,         \* Simulator._plc_driven
  outputImage,    \* Simulator._output_image
  bbOn,           \* the loops whose hmi.bb.<loop>.enable is set
  armed,          \* the enabled rows of Simulator._thresholds
  loaded,         \* Simulator._compiled, as a set
  cards,          \* the rows the last card readings satisfy
  image,          \* PlcRuntime._outputs
  globals,        \* the BOOL globals that are TRUE
  forced,         \* PlcRuntime._forced on output tags; None where not forced
  globalForced,   \* PlcRuntime._forced on globals: "on", "off" or None
  enabled,        \* programs with _ProgramState.enabled
  halted,         \* programs with _ProgramState.halted
  chart,          \* _ProgramState.sfc of every chart
  wasEnabled,     \* gated programs whose local was_enabled is TRUE
  rtAbort         \* PlcRuntime._abort

modeVars == <<running, hmiAbort, latched, abortDisabled>>
commandVars == <<manual, driven, outputImage, bbOn>>
configVars == <<armed, loaded, cards>>
memoryVars == <<image, globals, forced, globalForced>>
programVars == <<enabled, halted, chart, wasEnabled, rtAbort>>
vars == <<modeVars, commandVars, configVars, memoryVars, programVars>>

Safe == [t \in Outputs |-> IF t \in NormallyOpen THEN "open" ELSE "closed"]
NoCommand == [t \in Outputs |-> None]

OutputWrites(p) ==
  IF p \in Charts THEN UNION {StepWrites[s] : s \in StepsOf[p]} ELSE CodeWrites[p]

AbortWrites(c) == UNION {StepWrites[s] : s \in AbortSet[c]}
ChainTags == UNION {AbortWrites(c) : c \in loaded \cap Charts}

TypeOK ==
  /\ running \in BOOLEAN /\ hmiAbort \in BOOLEAN
  /\ latched \in BOOLEAN /\ rtAbort \in BOOLEAN
  /\ loaded \subseteq Progs /\ enabled \subseteq loaded /\ halted \subseteq loaded
  /\ abortDisabled \subseteq loaded \ Charts
  /\ manual \in [Outputs -> Command]
  /\ forced \in [Outputs -> Command]
  /\ outputImage \in [Outputs -> Position]
  /\ image \in [Outputs -> Position]
  /\ driven \subseteq Outputs
  /\ bbOn \subseteq Loops
  /\ armed \subseteq Rows /\ cards \subseteq Rows
  /\ globals \subseteq Globals
  /\ globalForced \in [Globals -> {"on", "off", None}]
  /\ chart \in [Charts -> ChartState]
  /\ wasEnabled \subseteq Progs \ Charts

Init ==
  /\ running = FALSE /\ hmiAbort = FALSE /\ latched = FALSE /\ rtAbort = FALSE
  /\ loaded = {} /\ enabled = {} /\ halted = {} /\ abortDisabled = {}
  /\ manual = NoCommand /\ forced = NoCommand
  /\ outputImage = Safe
  /\ image = [t \in Outputs |-> "closed"]
  /\ driven = {} /\ bbOn = {} /\ armed = {} /\ cards = {} /\ globals = {}
  /\ globalForced = [g \in Globals |-> None]
  /\ chart = [c \in Charts |-> Idle]
  /\ wasEnabled = {}
-----------------------------------------------------------------------------
(* Globals.  A global exists while a loaded program declares it, and a     *)
(* forced global keeps its forced value whoever writes it.                 *)
Declared(L) == {g \in Globals : \/ g = Request /\ L \cap Requesters # {}
                                \/ \E p \in L \ Charts : Gate[p] = g}

Settled(S, gf) == {g \in Globals : gf[g] = "on" \/ (gf[g] = None /\ g \in S)}

(* The charts that own the stand, and the one the code reports.            *)
Active == {c \in loaded \cap Charts : chart[c].running /\ ~Parked(c, chart[c])}
ActiveSequence == CHOOSE c \in Active : \A d \in Active : LoadRank[c] <= LoadRank[d]

ManualAllowed == running /\ ~latched /\ Active = {}

(* The programs that drive a loop's solenoid and that an abort left off.   *)
SwitchedOff(l) == {p \in abortDisabled : Solenoid[l] \in OutputWrites(p)}
-----------------------------------------------------------------------------
(* PlcRuntime._build of the program set L, then _mirror_bb: variables to   *)
(* their declared values, the image to FALSE under the forces f and gf     *)
(* that are kept, autostart charts started, the loop entries bb mirrored.  *)
Rebuild(L, f, gf, bb) ==
  /\ image' = [t \in Outputs |-> IF f[t] = None THEN "closed" ELSE f[t]]
  /\ forced' = f
  /\ globalForced' = gf
  /\ bbOn' = bb
  /\ globals' = Settled(bb \cap Declared(L), gf)
  /\ chart' = [c \in Charts |-> IF c \in L \cap Autostart THEN Start(c) ELSE Idle]
  /\ halted' = {}
  /\ wasEnabled' = {}
  /\ rtAbort' = FALSE

ForgetCommands == manual' = NoCommand /\ driven' = {}

PlcRun ==
  /\ ~running
  /\ running' = TRUE
  /\ UNCHANGED <<commandVars, configVars, memoryVars, programVars, hmiAbort,
                 latched, abortDisabled>>

(* Mutants of PlcStop: the programs an abort switched off come back, the   *)
(* loops stay on.                                                          *)
PlcStopReEnables ==
  /\ running /\ ~latched
  /\ running' = FALSE
  /\ hmiAbort' = FALSE
  /\ Rebuild(loaded, NoCommand, globalForced, {})
  /\ enabled' = loaded
  /\ ForgetCommands
  /\ UNCHANGED <<configVars, latched, abortDisabled, outputImage>>
PlcStopKeepsLoops ==
  /\ running /\ ~latched
  /\ running' = FALSE
  /\ hmiAbort' = FALSE
  /\ Rebuild(loaded, NoCommand, globalForced, bbOn)
  /\ enabled' = loaded \ abortDisabled
  /\ ForgetCommands
  /\ UNCHANGED <<configVars, latched, abortDisabled, outputImage>>

PlcStop ==
  /\ running /\ ~latched
  /\ running' = FALSE
  /\ hmiAbort' = FALSE
  /\ Rebuild(loaded, NoCommand, globalForced, {})
  /\ enabled' = loaded \ abortDisabled
  /\ ForgetCommands
  /\ UNCHANGED <<configVars, latched, abortDisabled, outputImage>>

(* Simulator._reset_plc, shared by plc.reset and sim.reset.                *)
ResetPlc ==
  /\ latched' = FALSE
  /\ hmiAbort' = FALSE
  /\ abortDisabled' = {}
  /\ Rebuild(loaded, forced, globalForced, {})
  /\ enabled' = loaded
  /\ ForgetCommands
  /\ UNCHANGED <<configVars, running>>

PlcReset == ~latched /\ ResetPlc /\ UNCHANGED outputImage

SimReset == ResetPlc /\ outputImage' = Safe

LoadPrograms(L) ==
  /\ ~latched /\ ~running
  /\ loaded' = L
  /\ enabled' = L
  /\ abortDisabled' = {}
  /\ Rebuild(L, forced, [g \in Globals |-> IF g \in Declared(L) THEN globalForced[g] ELSE None],
             bbOn)
  /\ ForgetCommands
  /\ UNCHANGED <<running, hmiAbort, latched, outputImage, armed, cards>>

(* Mutant: every program restarts, not only the halted ones.               *)
ClearFaultsReEnables ==
  /\ halted # {}
  /\ halted' = {} /\ enabled' = loaded
  /\ UNCHANGED <<modeVars, commandVars, configVars, memoryVars, chart, wasEnabled, rtAbort>>

ClearFaults ==
  /\ halted # {}
  /\ halted' = {}
  /\ UNCHANGED <<modeVars, commandVars, configVars, memoryVars, enabled, chart,
                 wasEnabled, rtAbort>>

AbortRequest ==
  /\ running /\ ~hmiAbort /\ ~latched
  /\ hmiAbort' = TRUE
  /\ UNCHANGED <<commandVars, configVars, memoryVars, programVars, running, latched,
                 abortDisabled>>

AbortConfig(A) ==
  /\ armed' = A
  /\ UNCHANGED <<modeVars, commandVars, memoryVars, programVars, loaded, cards>>
-----------------------------------------------------------------------------
(* Sequences.                                                              *)
SetChart(c, cs) ==
  /\ chart' = [chart EXCEPT ![c] = cs]
  /\ UNCHANGED <<modeVars, commandVars, configVars, memoryVars, enabled, halted,
                 wasEnabled, rtAbort>>

(* Mutant: a sequence may start under a latched abort.                     *)
SequenceStartLatched(c) ==
  /\ c \in loaded /\ running
  /\ SetChart(c, Start(c))

SequenceStart(c) ==
  /\ c \in loaded
  /\ ~latched /\ running /\ ~rtAbort
  /\ Active # {} => ActiveSequence = c
  /\ SetChart(c, Start(c))

SequenceStop(c) ==
  /\ c \in loaded
  /\ ~latched
  /\ SetChart(c, Stop(chart[c]))
-----------------------------------------------------------------------------
(* Operator writes.                                                        *)
(* Mutant: a manual write does not look at the running sequence.           *)
WriteManualAnytime(t, b) ==
  /\ running /\ ~latched
  /\ manual' = [manual EXCEPT ![t] = b]
  /\ UNCHANGED <<modeVars, configVars, memoryVars, programVars, driven, outputImage, bbOn>>

WriteManual(t, b) ==
  /\ ManualAllowed
  /\ \A l \in bbOn : Solenoid[l] # t
  /\ manual' = [manual EXCEPT ![t] = b]
  /\ UNCHANGED <<modeVars, configVars, memoryVars, programVars, driven, outputImage,
                 bbOn>>

(* _mirror_bb of one loop: only a global some program declares is written. *)
Mirrored(l, on) ==
  IF l \notin Declared(loaded) THEN globals
  ELSE Settled(IF on THEN globals \cup {l} ELSE globals \ {l}, globalForced)

(* Mutant: enabling a loop leaves the manual command on its solenoid.      *)
EnableLoopKeepsManual(l) ==
  /\ ~latched
  /\ SwitchedOff(l) = {}
  /\ bbOn' = bbOn \cup {l}
  /\ globals' = Mirrored(l, TRUE)
  /\ UNCHANGED <<modeVars, configVars, programVars, manual, driven, outputImage, image,
                 forced, globalForced>>

EnableLoop(l) ==
  /\ ~latched
  /\ SwitchedOff(l) = {}
  /\ bbOn' = bbOn \cup {l}
  /\ globals' = Mirrored(l, TRUE)
  /\ manual' = [manual EXCEPT ![Solenoid[l]] = None]
  /\ UNCHANGED <<modeVars, configVars, programVars, driven, outputImage, image,
                 forced, globalForced>>

DisableLoop(l) ==
  /\ bbOn' = bbOn \ {l}
  /\ globals' = Mirrored(l, FALSE)
  /\ UNCHANGED <<modeVars, configVars, programVars, manual, driven, outputImage,
                 image, forced, globalForced>>

(* A setpoint or deadband entry mirrors all three entries of its loop, so  *)
(* it also brings the enable global back to the HMI's entry.               *)
WriteSetpoint(l) ==
  /\ globals' = Mirrored(l, l \in bbOn)
  /\ UNCHANGED <<modeVars, commandVars, configVars, programVars, image, forced,
                 globalForced>>

(* One write that disables a loop and commands its solenoid.               *)
HandOver(l, b) ==
  /\ ManualAllowed
  /\ bbOn' = bbOn \ {l}
  /\ globals' = Mirrored(l, FALSE)
  /\ manual' = [manual EXCEPT ![Solenoid[l]] = b]
  /\ UNCHANGED <<modeVars, configVars, programVars, driven, outputImage, image,
                 forced, globalForced>>

WriteGlobal(g, on) ==
  /\ g \in Declared(loaded)
  /\ globals' = Settled(IF on THEN globals \cup {g} ELSE globals \ {g}, globalForced)
  /\ UNCHANGED <<modeVars, commandVars, configVars, programVars, image, forced,
                 globalForced>>

ForceOutput(t, b) ==
  /\ ~latched
  /\ forced' = [forced EXCEPT ![t] = b]
  /\ image' = [image EXCEPT ![t] = b]
  /\ UNCHANGED <<modeVars, commandVars, configVars, programVars, globals,
                 globalForced>>

(* The image keeps the forced value.                                       *)
UnforceOutput(t) ==
  /\ forced[t] # None
  /\ forced' = [forced EXCEPT ![t] = None]
  /\ UNCHANGED <<modeVars, commandVars, configVars, programVars, image, globals,
                 globalForced>>

ForceGlobal(g, on) ==
  /\ g \in Declared(loaded)
  /\ globalForced' = [globalForced EXCEPT ![g] = on]
  /\ globals' = Settled(globals, globalForced')
  /\ UNCHANGED <<modeVars, commandVars, configVars, programVars, image, forced>>

UnforceGlobal(g) ==
  /\ globalForced[g] # None
  /\ globalForced' = [globalForced EXCEPT ![g] = None]
  /\ UNCHANGED <<modeVars, commandVars, configVars, programVars, image, globals,
                 forced>>
-----------------------------------------------------------------------------
(* The scan.  r is the set of table rows the fresh card readings satisfy.  *)
(* The operators named ...In give a value after the latch, before the      *)
(* programs run.                                                           *)
Trips(r) == armed \cap r
Tripped(r) == Trips(r) # {} \/ Request \in globals \/ hmiAbort
Latches(r) == ~latched /\ Tripped(r)
Aborting(r) == latched \/ Tripped(r)

(* Mutant: charts are switched off as well.                                *)
EveryWriter == {p \in loaded : OutputWrites(p) # {} \/ p \in Regulation}

(* Keyed off the code, not the label.                                      *)
SwitchedByAbort == {p \in loaded \ Charts : CodeWrites[p] # {} \/ p \in Regulation}

(* Mutants: only programs labelled regulation are switched off; output     *)
(* forces survive the latch (the rule before D12).                         *)
EnabledByLabel(r) == IF Latches(r) THEN enabled \ Regulation ELSE enabled
ForcesSurvive(r) == forced

EnabledIn(r) == IF Latches(r) THEN enabled \ SwitchedByAbort ELSE enabled
ForcedIn(r) == IF Latches(r) THEN NoCommand ELSE forced
DrivenIn(r) == IF Latches(r) THEN {t \in driven : forced[t] = None} ELSE driven

(* Mutant: only the running charts are told of the abort.                  *)
RunningChartsIn(r) ==
  IF Latches(r) THEN [c \in Charts |-> IF chart[c].running THEN ApplyAbort(c) ELSE chart[c]]
  ELSE chart

(* PlcRuntime.scan with an abort pending: every loaded chart drops out of  *)
(* its steps, and one with an abort chain enters it even if it was halted. *)
ChartIn(r) ==
  IF Latches(r) THEN [c \in Charts |-> IF c \in loaded THEN ApplyAbort(c) ELSE chart[c]]
  ELSE chart
HaltedIn(r) ==
  IF Latches(r) THEN {p \in halted : p \in Charts => AbortStep[p] = NoStep} ELSE halted
FreshIn(r, c) == IF Latches(r) THEN {AbortStep[c]} ELSE {}

(* A latched abort chain executes whatever the enable of its chart says.   *)
Executing(r) ==
  {p \in loaded \ HaltedIn(r) :
     \/ p \in EnabledIn(r)
     \/ p \in Charts /\ Aborting(r) /\ ChartIn(r)[p].aborted /\ ChartIn(r)[p].running}

(* flt: the executing programs that raise a fault in this scan.            *)
Faultable(r) ==
  {p \in Executing(r) \cap Faulty : p \in Charts => ChartIn(r)[p].running}

(* F: the transitions that fire, over all charts.                          *)
ReadyTrans(r, flt) ==
  UNION {Ready(c, ChartIn(r)[c], FreshIn(r, c)) : c \in (Executing(r) \cap Charts) \ flt}
Firings(r, flt) == {F \in SUBSET ReadyTrans(r, flt) : Disjoint(F)}

ChartOut(r, flt, F) ==
  [c \in Charts |-> IF c \in Executing(r) \ flt
                    THEN After(ChartIn(r)[c], F \cap TransOf(c))
                    ELSE ChartIn(r)[c]]

(* Which coils a program that completes may write.  A gated program (the   *)
(* bang-bang examples) writes while its loop is on, closes its coils on    *)
(* the scan the loop goes off, and then leaves them alone.                 *)
Chartable(r, flt, F) ==
  UNION {UNION {StepWrites[s] : s \in Acting(ChartIn(r)[c], F \cap TransOf(c))} :
           c \in (Executing(r) \cap Charts) \ flt}
Code(r, flt) == (Executing(r) \ Charts) \ flt
Driving(r, flt) ==
  UNION {CodeWrites[p] : p \in {q \in Code(r, flt) : Gate[q] = NoGate \/ Gate[q] \in globals}}
Closing(r, flt) ==
  UNION {CodeWrites[p] : p \in {q \in Code(r, flt) : /\ Gate[q] \in Loops \ globals
                                                     /\ q \in wasEnabled}}

(* v: the last write of the scan to each coil, None if there was none.     *)
Writable(r, flt, F, t) ==
  (IF t \in Chartable(r, flt, F) \cup Driving(r, flt) THEN Position ELSE {})
    \cup (IF t \in Closing(r, flt) THEN {"closed"} ELSE {None})
Writings(r, flt, F) ==
  {v \in [Outputs -> Command] : \A t \in Outputs : v[t] \in Writable(r, flt, F, t)}

(* q: whether auto_abort_request is set once the programs have run.        *)
Requests(r, flt) ==
  IF Code(r, flt) \cap Requesters # {} THEN BOOLEAN ELSE {Request \in globals}
GlobalsOut(q) ==
  Settled(IF q THEN globals \cup {Request} ELSE globals \ {Request}, globalForced)

(* Simulator._arbitrate.                                                   *)
SequenceTags(ch) == UNION {OutputWrites(c) : c \in {d \in loaded \cap Charts : ch[d].running}}

(* Mutant: a coil a sequence writes keeps its manual command.              *)
ManualStays(r, v, ch) == [t \in Outputs |-> IF Aborting(r) THEN None ELSE manual[t]]

ManualOut(r, v, ch) ==
  [t \in Outputs |->
     IF Aborting(r) \/ (v[t] # None /\ t \in SequenceTags(ch)) THEN None ELSE manual[t]]

Owned(r, v) == {t \in Outputs : v[t] # None \/ ForcedIn(r)[t] # None}
DrivenOut(r, v) == DrivenIn(r) \cup Owned(r, v)

ImageOut(r, v) ==
  [t \in Outputs |-> IF ForcedIn(r)[t] # None THEN ForcedIn(r)[t]
                     ELSE IF v[t] # None THEN v[t] ELSE image[t]]

AbortTable(r, v) ==
  [t \in Outputs |-> IF t \in ChainTags \cap DrivenOut(r, v) THEN ImageOut(r, v)[t] ELSE Safe[t]]
NormalTable(r, v, m) ==
  [t \in Outputs |-> IF t \in Owned(r, v) \/ (m[t] = None /\ t \in DrivenOut(r, v))
                     THEN ImageOut(r, v)[t]
                     ELSE IF m[t] # None THEN m[t] ELSE Safe[t]]
Final(r, v, ch) ==
  IF Aborting(r) THEN AbortTable(r, v) ELSE NormalTable(r, v, ManualOut(r, v, ch))

(* Simulator._check_return: every chain complete and nothing still holds.  *)
Returns(r, ch, g) ==
  /\ Aborting(r)
  /\ \A c \in loaded \cap Charts : AbortStep[c] # NoStep => ChainDone(c, ch[c])
  /\ Trips(r) = {} /\ Request \notin g

(* The part of a running scan that both outcomes share.                    *)
ScanPrograms(r, flt, F, v) ==
  /\ running
  /\ cards' = r
  /\ hmiAbort' = (hmiAbort /\ ~Latches(r))
  /\ abortDisabled' = IF Latches(r) THEN abortDisabled \cup SwitchedByAbort ELSE abortDisabled
  /\ enabled' = EnabledIn(r)
  /\ forced' = ForcedIn(r)
  /\ halted' = HaltedIn(r) \cup flt
  /\ wasEnabled' = {p \in Progs \ Charts :
                      IF p \in Code(r, flt) THEN Gate[p] \in globals \cap Loops
                      ELSE p \in wasEnabled}
  /\ image' = ImageOut(r, v)
  /\ outputImage' = Final(r, v, ChartOut(r, flt, F))
  /\ UNCHANGED <<running, armed, loaded, globalForced>>

ScanOn(r, flt, F, v, q) ==
  /\ ScanPrograms(r, flt, F, v)
  /\ ~Returns(r, ChartOut(r, flt, F), GlobalsOut(q))
  /\ latched' = Aborting(r)
  /\ rtAbort' = (rtAbort \/ Latches(r))
  /\ chart' = ChartOut(r, flt, F)
  /\ manual' = ManualOut(r, v, ChartOut(r, flt, F))
  /\ driven' = DrivenOut(r, v)
  /\ globals' = GlobalsOut(q)
  /\ UNCHANGED bbOn

(* Control returns: charts stopped, loops off, outputs held as commands.   *)
ScanReturn(r, flt, F, v, q) ==
  /\ ScanPrograms(r, flt, F, v)
  /\ Returns(r, ChartOut(r, flt, F), GlobalsOut(q))
  /\ latched' = FALSE
  /\ rtAbort' = FALSE
  /\ chart' = [c \in Charts |-> IF c \in loaded THEN Idle ELSE chart[c]]
  /\ bbOn' = {}
  /\ globals' = Settled(GlobalsOut(q) \ Loops, globalForced)
  /\ driven' = {}
  /\ manual' = [t \in Outputs |-> IF outputImage'[t] = Safe[t] THEN None ELSE outputImage'[t]]

Scan ==
  \E r \in SUBSET Rows : \E flt \in SUBSET Faultable(r) : \E F \in Firings(r, flt) :
  \E v \in Writings(r, flt, F) : \E q \in Requests(r, flt) :
     ScanOn(r, flt, F, v, q) \/ ScanReturn(r, flt, F, v, q)

(* A stopped PLC: the input image stays live and every coil is safe.       *)
ScanStopped ==
  /\ ~running
  /\ cards' \in SUBSET Rows
  /\ outputImage' = Safe
  /\ UNCHANGED <<modeVars, memoryVars, programVars, manual, driven, bbOn, armed, loaded>>
-----------------------------------------------------------------------------
Lifecycle ==
  \/ PlcRun \/ PlcStop \/ PlcReset \/ SimReset \/ ClearFaults
  \/ \E L \in LoadChoices : LoadPrograms(L)

AbortCommand == AbortRequest \/ \E A \in SUBSET Rows : AbortConfig(A)

SequenceCommand == \E c \in Charts : SequenceStart(c) \/ SequenceStop(c)

ValveCommand ==
  \/ \E t \in ManualTags, b \in Position : WriteManual(t, b)
  \/ \E t \in ForceTags : (\E b \in Position : ForceOutput(t, b)) \/ UnforceOutput(t)

LoopCommand ==
  \E l \in Loops : \/ EnableLoop(l) \/ DisableLoop(l) \/ WriteSetpoint(l)
                   \/ \E b \in Position : Solenoid[l] \in ManualTags /\ HandOver(l, b)

GlobalCommand ==
  \/ \E g \in GlobalWrites, on \in BOOLEAN : WriteGlobal(g, on)
  \/ \E g \in GlobalForces : (\E on \in {"on", "off"} : ForceGlobal(g, on)) \/ UnforceGlobal(g)

Next ==
  \/ Scan \/ ScanStopped
  \/ Lifecycle \/ AbortCommand \/ SequenceCommand
  \/ ValveCommand \/ LoopCommand \/ GlobalCommand

Spec == Init /\ [][Next]_vars
-----------------------------------------------------------------------------
(* Properties.                                                             *)

(* An abort is absolute (D12).  While it is latched no manual command and  *)
(* no output force exists, no non-SFC program that can write a valve runs, *)
(* and every valve no abort chain writes sits at its fail-safe state.      *)
AbortAbsolute ==
  latched =>
    /\ manual = NoCommand /\ forced = NoCommand
    /\ enabled \cap SwitchedByAbort = {}
    /\ \A t \in Outputs \ ChainTags : outputImage[t] = Safe[t]

(* The scan loop's latch, the runtime's abort flag and the transition      *)
(* block of every chart are three copies of one fact.                      *)
AbortFlagsAgree ==
  /\ rtAbort = latched
  /\ \A c \in Charts : chart[c].aborted <=> latched /\ c \in loaded

(* A latched abort confines every chart to its abort chain: no step of the *)
(* normal sequence is active, even through a join that mixes both, and no  *)
(* entry action of one is still to run.                                    *)
ChartsConfined ==
  latched => \A c \in loaded \cap Charts :
               chart[c].active \cup chart[c].pending \subseteq AbortSet[c]

(* A program an abort switched off does not run, whatever was reset by     *)
(* clear_faults or a stop, and an abort has switched off all it must.      *)
SwitchedOffStaysOff ==
  /\ abortDisabled \cap enabled = {}
  /\ latched => SwitchedByAbort \subseteq abortDisabled

(* A stopped PLC keeps no command for the next plc.run (D14, D17): nothing *)
(* manual, no coil the PLC still counts as its own, no abort pending.      *)
StoppedIsInert ==
  ~running => manual = NoCommand /\ driven = {} /\ ~latched /\ ~hmiAbort

(* An enabled bang-bang loop owns its solenoid (D17): a manual command on  *)
(* it and the loop's enable never coexist.                                 *)
LoopOwnsSolenoid == \A l \in bbOn : manual[Solenoid[l]] = None

(* Nothing re-arms itself (D14): a switched-off program comes back only in *)
(* a step that clears every command and every held coil, which is what     *)
(* plc.reset, sim.reset and program.load do.                               *)
ReArmedOnlyByReset ==
  [][\A p \in abortDisabled :
       p \in enabled' => manual' = NoCommand /\ driven' = {} /\ ~latched']_vars

(* While an abort is latched only abort chains write the PLC's own image,  *)
(* also behind the fail-safe positions arbitration shows.                  *)
OnlyChainsWrite ==
  [][latched /\ latched' => \A t \in Outputs \ ChainTags : image'[t] = image[t]]_vars

(* An abort request is never lost: the step that consumes it either clears *)
(* every command (stop and the resets) or leaves every valve outside the   *)
(* abort chains fail-safe with the programs that drive valves off, even    *)
(* when the abort latches and ends within that one scan.                   *)
AbortRequestServed ==
  [][hmiAbort /\ ~hmiAbort' =>
       \/ manual' = NoCommand /\ driven' = {} /\ bbOn' = {} /\ ~latched'
       \/ /\ enabled' \cap SwitchedByAbort = {}
          /\ \A t \in Outputs \ ChainTags : outputImage'[t] = Safe[t]]_vars

(* A stop stops every chart (docs/runtime.md:81).                          *)
StopStopsCharts ==
  [][running /\ ~running' => \A c \in Charts : ~chart'[c].running]_vars
=============================================================================
