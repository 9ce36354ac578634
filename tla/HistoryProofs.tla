--------------------------- MODULE HistoryProofs ----------------------------
(***************************************************************************)
(* Theorems about what a behaviour of Simulator remembers: the coils a     *)
(* sequence commanded, and the stand nobody commands.                      *)
(***************************************************************************)
EXTENDS SimulatorHistory, SimulatorProofs

-----------------------------------------------------------------------------
(* The history variables only watch.                                       *)
LEMMA HistStepIsStep == ASSUME [HistNext]_hvars PROVE [Next]_vars
<1>1. ASSUME HistScan PROVE Scan
  BY <1>1 DEF HistScan, Scan
<1>2. ASSUME Quiet \/ HistStop \/ HistReset PROVE Next
  BY <1>2 DEF Quiet, HistStop, HistReset, Next, Lifecycle, SequenceCommand, LoopCommand
<1>3. ASSUME HistCommand PROVE Next
  BY <1>3 DEF HistCommand, Next, SequenceCommand, LoopCommand, ValveCommand
<1>4. ASSUME UNCHANGED hvars PROVE UNCHANGED vars
  BY <1>4 DEF hvars
<1> QED  BY <1>1, <1>2, <1>3, <1>4 DEF HistNext, Next

LEMMA HistIsSpec == HistSpec => Spec
<1>1. HistInit => Init
  BY DEF HistInit
<1> QED  BY <1>1, HistStepIsStep, PTL DEF HistSpec, Spec

LEMMA NoneIsNoPosition == None \notin Position
BY DEF None, Position

LEMMA ScanCases ==
  ASSUME HistScan
  PROVE  \E r, flt, F, v, q :
           /\ r \in SUBSET Rows /\ flt \in SUBSET Faultable(r) /\ F \in Firings(r, flt)
           /\ v \in Writings(r, flt, F)
           /\ sequenced' = SequencedOut(r, v, ChartOut(r, flt, F))
           /\ \/ /\ ScanOn(r, flt, F, v, q)
                 /\ holding' = (holding /\ ~Aborting(r))
                 /\ held' = IF Aborting(r) THEN Safe ELSE held
              \/ /\ ScanReturn(r, flt, F, v, q)
                 /\ holding' = TRUE
                 /\ held' = outputImage'
BY DEF HistScan

-----------------------------------------------------------------------------
(* A coil a sequence commanded is driven from the image and has no manual  *)
(* command; a stopped PLC remembers none.                                  *)
KeepInv ==
  /\ sequenced \in [Outputs -> Command]
  /\ ~running => sequenced = NoCommand
  /\ \A t \in Outputs : sequenced[t] # None =>
       /\ t \in driven /\ manual[t] = None
       /\ image[t] = sequenced[t] /\ outputImage[t] = sequenced[t]

LEMMA KeepScan ==
  ASSUME TypeOK, KeepInv, HistScan
  PROVE  KeepInv'
<1>1. PICK r, flt, F, v, q :
        /\ v \in Writings(r, flt, F)
        /\ sequenced' = SequencedOut(r, v, ChartOut(r, flt, F))
        /\ ScanOn(r, flt, F, v, q) \/ ScanReturn(r, flt, F, v, q)
  BY ScanCases
<1> DEFINE ch == ChartOut(r, flt, F)
<1>5. v \in [Outputs -> Command] /\ sequenced' = SequencedOut(r, v, ch) /\ running'
  BY <1>1 DEF Writings, ScanOn, ScanReturn, ScanPrograms
<1>6. sequenced' \in [Outputs -> Command]
  BY <1>5 DEF SequencedOut, KeepInv, Command
<1>7. ASSUME NEW t \in Outputs, sequenced'[t] # None
      PROVE  /\ t \in driven' /\ manual'[t] = None
             /\ image'[t] = sequenced'[t] /\ outputImage'[t] = sequenced'[t]
  <2>1. ~Aborting(r) /\ forced[t] = None
    BY <1>5, <1>7 DEF SequencedOut
  <2>2. ScanOn(r, flt, F, v, q) /\ ForcedIn(r) = forced /\ DrivenIn(r) = driven
    BY <1>1, <2>1 DEF ScanReturn, Returns, ForcedIn, DrivenIn, Latches, Aborting
  <2>3. /\ manual' = ManualOut(r, v, ch) /\ driven' = DrivenOut(r, v) /\ image' = ImageOut(r, v)
        /\ outputImage' = NormalTable(r, v, ManualOut(r, v, ch))
    BY <2>1, <2>2 DEF ScanOn, ScanPrograms, Final
  <2>4. CASE v[t] = None
    <3>1. sequenced'[t] = sequenced[t]
      BY <1>5, <2>1, <2>4 DEF SequencedOut
    <3>2. t \in driven /\ manual[t] = None /\ image[t] = sequenced[t]
      BY <1>7, <3>1 DEF KeepInv
    <3>3. t \notin Owned(r, v) /\ t \in driven' /\ image'[t] = image[t] /\ manual'[t] = None
      BY <2>1, <2>2, <2>3, <2>4, <3>2 DEF Owned, DrivenOut, ImageOut, ManualOut
    <3> QED  BY <2>3, <3>1, <3>2, <3>3 DEF NormalTable
  <2>5. CASE v[t] # None
    <3>1. t \in SequenceTags(ch) /\ sequenced'[t] = v[t]
      BY <1>5, <1>7, <2>1, <2>5 DEF SequencedOut
    <3>2. t \in Owned(r, v) /\ t \in driven' /\ image'[t] = v[t] /\ manual'[t] = None
      BY <2>1, <2>2, <2>3, <2>5, <3>1 DEF Owned, DrivenOut, ImageOut, ManualOut
    <3> QED  BY <2>3, <3>1, <3>2 DEF NormalTable
  <2> QED  BY <2>4, <2>5
<1> QED  BY <1>5, <1>6, <1>7 DEF KeepInv

LEMMA KeepStep ==
  ASSUME TypeOK, KeepInv, [HistNext]_hvars
  PROVE  KeepInv'
<1>k. /\ sequenced \in [Outputs -> Command]
      /\ ~running => sequenced = NoCommand
      /\ \A t \in Outputs : sequenced[t] # None =>
           /\ t \in driven /\ manual[t] = None
           /\ image[t] = sequenced[t] /\ outputImage[t] = sequenced[t]
  BY DEF KeepInv
<1>n. NoCommand \in [Outputs -> Command] /\ \A t \in Outputs : NoCommand[t] = None
  BY DEF NoCommand, Command
<1>s. ASSUME UNCHANGED <<running, manual, driven, image, outputImage, sequenced>> PROVE KeepInv'
  BY <1>k, <1>s DEF KeepInv
<1>1. CASE HistScan
  BY <1>1, KeepScan
<1>2. CASE HistStop \/ HistReset
  BY <1>2, <1>n DEF HistStop, HistReset, KeepInv
<1>3. CASE Quiet /\ ScanStopped
  BY <1>k, <1>n, <1>3 DEF Quiet, histVars, ScanStopped, modeVars, KeepInv
<1>4. CASE Quiet /\ PlcRun
  BY <1>k, <1>n, <1>4 DEF Quiet, histVars, PlcRun, commandVars, memoryVars, KeepInv
<1>5. CASE Quiet /\ (ClearFaults \/ AbortCommand \/ \E c \in Charts : SequenceStop(c))
  BY <1>5, <1>s DEF Quiet, histVars, ClearFaults, AbortCommand, AbortRequest, AbortConfig,
     SequenceStop, SetChart, modeVars, commandVars, memoryVars
<1>6. CASE Quiet /\ \E l \in Loops : DisableLoop(l) \/ WriteSetpoint(l)
  BY <1>6, <1>s DEF Quiet, histVars, DisableLoop, WriteSetpoint, modeVars, commandVars
<1>7. ASSUME GlobalCommand \/ \E c \in Charts : SequenceStart(c), UNCHANGED sequenced PROVE KeepInv'
  BY <1>7, <1>s DEF GlobalCommand, WriteGlobal, ForceGlobal, UnforceGlobal, SequenceStart, SetChart,
     modeVars, commandVars, memoryVars
<1>8. ASSUME NEW l \in Loops, EnableLoop(l), UNCHANGED sequenced PROVE KeepInv'
  <2>1. \A t \in Outputs : manual[t] = None => manual'[t] = None
    BY <1>8, StandAssumption DEF EnableLoop, TypeOK
  <2> QED  BY <1>k, <1>8, <2>1 DEF EnableLoop, modeVars, KeepInv
<1>9. ASSUME NEW t \in Outputs, NEW b \in Command,
             manual' = [manual EXCEPT ![t] = b] \/ manual' = manual,
             image' = [image EXCEPT ![t] = b] \/ image' = image,
             sequenced' = [sequenced EXCEPT ![t] = None],
             UNCHANGED <<running, driven, outputImage>>
      PROVE  KeepInv'
  <2>1. sequenced' \in [Outputs -> Command] /\ sequenced'[t] = None
    BY <1>k, <1>9 DEF Command
  <2>2. \A u \in Outputs \ {t} : /\ sequenced'[u] = sequenced[u] /\ manual'[u] = manual[u]
                                 /\ image'[u] = image[u]
    BY <1>k, <1>9 DEF TypeOK
  <2>3. ~running' => sequenced' = NoCommand
    BY <1>k, <1>n, <1>9 DEF NoCommand
  <2> QED  BY <1>k, <1>9, <2>1, <2>2, <2>3 DEF KeepInv
<1>10. ASSUME NEW t \in ManualTags, NEW b \in Position, WriteManual(t, b),
              sequenced' = [sequenced EXCEPT ![t] = None]
       PROVE  KeepInv'
  BY <1>9, <1>10, StandAssumption DEF WriteManual, Command, modeVars, memoryVars
<1>11. ASSUME NEW t \in ManualTags, NEW l \in Loops, NEW b \in Position, Solenoid[l] = t,
              HandOver(l, b), sequenced' = [sequenced EXCEPT ![t] = None]
       PROVE  KeepInv'
  BY <1>9, <1>11, StandAssumption DEF HandOver, Command, modeVars
<1>12. ASSUME NEW t \in ForceTags, UnforceOutput(t) \/ \E b \in Position : ForceOutput(t, b),
              sequenced' = [sequenced EXCEPT ![t] = None]
       PROVE  KeepInv'
  <2>1. t \in Outputs
    BY StandAssumption
  <2>2. CASE UnforceOutput(t)
    BY <1>9, <1>12, <2>1, <2>2 DEF UnforceOutput, Command, modeVars, commandVars
  <2>3. ASSUME NEW b \in Position, ForceOutput(t, b) PROVE KeepInv'
    BY <1>9, <1>12, <2>1, <2>3 DEF ForceOutput, Command, modeVars, commandVars
  <2> QED  BY <1>12, <2>2, <2>3
<1>13. CASE HistCommand
  BY <1>7, <1>8, <1>10, <1>11, <1>12, <1>13 DEF HistCommand
<1>14. CASE UNCHANGED hvars
  BY <1>14, <1>s DEF hvars, vars, histVars, modeVars, commandVars, memoryVars
<1>15. CASE Quiet
  BY <1>3, <1>4, <1>5, <1>6, <1>15 DEF Quiet
<1> QED  BY <1>1, <1>2, <1>13, <1>14, <1>15 DEF HistNext

(* A coil a sequence commanded stays there until somebody commands it      *)
(* again, for every catalogue of programs and every order of requests.     *)
THEOREM SequenceAlwaysKeepsCoil == HistSpec => []SequenceKeepsCoil
<1>1. HistInit => KeepInv
  BY DEF HistInit, Init, KeepInv, NoCommand, Command
<1>2. KeepInv => SequenceKeepsCoil
  BY DEF KeepInv, SequenceKeepsCoil
<1>3. TypeOK /\ KeepInv /\ [HistNext]_hvars => KeepInv'
  BY KeepStep
<1> QED  BY <1>1, <1>2, <1>3, HistIsSpec, TypeCorrect, PTL DEF HistSpec

-----------------------------------------------------------------------------
(* A client that forces the enable of a loop commands its valve from then  *)
(* on, also through a stop.                                                *)
LoopsUnforced == GlobalForces \cap Loops = {}

HasChain == \E c \in loaded \cap Charts : AbortStep[c] # NoStep

(* Nobody commands anything: no chart and no loop runs, nothing is forced, *)
(* and a coil no program writes unconditionally comes out as it is held.   *)
Still ==
  /\ ~latched /\ forced = NoCommand /\ bbOn = {} /\ globals \cap Loops = {}
  /\ \A c \in loaded \cap Charts : ~chart[c].running
  /\ \A p \in wasEnabled \cap enabled : CodeWrites[p] = {}
  /\ \A t \in Outputs \ Unconditional :
       t \notin driven /\ held[t] = IF manual[t] = None THEN Safe[t] ELSE manual[t]
  /\ HasChain \/ held = Safe

HoldInv ==
  /\ \A l \in Loops : globalForced[l] = None
  /\ holding => Still

LEMMA LoopsStayUnforced ==
  ASSUME LoopsUnforced, TypeOK, \A l \in Loops : globalForced[l] = None, [Next]_vars
  PROVE  \A l \in Loops : globalForced'[l] = None
<1>0. Loops \subseteq Globals
  BY DEF Globals
<1>1. CASE PlcStop \/ PlcReset \/ SimReset
  BY <1>1 DEF PlcStop, PlcReset, SimReset, ResetPlc, Rebuild
<1>2. ASSUME NEW L \in LoadChoices, LoadPrograms(L) PROVE \A l \in Loops : globalForced'[l] = None
  BY <1>0, <1>2 DEF LoadPrograms, Rebuild
<1>3. ASSUME NEW g \in GlobalForces, NEW on, ForceGlobal(g, on) \/ UnforceGlobal(g)
      PROVE  \A l \in Loops : globalForced'[l] = None
  <2>1. \A l \in Loops : l # g
    BY DEF LoopsUnforced
  <2> QED  BY <1>0, <1>3, <2>1 DEF ForceGlobal, UnforceGlobal, TypeOK
<1>4. ASSUME UNCHANGED globalForced PROVE \A l \in Loops : globalForced'[l] = None
  BY <1>4
<1>5. CASE Scan
  BY <1>4, <1>5 DEF Scan, ScanOn, ScanReturn, ScanPrograms
<1>6. CASE PlcRun \/ ClearFaults \/ ScanStopped \/ AbortCommand \/ SequenceCommand
  BY <1>4, <1>6 DEF PlcRun, ClearFaults, ScanStopped, AbortCommand, AbortRequest, AbortConfig,
     SequenceCommand, SequenceStart, SequenceStop, SetChart, memoryVars
<1>7. CASE ValveCommand \/ LoopCommand
  BY <1>4, <1>7 DEF ValveCommand, WriteManual, ForceOutput, UnforceOutput,
     LoopCommand, EnableLoop, DisableLoop, WriteSetpoint, HandOver, memoryVars
<1>8. CASE GlobalCommand
  BY <1>3, <1>4, <1>8 DEF GlobalCommand, WriteGlobal
<1>9. CASE UNCHANGED vars
  BY <1>4, <1>9 DEF vars, memoryVars
<1> QED  BY <1>1, <1>2, <1>5, <1>6, <1>7, <1>8, <1>9 DEF Next, Lifecycle

(* A scan of a still stand that no trip ends: only the programs that write *)
(* unconditionally write.                                                  *)
LEMMA StillScan ==
  ASSUME TypeOK, Still, NEW r, NEW flt, NEW F, NEW v \in Writings(r, flt, F), ~Aborting(r)
  PROVE  \A t \in Outputs \ Unconditional : v[t] = None
<1>1. HaltedIn(r) = halted /\ EnabledIn(r) = enabled /\ ChartIn(r) = chart
  BY DEF HaltedIn, EnabledIn, ChartIn, Latches, Aborting
<1>2. Chartable(r, flt, F) = {}
  <2>1. \A c \in (Executing(r) \cap Charts) \ flt : ~chart[c].running
    BY DEF Executing, Still
  <2> QED  BY <1>1, <2>1 DEF Chartable, Acting
<1>3. \A p \in Code(r, flt) : p \in enabled /\ p \in Progs \ Charts
  BY <1>1 DEF Code, Executing, TypeOK
<1>4. Driving(r, flt) \subseteq Unconditional
  <2>1. ASSUME NEW q \in Code(r, flt), Gate[q] = NoGate \/ Gate[q] \in globals
        PROVE  q \in enabled \ Charts /\ Gate[q] = NoGate
    BY <1>3, <2>1, StandAssumption DEF Still
  <2> QED  BY <2>1 DEF Driving, Unconditional
<1>5. Closing(r, flt) = {}
  BY <1>3 DEF Closing, Still
<1> QED  BY <1>2, <1>4, <1>5 DEF Writings, Writable

LEMMA StillOn ==
  ASSUME TypeOK, HoldInv, Still, NEW r, NEW flt, NEW F, NEW v \in Writings(r, flt, F), NEW q,
         ~Aborting(r), ScanOn(r, flt, F, v, q), held' = held
  PROVE  Still' /\ \A t \in Outputs \ Unconditional : outputImage'[t] = held[t]
<1>1. \A t \in Outputs \ Unconditional : v[t] = None
  BY StillScan
<1>2. /\ ForcedIn(r) = forced /\ DrivenIn(r) = driven /\ EnabledIn(r) = enabled
      /\ ChartIn(r) = chart
  BY DEF ForcedIn, DrivenIn, EnabledIn, ChartIn, Latches, Aborting
<1>3. /\ ~latched' /\ forced' = forced /\ bbOn' = bbOn /\ enabled' = enabled /\ loaded' = loaded
      /\ globals' = GlobalsOut(q) /\ chart' = ChartOut(r, flt, F)
      /\ manual' = ManualOut(r, v, ChartOut(r, flt, F)) /\ driven' = driven \cup Owned(r, v)
      /\ outputImage' = NormalTable(r, v, manual')
      /\ wasEnabled' = {p \in Progs \ Charts :
                          IF p \in Code(r, flt) THEN Gate[p] \in globals \cap Loops
                          ELSE p \in wasEnabled}
  BY <1>2 DEF ScanOn, ScanPrograms, Final, DrivenOut
<1>4. Unconditional' = Unconditional
  BY <1>3 DEF Unconditional
<1>5. ASSUME NEW t \in Outputs \ Unconditional
      PROVE  /\ manual'[t] = manual[t] /\ t \notin driven'
             /\ outputImage'[t] = held[t]
  <2>1. v[t] = None /\ forced[t] = None
    BY <1>1 DEF Still, NoCommand
  <2>2. t \notin Owned(r, v) /\ manual'[t] = manual[t]
    BY <1>2, <1>3, <2>1 DEF Owned, ManualOut
  <2>3. t \notin driven /\ t \notin driven' /\ t \notin DrivenOut(r, v)
    BY <1>2, <1>3, <2>2 DEF Still, DrivenOut
  <2>4. held[t] = IF manual[t] = None THEN Safe[t] ELSE manual[t]
    BY DEF Still
  <2> QED  BY <1>3, <2>2, <2>3, <2>4 DEF NormalTable
<1>6. globals' \cap Loops = {}
  <2>1. \A l \in Loops : l # Request /\ globalForced[l] = None /\ l \notin globals
    BY StandAssumption DEF HoldInv, Still
  <2> QED  BY <1>3, <2>1 DEF GlobalsOut, Settled, None
<1>7. \A c \in loaded' \cap Charts : ~chart'[c].running
  BY <1>2, <1>3 DEF ChartOut, After, Still
<1>8. \A p \in wasEnabled' \cap enabled' : CodeWrites[p] = {}
  BY <1>3 DEF Still
<1>9. HasChain' \/ held' = Safe
  BY <1>3 DEF Still, HasChain
<1> QED  BY <1>3, <1>4, <1>5, <1>6, <1>7, <1>8, <1>9 DEF Still

(* Control returns: the stand is still, and holds what it showed.          *)
LEMMA Returned ==
  ASSUME TypeOK, AbortAbsolute, HoldInv, NEW r \in SUBSET Rows, NEW flt \in SUBSET Faultable(r),
         NEW F \in Firings(r, flt), NEW v \in Writings(r, flt, F), NEW q,
         ScanReturn(r, flt, F, v, q), held' = outputImage'
  PROVE  Still'
<1>1. Aborting(r) /\ (latched \/ Latches(r))
  BY DEF ScanReturn, Returns, Aborting, Latches
<1>2. /\ ~latched' /\ bbOn' = {} /\ driven' = {} /\ forced' = ForcedIn(r) /\ enabled' = EnabledIn(r)
      /\ loaded' = loaded
      /\ globals' = Settled(GlobalsOut(q) \ Loops, globalForced)
      /\ chart' = [c \in Charts |-> IF c \in loaded THEN Idle ELSE chart[c]]
      /\ outputImage' = AbortTable(r, v)
      /\ manual' = [t \in Outputs |-> IF outputImage'[t] = Safe[t] THEN None ELSE outputImage'[t]]
      /\ wasEnabled' = {p \in Progs \ Charts :
                          IF p \in Code(r, flt) THEN Gate[p] \in globals \cap Loops
                          ELSE p \in wasEnabled}
  BY <1>1 DEF ScanReturn, ScanPrograms, Final
<1>3. forced' = NoCommand
  BY <1>1, <1>2 DEF ForcedIn, AbortAbsolute, Latches
<1>4. globals' \cap Loops = {}
  <2>1. \A l \in Loops : globalForced[l] = None
    BY DEF HoldInv
  <2> QED  BY <1>2, <2>1 DEF Settled, None
<1>5. \A c \in loaded' \cap Charts : ~chart'[c].running
  BY <1>2 DEF Idle
<1>6. \A p \in wasEnabled' \cap enabled' : CodeWrites[p] = {}
  <2>1. enabled' \cap SwitchedByAbort = {} /\ enabled' \subseteq loaded
    BY <1>1, <1>2 DEF EnabledIn, AbortAbsolute, Latches, TypeOK
  <2>2. wasEnabled' \subseteq Progs \ Charts
    BY <1>2
  <2> QED  BY <2>1, <2>2 DEF SwitchedByAbort
<1>7. outputImage' \in [Outputs -> Position]
  BY ScanType, <1>1 DEF ScanReturn, ScanPrograms
<1>8. ASSUME NEW t \in Outputs PROVE held'[t] = IF manual'[t] = None THEN Safe[t] ELSE manual'[t]
  BY <1>2, <1>7, NoneIsNoPosition
<1>9. HasChain' \/ held' = Safe
  <2>1. CASE HasChain
    BY <1>2, <2>1 DEF HasChain
  <2>2. CASE ~HasChain
    <3>1. ChainTags = {}
      BY <2>2 DEF HasChain, ChainTags, AbortWrites, AbortSet
    <3> QED  BY <1>2, <3>1 DEF AbortTable, Safe
  <2> QED  BY <2>1, <2>2
<1>10. Safe' = Safe
  BY DEF Safe
<1> QED  BY <1>2, <1>3, <1>4, <1>5, <1>6, <1>8, <1>9 DEF Still

LEMMA StillFrame ==
  ASSUME Still, globals' \cap Loops = {}, bbOn' = {},
         \A c \in loaded \cap Charts : ~chart'[c].running,
         UNCHANGED <<latched, forced, loaded, wasEnabled, enabled, driven, held, manual>>
  PROVE  Still'
BY DEF Still, Unconditional, HasChain

LEMMA StillQuiet ==
  ASSUME TypeOK, HoldInv, Still, Quiet
  PROVE  Still'
<1>0. /\ bbOn = {} /\ globals \cap Loops = {} /\ \A c \in loaded \cap Charts : ~chart[c].running
      /\ held' = held /\ \A l \in Loops : globalForced[l] = None
  BY DEF Still, HoldInv, Quiet, histVars
<1>s. ASSUME UNCHANGED <<latched, forced, loaded, wasEnabled, enabled, driven, manual, bbOn,
                         globals, chart>>
      PROVE  Still'
  <2>1. UNCHANGED <<latched, forced, loaded, wasEnabled, enabled, driven, held, manual>>
    BY <1>0, <1>s
  <2>2. bbOn' = {} /\ globals' \cap Loops = {} /\ \A c \in loaded \cap Charts : ~chart'[c].running
    BY <1>0, <1>s
  <2> QED  BY <2>1, <2>2, StillFrame
<1>1. CASE PlcRun \/ ClearFaults \/ AbortCommand \/ ScanStopped
  <2>1. CASE PlcRun \/ ClearFaults
    BY <1>s, <2>1 DEF PlcRun, ClearFaults, modeVars, commandVars, configVars, memoryVars,
       programVars
  <2>2. CASE AbortCommand
    BY <1>s, <2>2 DEF AbortCommand, AbortRequest, AbortConfig, modeVars, commandVars, configVars,
       memoryVars, programVars
  <2>3. CASE ScanStopped
    BY <1>s, <2>3 DEF ScanStopped, modeVars, memoryVars, programVars
  <2> QED  BY <1>1, <2>1, <2>2, <2>3
<1>2. ASSUME NEW c \in Charts, SequenceStop(c) PROVE Still'
  <2>1. \A d \in loaded \cap Charts : ~chart'[d].running
    BY <1>0, <1>2, StopRuns DEF SequenceStop, SetChart, TypeOK
  <2>2. UNCHANGED <<latched, forced, loaded, wasEnabled, enabled, driven, held, manual>>
    BY <1>0, <1>2 DEF SequenceStop, SetChart, modeVars, commandVars, configVars, memoryVars
  <2>3. bbOn' = {} /\ globals' \cap Loops = {}
    BY <1>0, <1>2 DEF SequenceStop, SetChart, commandVars, memoryVars
  <2> QED  BY <2>1, <2>2, <2>3, StillFrame
<1>3. ASSUME NEW l \in Loops, DisableLoop(l) \/ WriteSetpoint(l) PROVE Still'
  <2>1. bbOn' = {} /\ globals' = Mirrored(l, FALSE)
    <3>1. CASE DisableLoop(l)
      BY <1>0, <3>1 DEF DisableLoop
    <3>2. CASE WriteSetpoint(l)
      <4>1. (l \in bbOn) = FALSE
        BY <1>0
      <4> QED  BY <1>0, <3>2, <4>1 DEF WriteSetpoint, commandVars
    <3> QED  BY <1>3, <3>1, <3>2
  <2>2. globals' \cap Loops = {}
    BY <1>0, <2>1 DEF Mirrored, Settled, None
  <2> QED  BY <1>0, <1>3, <2>1, <2>2, StillFrame
           DEF DisableLoop, WriteSetpoint, modeVars, commandVars, configVars, programVars
<1> QED  BY <1>1, <1>2, <1>3 DEF Quiet

LEMMA Stopped ==
  ASSUME NoAutostart, HoldInv, HistStop
  PROVE  Still'
<1>1. /\ ~latched' /\ forced' = NoCommand /\ bbOn' = {} /\ wasEnabled' = {} /\ driven' = {}
      /\ manual' = NoCommand /\ held' = Safe /\ globals' = Settled({} \cap Declared(loaded), globalForced)
  BY DEF HistStop, PlcStop, ForgetCommands, Rebuild
<1>2. \A c \in Charts : chart'[c] = Idle
  BY Restarted DEF HistStop, PlcStop
<1>3. \A c \in Charts : ~chart'[c].running
  BY <1>2 DEF Idle
<1>4. globals' \cap Loops = {}
  BY <1>1 DEF HoldInv, Settled, None
<1>5. Safe' = Safe /\ \A t \in Outputs : manual'[t] = None
  BY <1>1 DEF Safe, NoCommand
<1> QED  BY <1>1, <1>3, <1>4, <1>5 DEF Still

(* One step: the stand stays still, and what moves goes to where it is     *)
(* held.                                                                   *)
Moves ==
  \A t \in Outputs \ Unconditional :
    outputImage'[t] # outputImage[t] => outputImage'[t] = held[t]

LEMMA HoldStep ==
  ASSUME NoAutostart, ChainsAreLong, LoopsUnforced, TypeOK, AbortAbsolute, StoppedIsInert, HoldInv,
         [HistNext]_hvars
  PROVE  HoldInv' /\ (holding /\ holding' => Moves)
<1>0. \A l \in Loops : globalForced'[l] = None
  BY HistStepIsStep, LoopsStayUnforced DEF HoldInv
<1> SUFFICES ASSUME holding' PROVE Still' /\ (holding => Moves)
  BY <1>0 DEF HoldInv
<1>h. holding => Still
  BY DEF HoldInv
<1>1. CASE HistScan
  <2>1. PICK r, flt, F, v, q :
          /\ r \in SUBSET Rows /\ flt \in SUBSET Faultable(r) /\ F \in Firings(r, flt)
          /\ v \in Writings(r, flt, F)
          /\ \/ /\ ScanOn(r, flt, F, v, q)
                /\ holding' = (holding /\ ~Aborting(r))
                /\ held' = IF Aborting(r) THEN Safe ELSE held
             \/ /\ ScanReturn(r, flt, F, v, q)
                /\ held' = outputImage'
    BY <1>1, ScanCases
  <2>2. CASE ScanOn(r, flt, F, v, q) /\ holding' = (holding /\ ~Aborting(r))
             /\ held' = IF Aborting(r) THEN Safe ELSE held
    <3>1. holding /\ ~Aborting(r) /\ held' = held
      BY <2>2
    <3> QED  BY <1>h, <2>1, <2>2, <3>1, StillOn DEF Moves
  <2>3. CASE ScanReturn(r, flt, F, v, q) /\ held' = outputImage'
    <3>1. Still'
      BY <2>1, <2>3, Returned
    <3>2. ASSUME holding PROVE Moves
      <4>1. Latches(r)
        BY <1>h, <2>3, <3>2 DEF Still, ScanReturn, Returns, Aborting, Latches
      <4>2. (\A c \in loaded \cap Charts : AbortStep[c] = NoStep) /\ outputImage' = Safe
        BY <2>1, <2>3, <4>1, NoChainIsSafe
      <4>3. held = Safe
        BY <1>h, <3>2, <4>2 DEF Still, HasChain
      <4> QED  BY <4>2, <4>3 DEF Moves
    <3> QED  BY <3>1, <3>2
  <2> QED  BY <2>1, <2>2, <2>3
<1>2. CASE Quiet
  <2>1. holding /\ Still
    BY <1>2, <1>h DEF Quiet, histVars
  <2>2. Still'
    BY <1>2, <2>1, StillQuiet
  <2>3. CASE ScanStopped
    <3>1. \A t \in Outputs : manual[t] = None
      BY <2>3 DEF ScanStopped, StoppedIsInert, NoCommand
    <3>2. outputImage' = Safe
      BY <2>3 DEF ScanStopped
    <3>3. \A t \in Outputs \ Unconditional : held[t] = Safe[t]
      BY <2>1, <3>1 DEF Still
    <3> QED  BY <2>2, <3>2, <3>3 DEF Moves
  <2>4. CASE ~ScanStopped
    <3>1. outputImage' = outputImage
      BY <1>2, <2>4 DEF Quiet, PlcRun, ClearFaults, AbortCommand, AbortRequest, AbortConfig,
         SequenceStop,
         SetChart, DisableLoop, WriteSetpoint, commandVars
    <3> QED  BY <2>2, <3>1 DEF Moves
  <2> QED  BY <2>3, <2>4
<1>3. CASE HistStop
  BY <1>3, Stopped DEF HistStop, PlcStop, Moves
<1>4. CASE HistReset \/ HistCommand
  BY <1>4 DEF HistReset, HistCommand, NotHolding
<1>5. CASE UNCHANGED hvars
  <2>1. holding /\ Still
    BY <1>5, <1>h DEF hvars, histVars
  <2>2. bbOn' = {} /\ globals' \cap Loops = {} /\ \A c \in loaded \cap Charts : ~chart'[c].running
    BY <1>5, <2>1 DEF Still, hvars, vars, commandVars, memoryVars, programVars
  <2>3. Still'
    BY <1>5, <2>1, <2>2, StillFrame
    DEF hvars, vars, histVars, modeVars, commandVars, configVars, memoryVars, programVars
  <2> QED  BY <1>5, <2>3 DEF Moves, hvars, vars, commandVars
<1> QED  BY <1>1, <1>2, <1>3, <1>4, <1>5 DEF HistNext

(* After a stop, through the next plc.run, and after an abort has returned *)
(* control a valve nobody commands does not move, unless a program writes  *)
(* it unconditionally: for every catalogue of programs without autostart   *)
(* in which no abort chain begins on a final step, and clients that do not *)
(* force the enable of a loop.                                             *)
THEOREM NothingEverMovesByItself ==
  ASSUME NoAutostart, ChainsAreLong, LoopsUnforced
  PROVE  HistSpec => NothingMovesByItself
<1> DEFINE Known == TypeOK /\ AbortAbsolute /\ StoppedIsInert
<1>1. HistInit => HoldInv
  BY DEF HistInit, Init, HoldInv, Globals
<1>2. Known /\ HoldInv /\ [HistNext]_hvars => HoldInv'
  BY HoldStep
<1>3. Known /\ HoldInv /\ [HistNext]_hvars =>
        [holding /\ holding' =>
           \A t \in Outputs \ Unconditional :
              outputImage'[t] # outputImage[t] => outputImage'[t] = held[t]]_hvars
  BY HoldStep DEF Moves
<1>4. HistSpec => []Known
  BY HistIsSpec, TypeCorrect, AbortIsAbsolute, StoppedStandIsInert, PTL
<1> QED  BY <1>1, <1>2, <1>3, <1>4, PTL DEF HistSpec, NothingMovesByItself
=============================================================================
