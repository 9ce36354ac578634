-------------------------- MODULE SimulatorHistory --------------------------
(***************************************************************************)
(* History variables over Simulator, for the promises that span many       *)
(* steps: what must not move while nobody commands anything, and what a    *)
(* sequence last commanded.                                                *)
(***************************************************************************)
EXTENDS Simulator

VARIABLES
  holding,   \* nothing was commanded since plc.stop or the end of an abort
  held,      \* the positions that must hold meanwhile
  sequenced  \* the last position a running sequence commanded each coil to

histVars == <<holding, held, sequenced>>
hvars == <<vars, histVars>>

HistInit == Init /\ holding = FALSE /\ held = Safe /\ sequenced = NoCommand

(* A program write by a running sequence sets its coil; any other writer,  *)
(* a force or an abort makes the coil nobody's.                            *)
SequencedOut(r, v, ch) ==
  [t \in Outputs |->
     IF Aborting(r) \/ forced[t] # None THEN None
     ELSE IF v[t] = None THEN sequenced[t]
     ELSE IF t \in SequenceTags(ch) THEN v[t] ELSE None]

HistScan ==
  \E r \in SUBSET Rows : \E flt \in SUBSET Faultable(r) : \E F \in Firings(r, flt) :
  \E v \in Writings(r, flt, F) : \E q \in Requests(r, flt) :
    /\ sequenced' = SequencedOut(r, v, ChartOut(r, flt, F))
    /\ \/ /\ ScanOn(r, flt, F, v, q)
          /\ holding' = (holding /\ ~Aborting(r))
          /\ held' = IF Aborting(r) THEN Safe ELSE held
       \/ /\ ScanReturn(r, flt, F, v, q)
          /\ holding' = TRUE
          /\ held' = outputImage'

(* Requests that command nothing.                                          *)
Quiet ==
  /\ \/ PlcRun \/ ClearFaults \/ AbortCommand \/ ScanStopped
     \/ \E c \in Charts : SequenceStop(c)
     \/ \E l \in Loops : DisableLoop(l) \/ WriteSetpoint(l)
  /\ UNCHANGED histVars

HistStop == PlcStop /\ holding' = TRUE /\ held' = Safe /\ sequenced' = NoCommand

NotHolding == holding' = FALSE /\ held' = Safe

HistReset ==
  /\ PlcReset \/ SimReset \/ \E L \in LoadChoices : LoadPrograms(L)
  /\ NotHolding
  /\ sequenced' = NoCommand

HistCommand ==
  /\ NotHolding
  /\ \/ /\ \/ GlobalCommand
           \/ \E c \in Charts : SequenceStart(c)
           \/ \E l \in Loops : EnableLoop(l)
        /\ UNCHANGED sequenced
     \/ \E t \in ManualTags : 
          /\ \/ \E b \in Position : WriteManual(t, b)
             \/ \E l \in Loops, b \in Position : Solenoid[l] = t /\ HandOver(l, b)
          /\ sequenced' = [sequenced EXCEPT ![t] = None]
     \/ \E t \in ForceTags :
          /\ UnforceOutput(t) \/ \E b \in Position : ForceOutput(t, b)
          /\ sequenced' = [sequenced EXCEPT ![t] = None]

HistNext == HistScan \/ Quiet \/ HistStop \/ HistReset \/ HistCommand

HistSpec == HistInit /\ [][HistNext]_hvars
-----------------------------------------------------------------------------
(* The coils an enabled program writes whatever its loop says.             *)
Unconditional ==
  UNION {CodeWrites[p] : p \in {q \in enabled \ Charts : Gate[q] = NoGate}}

(* After plc.stop, through the next plc.run (D17), and after an abort      *)
(* returns control (D14), a valve nobody commands does not move, except    *)
(* where a program writes it unconditionally.                              *)
NothingMovesByItself ==
  [][holding /\ holding' =>
       \A t \in Outputs \ Unconditional :
          outputImage'[t] # outputImage[t] => outputImage'[t] = held[t]]_hvars

(* A coil a sequence commanded stays where the sequence put it until       *)
(* somebody commands it again: a manual command left over from before the  *)
(* sequence never takes it back, and stopping the sequence moves nothing.  *)
SequenceKeepsCoil ==
  \A t \in Outputs : sequenced[t] # None => outputImage[t] = sequenced[t]

=============================================================================
