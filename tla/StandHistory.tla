---------------------------- MODULE StandHistory ----------------------------
(***************************************************************************)
(* What an operator may rely on between the clock, the PLC and the valves: *)
(* Stand observed over time.                                               *)
(***************************************************************************)
EXTENDS Stand

CONSTANTS
  MaxDt,    \* the longest scan
  Long      \* how long a time is measured: as long as any that matters

ASSUME HistoryAssumption ==
  /\ MaxDt \in Nat /\ \A p \in Plans : \A d \in p.dts : d <= MaxDt
  /\ Long \in Nat /\ DeadTime <= Long /\ \A s \in Signals : Period[s] <= Long

(* The plant and the cards agree on the fail-safe positions (NORMALLY_OPEN in
   plant.py, energize_polarity of the tags), and a card switches within a scan. *)
ASSUME OutputAssumption ==
  /\ PlantOpen = NormallyOpen
  /\ \A p \in Plans : \A d \in p.dts : Latency <= d

VARIABLE seen    \* what happened, in the terms of the properties

Capped(n) == IF n > Long THEN Long + 1 ELSE n

AtRest(debt, excuses) ==
  [held     |-> [s \in Signals |-> Long + 1],  \* how long the plant has had this value
   asked    |-> SafeOutputs,                   \* the last image
   stood    |-> [c \in Coils |-> Long + 1],    \* how long it has asked for this position
   followed |-> SafeOutputs,                   \* the last position asked for DeadTime long
   air      |-> TRUE,
   debt     |-> debt,       \* time owed, neither simulated nor counted as dropped
   excuses  |-> excuses]    \* how often credit was given up

HInit == Init /\ seen = AtRest(0, 0)

HTick ==
  /\ Tick
  /\ LET paced == pacer.realtime /\ ~paused /\ pacer.anchor # Unset
         drop  == pacer'.dropped - pacer.dropped
     IN  seen' = [seen EXCEPT
           !.debt = IF paced THEN @ + (now' - now) * pacer.speed - (due' + drop) * clock.dt ELSE @,
           !.excuses = IF drop > 0 \/ (paused /\ pacer.credit > 0) THEN @ + 1 ELSE @]

HStep(image, air, sensors) ==
  /\ Step(image, air, sensors)
  /\ LET stood == [c \in Coils |-> clock.dt + (IF image[c] = seen.asked[c] THEN seen.stood[c] ELSE 0)]
     IN  seen' = [seen EXCEPT
           !.held = [s \in Signals |-> IF sensors[s] = hw.physical[s] THEN Capped(@[s] + clock.dt) ELSE 0],
           !.asked = image,
           !.stood = [c \in Coils |-> Capped(stood[c])],
           !.followed = [c \in Coils |-> IF stood[c] >= DeadTime THEN image[c] ELSE @[c]],
           !.air = air]

HRequest ==
  /\ Request
  /\ seen' = [seen EXCEPT !.excuses = IF pacer.credit > 0 /\ pacer'.anchor = Unset THEN @ + 1 ELSE @]

HReset(sensors) == ResetPlant(sensors) /\ seen' = AtRest(seen.debt, seen.excuses)

HNext ==
  \/ HTick
  \/ \E image \in plan.images, air \in plan.airs, sensors \in plan.sensors : HStep(image, air, sensors)
  \/ HRequest
  \/ \E sensors \in plan.sensors : HReset(sensors)

HSpec == HInit /\ [][HNext]_<<vars, seen>>

-----------------------------------------------------------------------------
(* The stand never runs ahead of the clock times the speed, time spent paused
   included, whatever is switched in between; and what it falls behind is in
   dropped_scans, up to one scan for the credit and for every time credit is
   given up: by a drop, a pause or a change of mode (due_scans, _sim_rate). *)
SimulatedTimeIsPaced == 0 <= seen.debt /\ seen.debt < (seen.excuses + 1) * MaxDt

(* The Simulator, its cards and the plant agree on the time, through changes of
   the scan rate and resets (t, set_scan_hz, reset_plant). *)
ClocksAgree == hw.t = SimTime /\ plant.t = SimTime

(* A reading is never older than it must be: once the plant has had a value for
   a card's period, at least a scan, the PLC reads it to half a quantum, and a
   reset leaves no reading of the plant before it, whatever the scan rate was
   and when in the card's period the value changed (HwIo.step, reset_plant). *)
ReadingsAreRecent ==
  \A s \in Signals :
    seen.held[s] > 0 /\ seen.held[s] >= Period[s] =>
      LET error == ReadInputs(hw)[s] - Clamped(hw.physical[s])
      IN  2 * error <= Quantum /\ -2 * error <= Quantum

(* From the PLC's image to the stroke, polarity, latency and dead time between:
   a solenoid follows at once; an actuator follows the last position that stood
   for the dead time, never one that did not; and a valve asked for its
   fail-safe position gets there with or without muscle air. *)
ValvesFollow ==
  \A c \in Coils :
    /\ c \notin Pneumatic => plant.target[c] = seen.asked[c]
    /\ c \in Pneumatic /\ seen.air => plant.target[c] = seen.followed[c]
    /\ c \in Pneumatic /\ ~seen.air => (plant.target[c] <=> c \in NormallyOpen)
    /\ seen.stood[c] >= DeadTime /\ seen.asked[c] = SafeOutputs[c] =>
         plant.target[c] = SafeOutputs[c]
=============================================================================
