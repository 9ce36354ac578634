-------------------------------- MODULE Stand --------------------------------
(***************************************************************************)
(* The loop from the clock through the PLC to the valves and back: the     *)
(* server's scan loop and pacer, the Simulator's clock, the I/O cards and  *)
(* the actuators of the plant.  What the PLC decides is an arbitrary image *)
(* of the coils (Simulator says which), what the fluids do an arbitrary    *)
(* set of readings and of losses of muscle air.                            *)
(*                                                                         *)
(* A plan bounds a behaviour: the images, readings and air it draws from,  *)
(* the scan periods and speeds requested, and how far the clock goes.      *)
(***************************************************************************)
EXTENDS Pacer, HwIo

CONSTANTS
  Pneumatic,    \* PB_VALVES; the others are solenoids
  DeadTime,     \* pb_dead_time
  PlantOpen,    \* NORMALLY_OPEN of plant.py
  Plans

ASSUME StandAssumption ==
  /\ Pneumatic \subseteq Coils /\ PlantOpen \subseteq Coils /\ DeadTime \in Nat
  /\ \A p \in Plans :
       /\ p.realtime \in BOOLEAN /\ p.dts \subseteq Nat \ {0} /\ p.speeds \subseteq Nat
       /\ p.images \subseteq [Coils -> BOOLEAN] /\ p.airs \subseteq BOOLEAN
       /\ p.sensors \subseteq [Signals -> Int]
       /\ p.elapses \subseteq Nat

VARIABLES
  plan,
  now,       \* monotonic()
  pacer,
  due,       \* scans of the current tick still to run; no await is between them
  paused,
  clock,     \* [base, scans, dt]: _t_base, _t_scans, cfg.dt
  hw,
  plant      \* [t, cmd, seen, pending, target]: target is where the stroke heads

vars == <<plan, now, pacer, due, paused, clock, hw, plant>>

-----------------------------------------------------------------------------
SafeOutputs == [c \in Coils |-> c \in NormallyOpen]
SimTime == clock.base + clock.scans * clock.dt

(* plant.reset: a cold start, de-energised. *)
NewPlant ==
  LET cold == [c \in Coils |-> c \in PlantOpen]
  IN  [t |-> 0, cmd |-> cold, seen |-> cold, pending |-> [c \in Coils |-> 0], target |-> cold]

(* _prime_hardware on a new field. *)
Primed(sensors) == HwStep(SetPhysical(NewHwIo, sensors), 0)

Init ==
  /\ plan \in Plans
  /\ now = 0 /\ pacer = [NewPacer EXCEPT !.realtime = plan.realtime] /\ due = 0 /\ paused = FALSE
  /\ clock \in {[base |-> 0, scans |-> 0, dt |-> d] : d \in plan.dts}
  /\ plant = NewPlant
  /\ \E sensors \in plan.sensors : hw = Primed(sensors)

-----------------------------------------------------------------------------
(* One round of scan_loop, up to the scans it asks for. *)
Tick ==
  /\ due = 0
  /\ \E later \in plan.elapses :
       LET d == DueScans(pacer, paused, now + later, clock.dt)
       IN  /\ now + later <= plan.horizon
           /\ now' = now + later /\ due' = d.n /\ pacer' = d.pacer
  /\ UNCHANGED <<plan, paused, clock, hw, plant>>

(* Mutant of Seen: a command is taken however short it stood. *)
SeenAtOnce(p, c, cmd, dt) == [seen |-> cmd, pending |-> 0]

(* The dead time of an actuator over the sub-steps of a step: the command is
   the same in all of them, and taken in the one that completes the delay. *)
Seen(p, c, cmd, dt) ==
  CASE cmd = p.seen[c] -> [seen |-> cmd, pending |-> 0]
    [] cmd # p.seen[c] /\ p.pending[c] + dt >= DeadTime -> [seen |-> cmd, pending |-> 0]
    [] OTHER -> [seen |-> p.seen[c], pending |-> p.pending[c] + dt]

(* Where a stroke heads: a solenoid follows its coil, and an actuator what it
   has seen, or without air its spring. *)
Heads(c, cmd, taken, air) ==
  IF c \notin Pneumatic THEN cmd ELSE IF air THEN taken ELSE c \in PlantOpen

(* Plant.step, as far as the valves go; without air the dead time goes on. *)
PlantStep(p, dt, valves, air) ==
  LET next == [c \in Coils |-> Seen(p, c, valves[c], dt)]
  IN  [t |-> p.t + dt, cmd |-> valves,
       seen |-> [c \in Coils |-> next[c].seen], pending |-> [c \in Coils |-> next[c].pending],
       target |-> [c \in Coils |-> Heads(c, valves[c], next[c].seen, air)]]

(* Simulator.step with the image the arbitration decides on.  The cards are
   sampled before the plant moves, so they get its previous readings. *)
Step(image, air, sensors) ==
  LET dt     == clock.dt
      field  == HwStep(WriteOutputs(hw, image), dt)
  IN  /\ due > 0
      /\ SimTime + dt <= plan.until
      /\ due' = due - 1
      /\ clock' = [clock EXCEPT !.scans = @ + 1]
      /\ plant' = PlantStep(plant, dt, ValveStates(field), air)
      /\ hw' = SetPhysical(field, sensors)
      /\ UNCHANGED <<plan, now, pacer, paused>>

-----------------------------------------------------------------------------
(* Requests; each is handled between two ticks. *)
Pause(on) ==
  /\ due = 0 /\ plan.requests /\ paused' = on
  /\ UNCHANGED <<plan, now, pacer, due, clock, hw, plant>>

(* Mutant of SetScanHz: the time run so far is not taken into the base. *)
SetScanHzUnbased(dt) ==
  /\ due = 0 /\ dt \in plan.dts /\ dt # clock.dt
  /\ clock' = [clock EXCEPT !.dt = dt]
  /\ UNCHANGED <<plan, now, pacer, due, paused, hw, plant>>

SetScanHz(dt) ==
  /\ due = 0 /\ dt \in plan.dts /\ dt # clock.dt
  /\ clock' = [base |-> SimTime, scans |-> 0, dt |-> dt]
  /\ UNCHANGED <<plan, now, pacer, due, paused, hw, plant>>

SetRealtime(on) ==
  /\ due = 0 /\ plan.requests
  /\ pacer' = Restarted([pacer EXCEPT !.realtime = on])
  /\ UNCHANGED <<plan, now, due, paused, clock, hw, plant>>

SetSpeed(x) ==
  /\ due = 0 /\ x \in plan.speeds /\ x # pacer.speed
  /\ pacer' = [pacer EXCEPT !.speed = x]
  /\ UNCHANGED <<plan, now, due, paused, clock, hw, plant>>

(* Mutant of ResetPlant: the cards are not rebuilt. *)
ResetPlantCardsKept(sensors) ==
  /\ due = 0 /\ plan.resets
  /\ clock' = [clock EXCEPT !.base = 0, !.scans = 0]
  /\ plant' = NewPlant
  /\ hw' = SetPhysical(hw, sensors)
  /\ UNCHANGED <<plan, now, pacer, due, paused>>

(* reset_plant; the pacer goes on. *)
ResetPlant(sensors) ==
  /\ due = 0 /\ plan.resets
  /\ clock' = [clock EXCEPT !.base = 0, !.scans = 0]
  /\ plant' = NewPlant
  /\ hw' = Primed(sensors)
  /\ UNCHANGED <<plan, now, pacer, due, paused>>

Request ==
  \/ \E on \in BOOLEAN : Pause(on) \/ SetRealtime(on)
  \/ \E dt \in plan.dts : SetScanHz(dt)
  \/ \E x \in plan.speeds : SetSpeed(x)
=============================================================================
