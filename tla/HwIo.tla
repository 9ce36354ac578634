-------------------------------- MODULE HwIo --------------------------------
(***************************************************************************)
(* hwio/core.py: what is between the plant and the PLC.  Input cards       *)
(* sample a physical value once per period and quantise it; output cards   *)
(* switch a coil some time after it was written.  The field is a record    *)
(* of the attributes of HwIo.                                              *)
(***************************************************************************)
EXTENDS Integers

CONSTANTS
  Signals, Period,    \* input channels, and the period of their card
  Lowest, Highest, Quantum,   \* what a card resolves
  Coils, NormallyOpen,
  Latency             \* _DO_LATENCY_S

ASSUME HwIoAssumption ==
  /\ Period \in [Signals -> Nat] /\ Latency \in Nat /\ Quantum \in Nat \ {0}
  /\ Lowest \in Int /\ Highest \in Int /\ Lowest <= Highest /\ NormallyOpen \subseteq Coils

Never   == -1         \* last_refresh_s = -inf, before every time
Nothing == [due |-> 0, bit |-> 2]    \* pending is None

(* _refresh_input with no noise configured, as it is by default: to current,
   voltage or bridge output, clamped to the card's span, to a code and back. *)
Clamped(x)   == IF x < Lowest THEN Lowest ELSE IF x > Highest THEN Highest ELSE x
Converted(x) == ((2 * Clamped(x) + Quantum) \div (2 * Quantum)) * Quantum

PolarityBit(c, open) == IF (c \in NormallyOpen) = open THEN 0 ELSE 1
BitToOpen(c, bit)    == (c \in NormallyOpen) = (bit = 0)

NewHwIo ==
  [t |-> 0, physical |-> [s \in Signals |-> 0],
   chan |-> [s \in Signals |-> [last |-> Never, value |-> 0]],
   out |-> [c \in Coils |-> [bit |-> 0, pending |-> Nothing]]]

ReadInputs(hw) == [s \in Signals |-> hw.chan[s].value]
ValveStates(hw) == [c \in Coils |-> BitToOpen(c, hw.out[c].bit)]
SetPhysical(hw, sensors) == [hw EXCEPT !.physical = sensors]

(* A new write replaces one that is still pending. *)
WriteOutputs(hw, image) ==
  [hw EXCEPT !.out = [c \in Coils |->
     [bit     |-> hw.out[c].bit,
      pending |-> [due |-> hw.t + Latency, bit |-> PolarityBit(c, image[c])]]]]

Refreshed(ch, x, t, period) ==
  IF ch.last # Never /\ t - ch.last < period THEN ch ELSE [last |-> t, value |-> Converted(x)]

Switched(o, t) ==
  IF o.pending = Nothing \/ t < o.pending.due THEN o
  ELSE [bit |-> o.pending.bit, pending |-> Nothing]

HwStep(hw, dt) ==
  LET t == hw.t + dt
  IN  [t        |-> t,
       physical |-> hw.physical,
       chan     |-> [s \in Signals |-> Refreshed(hw.chan[s], hw.physical[s], t, Period[s])],
       out      |-> [c \in Coils |-> Switched(hw.out[c], t)]]
=============================================================================
