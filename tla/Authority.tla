----------------------------- MODULE Authority ------------------------------
(***************************************************************************)
(* What the scan loop promises about who may command the valves, seen from *)
(* outside: the stand is stopped, or in the hands of the operator, of a    *)
(* running sequence or of an abort, and byHand is the set of valves under  *)
(* a manual command.  Simulator implements this specification.             *)
(***************************************************************************)
CONSTANT Valves

VARIABLES mode, byHand

Modes == {"stopped", "operator", "sequence", "abort"}

Init == mode = "stopped" /\ byHand = {}

Run == mode = "stopped" /\ mode' = "operator" /\ UNCHANGED byHand

(* Only the operator takes a valve by hand, one at a time.                 *)
Take(t) ==
  /\ mode = "operator"
  /\ byHand' = byHand \cup {t}
  /\ UNCHANGED mode

(* Valves are handed back to a loop or to a sequence that writes them; a   *)
(* sequence starts and ends without giving the operator any new valve.     *)
Proceed ==
  /\ mode \in {"operator", "sequence"}
  /\ mode' \in {"operator", "sequence"}
  /\ byHand' \subseteq byHand

(* An abort takes everything, and only its end or an instructor's reset    *)
(* leaves it: never a stop, never a sequence.                              *)
Abort ==
  /\ mode \in {"operator", "sequence"}
  /\ mode' = "abort"
  /\ byHand' = {}

(* What the abort chain left open is the operator's to close.              *)
Return ==
  /\ mode = "abort"
  /\ mode' = "operator"
  /\ byHand' \subseteq Valves

(* plc.reset, sim.reset, and an abort with no chain to run.                *)
Reset ==
  /\ mode # "stopped"
  /\ mode' = "operator"
  /\ byHand' = {}

Stop ==
  /\ mode \in {"operator", "sequence"}
  /\ mode' = "stopped"
  /\ byHand' = {}

Next == Run \/ (\E t \in Valves : Take(t)) \/ Proceed \/ Abort \/ Return \/ Reset \/ Stop

Spec == Init /\ [][Next]_<<mode, byHand>>
=============================================================================
