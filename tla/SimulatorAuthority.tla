------------------------ MODULE SimulatorAuthority -------------------------
(***************************************************************************)
(* Simulator implements Authority, for programs whose charts do not start  *)
(* by themselves and whose abort chains take at least one transition.      *)
(***************************************************************************)
EXTENDS Simulator

Mode == IF ~running THEN "stopped"
        ELSE IF latched THEN "abort"
        ELSE IF Active # {} THEN "sequence" ELSE "operator"

ByHand == {t \in Outputs : manual[t] # None}

A == INSTANCE Authority WITH Valves <- Outputs, mode <- Mode, byHand <- ByHand

(* Every step of the scan loop is a step of the abstract specification.    *)
ImplementsAuthority == A!Spec
=============================================================================
