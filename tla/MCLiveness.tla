----------------------------- MODULE MCLiveness -----------------------------
(* One chart under fair scanning.                                          *)
EXTENDS MCSimulator, SimulatorLiveness

OneSequence == {{"hotfire"}}
=============================================================================
