----------------------------- MODULE MCHistory -----------------------------
(* The catalogues of MCSimulator under the history variables and the       *)
(* refinement to Authority.                                                *)
EXTENDS MCSimulator, SimulatorHistory, SimulatorAuthority
=============================================================================
