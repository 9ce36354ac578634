---------------------------- MODULE MCSimulator -----------------------------
(***************************************************************************)
(* Catalogues of programs for model checking Simulator.  They are the      *)
(* shipped examples cut down to the shape the scan loop reacts to: hotfire *)
(* (a chart with an abort chain), gn2_purge (a chart without one),         *)
(* a bang-bang loop, the abort monitor, and "raw", an IDE program that     *)
(* writes a valve unconditionally.                                         *)
(***************************************************************************)
EXTENDS Simulator

MCCharts == {"hotfire", "purge"}
MCSteps == {"START", "FIRE", "COMPLETE", "ABORT", "ABORT_DONE", "IDLE", "PURGE"}
MCTrans == {"ignite", "cutoff", "safe", "blow"}
MCStepsOf == [hotfire |-> {"START", "FIRE", "COMPLETE", "ABORT", "ABORT_DONE"},
              purge |-> {"IDLE", "PURGE"}]
MCChartOf == [ignite |-> "hotfire", cutoff |-> "hotfire", safe |-> "hotfire", blow |-> "purge"]
MCFrom == [ignite |-> {"START"}, cutoff |-> {"FIRE"}, safe |-> {"ABORT"}, blow |-> {"IDLE"}]
MCTo == [ignite |-> {"FIRE"}, cutoff |-> {"COMPLETE"}, safe |-> {"ABORT_DONE"}, blow |-> {"PURGE"}]
MCInitial == [hotfire |-> "START", purge |-> "IDLE"]
MCAbortStep == [hotfire |-> "ABORT", purge |-> "none"]

MCProgs == {"hotfire", "purge", "bangbang", "monitor", "raw"}
MCLoadRank == [hotfire |-> 2, purge |-> 3, bangbang |-> 4, monitor |-> 1, raw |-> 5]
MCWrites == [START |-> {}, FIRE |-> {"main"}, COMPLETE |-> {"main"},
             ABORT |-> {}, ABORT_DONE |-> {"vent"},
             IDLE |-> {}, PURGE |-> {"vent"},
             bangbang |-> {"sol"}, monitor |-> {}, raw |-> {"main"}]
MCStepWrites == [s \in Steps |-> MCWrites[s] \cap Outputs]
MCCodeWrites == [p \in Progs \ Charts |-> MCWrites[p] \cap Outputs]
MCGate == [p \in Progs \ Charts |-> IF p = "bangbang" /\ Loops # {} THEN "lox" ELSE "none"]
MCSolenoid == [l \in Loops |-> "sol"]

Sequences == {{"hotfire"}, {"hotfire", "raw"}}
Regulators == {{"bangbang", "monitor"}, {"bangbang", "raw"}}
AllPrograms == {{"hotfire", "bangbang", "monitor"}}
=============================================================================
