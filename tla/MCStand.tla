------------------------------ MODULE MCStand ------------------------------
(* Plans for StandHistory.  Time is in units in which a scan lasts 2 or 3,  *)
(* an output card switches within a scan, the fast card is due at every     *)
(* scan, the slow one at every third or fourth, and the dead time is longer *)
(* than a scan; as on the stand.                                            *)
EXTENDS StandHistory

MCPeriod == [fast |-> 0, slow |-> 7]
Safe  == SafeOutputs
Still == {[s \in Signals |-> 1]}

Base == [realtime |-> FALSE, dts |-> {2, 3}, images |-> {Safe}, airs |-> {TRUE}, sensors |-> Still,
         speeds |-> {}, requests |-> FALSE, resets |-> FALSE, elapses |-> {0}, horizon |-> 0, until |-> 0]
ClockPlan  == [Base EXCEPT !.realtime = TRUE, !.speeds = {0, 1, 2}, !.requests = TRUE,
                           !.elapses = {0, 1, 3, 8}, !.horizon = 12, !.until = 9]
InputPlan  == [Base EXCEPT !.sensors = [Signals -> {0, 3, 9}], !.resets = TRUE, !.until = 15]
OutputPlan == [Base EXCEPT !.images = [Coils -> BOOLEAN], !.airs = BOOLEAN, !.resets = TRUE, !.until = 12]
MCPlans == {ClockPlan, InputPlan, OutputPlan}
=============================================================================
