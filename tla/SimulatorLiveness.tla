------------------------- MODULE SimulatorLiveness --------------------------
(***************************************************************************)
(* What the scan loop eventually does.  The server keeps calling           *)
(* Simulator.step, and the timer of an active step grows with every scan   *)
(* its chart executes, so a transition that only waits for its step's      *)
(* timer fires once its steps stay active for long enough.                 *)
(***************************************************************************)
EXTENDS Simulator

CONSTANT Timed  \* transitions whose condition is TRUE or <step>.T >= <time>

ASSUME TimedAssumption == Timed \subseteq Trans

ScanFiring(tr) ==
  \E r \in SUBSET Rows : \E flt \in SUBSET Faultable(r) : \E F \in Firings(r, flt) :
  \E v \in Writings(r, flt, F) : \E q \in Requests(r, flt) :
     tr \in F /\ (ScanOn(r, flt, F, v, q) \/ ScanReturn(r, flt, F, v, q))

Fairness ==
  /\ WF_vars(Scan)
  /\ \A tr \in Timed : WF_vars(ScanFiring(tr))

FairSpec == Spec /\ Fairness

(* Faults, trips and program requests are what may hold an abort.          *)
NothingHolds == halted = {} /\ armed \cap cards = {} /\ Request \notin globals

(* An abort ends by itself (D12): if from some point on no program is      *)
(* halted, no armed threshold is tripped and no program requests an abort, *)
(* control is with the operator again and again, whoever calls what.       *)
AbortEnds == <>[]NothingHolds => []<>~latched
=============================================================================
