------------------------------ MODULE SfcChart ------------------------------
(***************************************************************************)
(* A compiled sequential function chart (backend/draco_sim/plc/sfc.py) and *)
(* the operations SfcBody has on the state of one chart.  This module has  *)
(* no variables: Simulator and SfcEngine keep chart states and call the    *)
(* operators below.                                                        *)
(*                                                                         *)
(* The state of a chart is a record [active, running, aborted, pending].   *)
(* Transition conditions are data: a caller chooses which ready            *)
(* transitions fire.  Step timers live in SfcEngine.                       *)
(***************************************************************************)
CONSTANTS
  Charts,      \* names of the SFC programs
  Steps,       \* every step of every chart
  NoStep,      \* stands for "the chart declares no abort_step"
  Trans,       \* every transition of every chart
  StepsOf,     \* [Charts -> SUBSET Steps]
  ChartOf,     \* [Trans -> Charts]
  From, To,    \* [Trans -> SUBSET Steps]
  Initial,     \* [Charts -> Steps]
  AbortStep    \* [Charts -> Steps \cup {NoStep}]

TransOf(c) == {tr \in Trans : ChartOf[tr] = c}

(* The forward closure of the abort step.  The compiler follows a          *)
(* transition as soon as ONE of its from-steps is in the set, while a      *)
(* transition belongs to the abort chain only when ALL of them are.        *)
ClosedUnder(c, S) ==
  /\ AbortStep[c] \in S
  /\ \A tr \in TransOf(c) : From[tr] \cap S # {} => To[tr] \subseteq S

AbortSet ==
  [c \in Charts |->
     IF AbortStep[c] = NoStep THEN {}
     ELSE {s \in StepsOf[c] : \A S \in SUBSET StepsOf[c] : ClosedUnder(c, S) => s \in S}]

InAbort(tr) == From[tr] \subseteq AbortSet[ChartOf[tr]]

(* Steps with no outgoing transition at all: COMPLETE, DONE, ABORT_DONE.   *)
Terminal == [c \in Charts |-> {s \in StepsOf[c] : \A tr \in TransOf(c) : s \notin From[tr]}]

(* What SfcCompiler accepts.                                               *)
ASSUME ChartAssumption ==
  /\ NoStep \notin Steps
  /\ StepsOf \in [Charts -> SUBSET Steps]
  /\ ChartOf \in [Trans -> Charts]
  /\ From \in [Trans -> SUBSET Steps]
  /\ To \in [Trans -> SUBSET Steps]
  /\ \A tr \in Trans : /\ From[tr] # {} /\ From[tr] \subseteq StepsOf[ChartOf[tr]]
                       /\ To[tr] # {} /\ To[tr] \subseteq StepsOf[ChartOf[tr]]
  /\ \A c \in Charts : /\ Initial[c] \in StepsOf[c]
                       /\ AbortStep[c] \in StepsOf[c] \cup {NoStep}
                       /\ Initial[c] \notin AbortSet[c]
-----------------------------------------------------------------------------
ChartState == [active : SUBSET Steps, running : BOOLEAN,
               aborted : BOOLEAN, pending : SUBSET Steps]

Idle == [active |-> {}, running |-> FALSE, aborted |-> FALSE, pending |-> {}]

Start(c) == [active |-> {Initial[c]}, running |-> TRUE,
             aborted |-> FALSE, pending |-> {Initial[c]}]

(* Stopping keeps the aborted flag.                                        *)
Stop(cs) == [Idle EXCEPT !.aborted = cs.aborted]

ApplyAbort(c) ==
  IF AbortStep[c] = NoStep
  THEN [Idle EXCEPT !.aborted = TRUE]
  ELSE [active |-> {AbortStep[c]}, running |-> TRUE,
        aborted |-> TRUE, pending |-> {AbortStep[c]}]

(* fresh: the steps activated with the index of the scan being executed,   *)
(* which cannot be left in that scan (the abort step at the latch).        *)
Ready(c, cs, fresh) ==
  {tr \in TransOf(c) : /\ From[tr] \subseteq cs.active \ fresh
                       /\ cs.aborted => InAbort(tr)}

(* No step is consumed by two transitions of one scan.                     *)
Disjoint(F) == \A t1, t2 \in F : t1 # t2 => From[t1] \cap From[t2] = {}

Exited(F) == UNION {From[tr] : tr \in F}
Targets(F) == UNION {To[tr] : tr \in F}

(* Every from-step is deactivated before any to-step is activated.         *)
After(cs, F) ==
  IF cs.running
  THEN [cs EXCEPT !.active = (cs.active \ Exited(F)) \cup Targets(F), !.pending = {}]
  ELSE cs

(* The steps whose actions can run in that scan: pending entries run even  *)
(* for a step left at once, then exits, then entries and continuous ones.  *)
Acting(cs, F) ==
  IF cs.running THEN cs.pending \cup Exited(F) \cup After(cs, F).active ELSE {}

(* Every active step of the chart is one nothing leads out of.             *)
Parked(c, cs) == cs.active # {} /\ cs.active \subseteq Terminal[c]

(* Mutant: only a chart that does not run has finished its chain.          *)
ChainDoneWhenStopped(c, cs) == ~cs.running

(* An abort chain is over when the chart sits on final steps of the chain, *)
(* or is not running at all.                                               *)
ChainDone(c, cs) ==
  ~cs.running \/ (cs.active # {} /\ cs.active \subseteq Terminal[c] \cap AbortSet[c])
=============================================================================
