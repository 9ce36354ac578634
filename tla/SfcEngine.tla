------------------------------ MODULE SfcEngine -----------------------------
(***************************************************************************)
(* One chart executing (plc/sfc.py, SfcBody.execute), with what SfcChart   *)
(* leaves open: the order in which transitions are tried, the step timers, *)
(* and the entry actions owed to steps activated outside a scan.  A scan   *)
(* is one action; the conditions that do not read a timer are data.        *)
(* Time is counted in scans.                                               *)
(***************************************************************************)
EXTENDS SfcChart, Naturals, Sequences

CONSTANTS
  Order,     \* [Charts -> Seq(Trans)]: the transitions in document order
  Timed,     \* transitions whose condition is "T of their one from-step >= Delay"
  Delay,     \* [Timed -> Nat]
  MaxTime    \* bound: timers stop counting here

ASSUME OrderAssumption ==
  /\ Order \in [Charts -> Seq(Trans)]
  /\ \A c \in Charts : /\ TransOf(c) = {Order[c][i] : i \in DOMAIN Order[c]}
                       /\ \A i, j \in DOMAIN Order[c] : i # j => Order[c][i] # Order[c][j]
  /\ Timed \subseteq Trans /\ \A tr \in Timed : \E s \in Steps : From[tr] = {s}
  /\ MaxTime \in Nat /\ Delay \in [Timed -> 0 .. MaxTime]

VARIABLES
  chart,    \* the chart that is loaded
  state,    \* its SfcState: [active, running, aborted, pending]
  t,        \* StepState.t of every step
  fresh,    \* steps with StepState.fresh: activated, entry actions not yet run
  halted,   \* _ProgramState.halted
  fired,    \* the transitions of the last scan
  stay      \* history: the scans each active step has completed

vars == <<chart, state, t, fresh, halted, fired, stay>>

Tick(n) == IF n < MaxTime THEN n + 1 ELSE n
Zero == [s \in Steps |-> 0]

Init ==
  /\ chart \in Charts
  /\ state = Idle /\ t = Zero /\ fresh = {} /\ halted = FALSE
  /\ fired = {} /\ stay = Zero

(* Steps are reset; those active at once are owed their entry actions.     *)
Begin(cs) ==
  /\ state' = cs
  /\ t' = Zero /\ stay' = Zero
  /\ fresh' = cs.active
  /\ fired' = {}

StartSfc == ~state.aborted /\ Begin(Start(chart)) /\ UNCHANGED <<chart, halted>>
StopSfc == Begin(Stop(state)) /\ UNCHANGED <<chart, halted>>

(* clear_abort drops the transition block; _check_return then stops.       *)
ClearAbort ==
  /\ state.aborted
  /\ Begin(Idle)
  /\ UNCHANGED <<chart, halted>>

ClearFaults ==
  /\ halted
  /\ halted' = FALSE /\ fired' = {}
  /\ UNCHANGED <<chart, state, t, fresh, stay>>
-----------------------------------------------------------------------------

(* Every active step that has run its entry actions gets dt.               *)
Advanced(cs, tm, fr) == [s \in Steps |-> IF s \in cs.active \ fr THEN Tick(tm[s]) ELSE tm[s]]

Holds(tr, tm, truth) ==
  IF tr \in Timed THEN \A s \in From[tr] : tm[s] >= Delay[tr] ELSE tr \in truth

(* Mutant: steps already taken by an earlier transition are not excluded.  *)
FiringAll(cs, tm, new, truth) ==
  {tr \in Ready(chart, cs, new) : Holds(tr, tm, truth)}

(* Transitions are tried in document order; one that fires consumes its    *)
(* from-steps.  new: the steps activated with the index of this scan.      *)
Firing(cs, tm, new, truth) ==
  LET taken[i \in 0 .. Len(Order[chart])] ==
        IF i = 0 THEN {}
        ELSE LET tr == Order[chart][i]
             IN IF /\ tr \in Ready(chart, cs, new) /\ Holds(tr, tm, truth)
                   /\ From[tr] \cap Exited(taken[i - 1]) = {}
                THEN taken[i - 1] \cup {tr} ELSE taken[i - 1]
  IN taken[Len(Order[chart])]

(* The steps a scan activates: targets that are not active once the exits  *)
(* are done.                                                               *)
Entered(cs, F) == Targets(F) \ (cs.active \ Exited(F))

(* Mutant: a step activated in this scan keeps its old timer.              *)
ExecutedKeepsTimer(cs, tm, st, fr, new, truth) ==
  LET tm1 == Advanced(cs, tm, fr)
      F == Firing(cs, tm1, new, truth)
  IN /\ state' = After(cs, F)
     /\ fired' = F
     /\ fresh' = {}
     /\ t' = tm1
     /\ stay' = [s \in Steps |-> IF s \in Entered(cs, F) THEN 0
                                 ELSE IF s \in cs.active \ cs.pending THEN Tick(st[s]) ELSE st[s]]

(* Mutant: running the entry actions leaves the step fresh.                *)
ExecutedLeavesFresh(cs, tm, st, fr, new, truth) ==
  LET tm1 == Advanced(cs, tm, fr)
      F == Firing(cs, tm1, new, truth)
  IN /\ state' = After(cs, F)
     /\ fired' = F
     /\ fresh' = (fr \ Exited(F)) \cup Entered(cs, F)
     /\ t' = [s \in Steps |-> IF s \in Entered(cs, F) THEN 0 ELSE tm1[s]]
     /\ stay' = [s \in Steps |-> IF s \in Entered(cs, F) THEN 0
                                 ELSE IF s \in cs.active \ cs.pending THEN Tick(st[s]) ELSE st[s]]

Executed(cs, tm, st, fr, new, truth) ==
  LET tm1 == Advanced(cs, tm, fr)
      F == Firing(cs, tm1, new, truth)
  IN /\ state' = After(cs, F)
     /\ fired' = F
     /\ fresh' = {}
     /\ t' = [s \in Steps |-> IF s \in Entered(cs, F) THEN 0 ELSE tm1[s]]
     /\ stay' = [s \in Steps |-> IF s \in Entered(cs, F) THEN 0
                                 ELSE IF s \in cs.active \ cs.pending THEN Tick(st[s]) ELSE st[s]]

(* PlcRuntime.scan of this chart; a chart that does not run does nothing.  *)
Scan ==
  /\ ~halted /\ state.running
  /\ \E truth \in SUBSET (TransOf(chart) \ Timed) : Executed(state, t, stay, fresh, {}, truth)
  /\ UNCHANGED <<chart, halted>>

(* A fault in the chart's code rolls the whole scan back and halts it.     *)
Fault ==
  /\ ~halted /\ state.running
  /\ halted' = TRUE /\ fired' = {}
  /\ UNCHANGED <<chart, state, t, fresh, stay>>

(* The scan of a latch: the chart drops out of its steps, enters the abort *)
(* chain (a halted chart too) and is executed in the same scan, which may  *)
(* fault: the snapshot rolled back to is taken inside the chain.           *)
AbortScan ==
  /\ ~state.aborted
  /\ IF AbortStep[chart] = NoStep
     THEN Begin(ApplyAbort(chart)) /\ UNCHANGED halted
     ELSE \/ /\ halted' = FALSE
             /\ \E truth \in SUBSET (TransOf(chart) \ Timed) :
                  Executed(ApplyAbort(chart), Zero, Zero, {AbortStep[chart]}, {AbortStep[chart]}, truth)
          \/ Begin(ApplyAbort(chart)) /\ halted' = TRUE
  /\ UNCHANGED chart

Next ==
  \/ StartSfc \/ StopSfc \/ ClearAbort \/ ClearFaults
  \/ Scan \/ Fault \/ AbortScan

Spec == Init /\ [][Next]_vars

-----------------------------------------------------------------------------
(* Properties.                                                             *)

(* No step is left before its delay, and a timed step whose transition is  *)
(* its only way out never stays longer (the hotfire timeline).  The scan   *)
(* that runs a step's entry actions does not count.                        *)
Completed(s) == IF s \in state.pending THEN stay[s] ELSE Tick(stay[s])
LeftOnTime ==
  [][\A tr \in fired' : tr \in Timed =>
       \A s \in From[tr] : Completed(s) >= Delay[tr]]_vars
NeverOverdue ==
  \A tr \in TransOf(chart) \cap Timed :
    From[tr] \subseteq state.active
      /\ (state.aborted => InAbort(tr))
      /\ (\A u \in TransOf(chart) : u # tr => From[u] \cap From[tr] = {})
    => \A s \in From[tr] : Delay[tr] > 0 => stay[s] < Delay[tr]

(* What Simulator assumes of a scan of a chart: it fires ready transitions *)
(* that share no step, and nothing else changes the active steps.          *)
ChartStep ==
  [][state.running /\ state'.running /\ state' # Start(chart) /\ state'.aborted = state.aborted =>
       /\ fired' \subseteq Ready(chart, state, {}) /\ Disjoint(fired')
       /\ state' = After(state, fired') \/ UNCHANGED state]_vars

=============================================================================
