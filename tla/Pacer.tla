------------------------------- MODULE Pacer -------------------------------
(***************************************************************************)
(* runtime/pacer.py: how many scans are due.  A pacer is a record of the   *)
(* attributes of Pacer; the caller hands in its Simulator's pause and dt.  *)
(***************************************************************************)
EXTENDS Integers

CONSTANTS MaxBatch, Batch    \* scans of one tick, in real time and not

ASSUME PacerAssumption == MaxBatch \in Nat \ {0} /\ Batch \in Nat

Unset == -1                  \* _anchor is None
NewPacer == [realtime |-> TRUE, speed |-> 1, credit |-> 0, anchor |-> Unset, dropped |-> 0]
Restarted(p) == [p EXCEPT !.anchor = Unset, !.credit = 0]    \* reset(): now is None

(* due_scans in real time, once anchored: whole scans are taken out of the
   credit, and a backlog over MaxBatch is dropped together with the rest. *)
PacedScans(p, now, dt) ==
  LET elapsed == now - p.anchor
      credit  == p.credit + elapsed * p.speed
      n       == credit \div dt
      at      == [p EXCEPT !.anchor = now]
  IN  CASE elapsed <= 0 -> [n |-> 0, pacer |-> at]
        [] elapsed > 0 /\ n > MaxBatch ->
             [n |-> MaxBatch, pacer |-> [at EXCEPT !.credit = 0, !.dropped = @ + n - MaxBatch]]
        [] OTHER -> [n |-> n, pacer |-> [at EXCEPT !.credit = credit - n * dt]]

(* Mutant of DueScans: a pause does not move the anchor. *)
DueScansPauseChased(p, paused, now, dt) ==
  CASE paused                -> [n |-> 0, pacer |-> p]
    [] ~paused /\ ~p.realtime -> [n |-> Batch, pacer |-> [p EXCEPT !.anchor = now]]
    [] ~paused /\ p.realtime /\ p.anchor = Unset -> [n |-> 0, pacer |-> [p EXCEPT !.anchor = now]]
    [] OTHER                 -> PacedScans(p, now, dt)

DueScans(p, paused, now, dt) ==
  CASE paused                -> [n |-> 0, pacer |-> [p EXCEPT !.anchor = now, !.credit = 0]]
    [] ~paused /\ ~p.realtime -> [n |-> Batch, pacer |-> [p EXCEPT !.anchor = now]]
    [] ~paused /\ p.realtime /\ p.anchor = Unset -> [n |-> 0, pacer |-> [p EXCEPT !.anchor = now]]
    [] OTHER                 -> PacedScans(p, now, dt)
=============================================================================
