------------------------------ MODULE Contexts ------------------------------
(***************************************************************************)
(* The context in which a program of nodes.py runs, and what needs no more *)
(* than a context: loads, stores, and expressions without subexpressions.  *)
(* A context c holds the stores of a program (by scope, then by name), the *)
(* dt of the scan, the steps of its chart and the outputs written so far.  *)
(* A node is a record whose op names its class; type is the type the       *)
(* compiler gave an expression.                                            *)
(***************************************************************************)
EXTENDS FunctionBlocks

Scopes == {"local", "global", "input", "output", "sys"}

(* A store that has no such name raises KeyError, an internal fault. *)
Load(c, s, key) == IF key \in DOMAIN c.store[s] THEN c.store[s][key] ELSE FaultV("internal")
Store(c, s, key, v) ==
  [c EXCEPT !.store[s]  = [x \in DOMAIN @ \cup {key} |-> IF x = key THEN v ELSE @[x]],
            !.written = IF s = "output" THEN @ \cup {key} ELSE @]

Convert(conv, v) == IF conv /\ ~IsFault(v) THEN Float(v) ELSE v

LeafOps == {"lit", "var", "field", "step"}
Leaf(c, e) ==
  CASE e.op = "lit"   -> e.v
    [] e.op = "var"   -> Load(c, e.scope, e.key)
    [] e.op = "field" -> GetField(Load(c, e.scope, e.key), e.field)
    [] e.op = "step"  -> IF e.field = "X" THEN BoolV(c.steps[e.key].active) ELSE c.steps[e.key].t

(* A binary operator on two results: the fault of the left one comes first. *)
Combined(fn, l, r) == IF IsFault(l) THEN l ELSE IF IsFault(r) THEN r ELSE Kernel(fn, l, r)
=============================================================================
