----------------------------- MODULE LadderDocs -----------------------------
(***************************************************************************)
(* The ladder documents of ladder.py.  A node is a record whose t is its   *)
(* type; an operand is a literal, a name or, where the document has none,  *)
(* NoOperand.  Every element has an id, which names the hidden variables   *)
(* it owns.                                                                *)
(***************************************************************************)
Series(ns)   == [t |-> "series", items |-> ns]
Parallel(ns) == [t |-> "parallel", items |-> ns]
Name(n)      == [o |-> "name", name |-> n]
Value(type, v) == [o |-> "lit", type |-> type, v |-> v]
NoOperand    == [o |-> "none"]
=============================================================================
