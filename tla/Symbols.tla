------------------------------ MODULE Symbols ------------------------------
(***************************************************************************)
(* The symbols and types that the two compilers share: the name lookup and *)
(* the declarations of compiler.py, and the typing of its operators.       *)
(*                                                                         *)
(* A program with a diagnostic is never run, so a diagnostic is only the   *)
(* fact that there is one: the flag bad of a node or of an environment.    *)
(* An environment E holds the tags (name -> type, dir), the symbols        *)
(* declared so far (name -> scope, type, fb, constant, init), the step     *)
(* names that member_resolver knows, and whether a loop is around the      *)
(* statement.                                                              *)
(***************************************************************************)
EXTENDS FunctionBlocks

SysVars == [SYS_ABORT |-> "BOOL", SYS_SCAN_TIME |-> "REAL",
            SYS_FIRST_SCAN |-> "BOOL", SYS_TIME |-> "REAL"]

NoSym   == [scope |-> "none"]
Symbol(scope, key, type, fb, constant, init) ==
  [scope |-> scope, key |-> key, type |-> type, fb |-> fb, constant |-> constant, init |-> init]

NewEnv(tags, steps) ==
  [tags |-> tags, syms |-> << >>, steps |-> steps, loop |-> FALSE, bad |-> FALSE]

(* lookup: a declared name hides nothing, declare_one keeps the three apart. *)
Lookup(E, n) ==
  IF n \in DOMAIN E.syms THEN E.syms[n]
  ELSE CASE n \in DOMAIN E.tags -> Symbol(IF E.tags[n].dir = "in" THEN "input" ELSE "output",
                                          n, E.tags[n].type, "none", FALSE, NoValue)
         [] n \in DOMAIN SysVars \ DOMAIN E.tags -> Symbol("sys", n, SysVars[n], "none", FALSE, NoValue)
         [] OTHER -> NoSym
FbSym(E, n) == n \in DOMAIN E.syms /\ E.syms[n].fb # "none"

-----------------------------------------------------------------------------
(* Declarations.  A declaration d is [name, type, init, global, constant].  *)

TypeNamed(t) == IF t = "LREAL" THEN "REAL" ELSE t
IsBlockType(d) == d.type \in BlockTypes

(* The symbol of d is added, with the initial value init that a compiler found
   for it, unless the name is taken or the type or the value is wrong. *)
AddSymbol(E, n, sym) ==
  [E EXCEPT !.syms = [x \in DOMAIN @ \cup {n} |-> IF x = n THEN sym ELSE @[x]]]
DeclareAs(E, d, init, taken) ==
  LET type  == TypeNamed(d.type)
      wrong == \/ d.name \in DOMAIN E.syms \cup DOMAIN E.tags \cup taken
               \/ ~IsBlockType(d) /\ type \notin ValueTypes
               \/ d.init # PNone /\ init = NoValue
               \/ d.constant /\ init = NoValue /\ ~IsBlockType(d)
      sym   == Symbol(IF d.global THEN "global" ELSE "local", d.name,
                      IF IsBlockType(d) THEN "none" ELSE type,
                      IF IsBlockType(d) THEN d.type ELSE "none", d.constant, init)
  IN  IF wrong THEN [E EXCEPT !.bad = TRUE] ELSE AddSymbol(E, d.name, sym)

(* Whether d has an initial value that its type may take. *)
HasInit(d) == d.init # PNone /\ ~IsBlockType(d) /\ TypeNamed(d.type) \in ValueTypes

-----------------------------------------------------------------------------
BadNode == [op |-> "lit", v |-> BoolV(FALSE), type |-> "?", bad |-> TRUE]
LitNode(type, v) == [op |-> "lit", v |-> v, type |-> type, bad |-> FALSE]
VarNode(s) == [op |-> "var", scope |-> s.scope, key |-> s.key, type |-> s.type, bad |-> FALSE]

Relations == {"=", "<>", "<", ">", "<=", ">="}
Logical   == {"AND", "OR", "XOR"}

Comparable(fn, l, r) ==
  \/ l \in NumericTypes /\ r \in NumericTypes
  \/ l = r /\ l \in {"TIME", "STRING"}
  \/ l = r /\ l = "BOOL" /\ fn \in {"=", "<>"}

ArithmeticType(fn, l, r) ==
  CASE l = "TIME" /\ r = "TIME" /\ fn \in {"+", "-"} -> "TIME"
    [] l = "TIME" /\ r = "TIME" /\ fn = "/" -> "REAL"
    [] l = "TIME" /\ r \in NumericTypes -> IF fn \in {"*", "/"} THEN "TIME" ELSE "none"
    [] r = "TIME" /\ l \in NumericTypes -> IF fn = "*" THEN "TIME" ELSE "none"
    [] l \in NumericTypes /\ r \in NumericTypes -> Promote(l, r)
    [] OTHER                            -> "none"

BinaryType(fn, l, r) ==
  CASE fn \in Logical   -> IF l = "BOOL" /\ r = "BOOL" THEN "BOOL" ELSE "none"
    [] fn \in Relations -> IF Comparable(fn, l, r) THEN "BOOL" ELSE "none"
    [] fn = "**"        -> IF {l, r} \subseteq NumericTypes THEN "REAL" ELSE "none"
    [] fn = "MOD"       -> IF {l, r} \subseteq IntTypes THEN "DINT" ELSE "none"
    [] fn \in {"+", "-", "*", "/"} -> ArithmeticType(fn, l, r)

KernelOf(fn, type) ==
  CASE fn \in Relations -> fn
    [] fn = "**"  -> "pow"
    [] fn = "MOD" -> "imod"
    [] fn = "+"   -> IF type \in IntTypes THEN "wrap_add" ELSE "add"
    [] fn = "-"   -> IF type \in IntTypes THEN "wrap_sub" ELSE "sub"
    [] fn = "*"   -> IF type \in IntTypes THEN "wrap_mul" ELSE "mul"
    [] fn = "/"   -> IF type \in IntTypes THEN "idiv" ELSE "real_div"

(* binop of two compiled operands. *)
BinaryNode(fn, l, r) ==
  LET type == BinaryType(fn, l.type, r.type)
      bad  == l.bad \/ r.bad
  IN  CASE bad \/ type = "none" -> BadNode
        [] ~bad /\ type # "none" /\ fn \in Logical ->
             [op |-> CASE fn = "AND" -> "and" [] fn = "OR" -> "or" [] fn = "XOR" -> "xor",
              l |-> l, r |-> r, type |-> "BOOL", bad |-> FALSE]
        [] ~bad /\ type # "none" /\ fn \notin Logical ->
             [op |-> "binary", fn |-> KernelOf(fn, type), l |-> l, r |-> r, type |-> type,
              bad |-> FALSE]

(* ref of a name that is no block. *)
NameNode(E, n) ==
  LET s == Lookup(E, n) IN IF s = NoSym \/ FbSym(E, n) THEN BadNode ELSE VarNode(s)

Fits(e, type)  == ~e.bad /\ Assignable(e.type, type)
ToRealNever(e, type) == FALSE    \* Mutant of ToReal: no conversion on assignment
ToReal(e, type) == type = "REAL" /\ e.type \in IntTypes
=============================================================================
