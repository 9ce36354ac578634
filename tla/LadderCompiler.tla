--------------------------- MODULE LadderCompiler ---------------------------
(***************************************************************************)
(* The compilation of a ladder document: LadderCompiler of ladder.py on    *)
(* the plumbing of jsondoc.py.  NetworkEl, which Ladder defines, compiles  *)
(* the nodes inside a node; NodeEl is one step of it.                      *)
(***************************************************************************)
EXTENDS Symbols, LadderDocs

CONSTANT NetworkEl(_, _)    \* the element of a node, with the environment it leaves

CompareOps == [GT |-> ">", GE |-> ">=", EQ |-> "=", NE |-> "<>", LE |-> "<=", LT |-> "<"]
MathOps    == [ADD |-> "+", SUB |-> "-", MUL |-> "*", DIV |-> "/"]

-----------------------------------------------------------------------------
(* jsondoc.py: declarations, operands and destinations.                     *)

(* literal_value: a literal that the type takes, converted to it. *)
LiteralValue(o, type) == IF Assignable(o.type, type) THEN Coerce(o.v, type) ELSE NoValue

(* JsonCompiler.declare: unlike declare_one it lets a system variable's name
   pass, and knows no constants. *)
DeclareJson(E, d) ==
  DeclareAs(E, d, IF HasInit(d) THEN LiteralValue(d.init, TypeNamed(d.type)) ELSE NoValue, {})
DeclareVars(E, ds) ==
  LET env[i \in 0 .. Len(ds)] == IF i = 0 THEN E ELSE DeclareJson(env[i - 1], ds[i])
  IN  env[Len(ds)]

(* A hidden local of an element: an edge memory or a block without a name.  Its
   name has the id of the element in it, and note_id lets no two be the same. *)
Hide(E, n, type, fb) ==
  IF n \in DOMAIN E.syms THEN [E EXCEPT !.bad = TRUE]
  ELSE AddSymbol(E, n, Symbol("local", n, type, fb, FALSE, NoValue))

Operand(E, o) == CASE o.o = "lit"  -> LitNode(o.type, o.v)
                   [] o.o = "name" -> NameNode(E, o.name)
                   [] o.o = "none" -> BadNode

(* operand of an input that may be left out: FALSE, or the power of the rung. *)
Optional(E, o) == IF o = NoOperand THEN [op |-> "power", type |-> "BOOL", bad |-> FALSE] ELSE Operand(E, o)

(* target: a writable variable; any type is accepted if want is "any". *)
Target(E, n, want) ==
  LET s == Lookup(E, n)
  IN  IF s = NoSym THEN NoSym
      ELSE IF s.scope \in {"input", "sys"} \/ s.fb # "none" \/ s.constant
              \/ want \notin {"any", s.type} THEN NoSym
      ELSE s

-----------------------------------------------------------------------------
(* LadderCompiler: a step of it takes the environment and gives it back     *)
(* with the element, [env, el].                                             *)

Done(E, el)  == [env |-> E, el |-> el]
NoElement    == [el |-> "series", items |-> <<>>]
WrongEl(E)   == Done([E EXCEPT !.bad = TRUE], NoElement)
DoneIf(ok, E, el) == IF ok THEN Done(E, el) ELSE WrongEl(E)

(* fb_instance: a hidden instance, a new local, or a local declared before. *)
HiddenName(n) == "#" \o n.fb \o ":" \o n.id
Instance(E, n) ==
  CASE n.instance = "" -> [env |-> Hide(E, HiddenName(n), "none", n.fb), key |-> HiddenName(n)]
    [] n.instance # "" /\ n.instance \notin DOMAIN E.syms ->
         [env |-> DeclareJson(E, [name |-> n.instance, type |-> n.fb, init |-> PNone,
                                  global |-> FALSE, constant |-> FALSE]), key |-> n.instance]
    [] OTHER ->
         [env |-> [E EXCEPT !.bad = @ \/ E.syms[n.instance].fb # n.fb
                                      \/ E.syms[n.instance].scope # "local"], key |-> n.instance]

(* block_outs: the outputs of a block that the document stores somewhere;
   outs maps an output field to the name of a variable. *)
OutsFitAny(E, outs) ==       \* Mutant of OutsFit: any variable takes any output
  \A f \in DOMAIN outs : Target(E, outs[f], "any") # NoSym
OutsFit(E, outs) ==
  \A f \in DOMAIN outs : LET s == Target(E, outs[f], "any")
                         IN  IF s = NoSym THEN FALSE ELSE Assignable(FieldType(f), s.type)
NoOut == [field |-> "none"]
Out(E, f, n) == LET s == Lookup(E, n)
                IN  [field |-> f, scope |-> s.scope, key |-> s.key, conv |-> s.type = "REAL"]
OutList(E, fb, outs) ==
  [i \in DOMAIN OutputsOf(fb) |->
     LET f == OutputsOf(fb)[i] IN IF f \in DOMAIN outs THEN Out(E, f, outs[f]) ELSE NoOut]

ContactEl(E, n) ==
  LET e   == Operand(E, n.operand)
      key == "#edge:" \o n.id
  IN  DoneIf(~e.bad /\ e.type = "BOOL" /\ n.kind \in {"NO", "NC", "P", "N"},
             IF n.kind \in {"P", "N"} THEN Hide(E, key, "BOOL", "none") ELSE E,
             [el |-> "contact", kind |-> n.kind, expr |-> e, key |-> key])

CoilEl(E, n) ==
  LET s == Target(E, n.operand.name, "BOOL")
  IN  IF s = NoSym THEN WrongEl(E)
      ELSE DoneIf(n.kind \in {"COIL", "SET", "RESET", "NEGATED"}, E,
                  [el |-> "coil", kind |-> n.kind, scope |-> s.scope, key |-> s.key])

(* A timer's delay may be any number; its input is not checked at all. *)
TimerOf(I, n) ==
  LET pt == Operand(I.env, n.pt)
      in == Optional(I.env, n.in)
  IN  DoneIf(~pt.bad /\ NumOrTime(pt.type) /\ ~in.bad /\ OutsFit(I.env, n.outs), I.env,
             [el |-> "timer", key |-> I.key, pt |-> pt, in |-> in,
              outs |-> OutList(I.env, n.fb, n.outs)])
TimerEl(E, n) == IF n.fb \in Timers THEN TimerOf(Instance(E, n), n) ELSE WrongEl(E)

(* A counter: n.drive and n.reset stand for cu and reset, or cd and load. *)
CounterOf(I, n) ==
  LET pv    == Operand(I.env, n.pv)
      drive == Optional(I.env, n.drive)
      reset == IF n.reset = NoOperand THEN LitNode("BOOL", BoolV(FALSE)) ELSE Operand(I.env, n.reset)
  IN  DoneIf(~pv.bad /\ pv.type \in IntTypes /\ ~drive.bad /\ ~reset.bad /\ OutsFit(I.env, n.outs),
             I.env, [el |-> "counter", fb |-> n.fb, key |-> I.key, pv |-> pv, drive |-> drive,
                     reset |-> reset, outs |-> OutList(I.env, n.fb, n.outs)])
CounterEl(E, n) == IF n.fb \in {"CTU", "CTD"} THEN CounterOf(Instance(E, n), n) ELSE WrongEl(E)

CompareEl(E, n) ==
  IF n.fn \notin DOMAIN CompareOps THEN WrongEl(E)
  ELSE LET e == BinaryNode(CompareOps[n.fn], Operand(E, n.a), Operand(E, n.b))
       IN  DoneIf(~e.bad, E, [el |-> "compare", expr |-> e])

(* move, and math with its expression: the value stored while there is power. *)
StoreEl(E, e, dst) ==
  LET s == Target(E, dst, "any")
  IN  IF s = NoSym THEN WrongEl(E)
      ELSE DoneIf(Fits(e, s.type), E, [el |-> "store", expr |-> e, scope |-> s.scope, key |-> s.key,
                                       conv |-> ToReal(e, s.type)])
MathEl(E, n) ==
  IF n.fn \notin DOMAIN MathOps THEN WrongEl(E)
  ELSE StoreEl(E, BinaryNode(MathOps[n.fn], Operand(E, n.a), Operand(E, n.b)), n.dst)

(* The nodes inside a node, one after the other through one environment. *)
GroupEl(E, n) ==
  LET made[i \in 0 .. Len(n.items)] ==
        IF i = 0 THEN Done(E, NoElement) ELSE NetworkEl(made[i - 1].env, n.items[i])
  IN  DoneIf(n.t = "series" \/ n.items # <<>>, made[Len(n.items)].env,
             [el |-> n.t, items |-> [i \in DOMAIN n.items |-> made[i].el]])

NodeEl(E, n) ==
  CASE n.t \in {"series", "parallel"} -> GroupEl(E, n)
    [] n.t = "contact" -> ContactEl(E, n)
    [] n.t = "coil"    -> CoilEl(E, n)
    [] n.t = "timer"   -> TimerEl(E, n)
    [] n.t = "counter" -> CounterEl(E, n)
    [] n.t = "compare" -> CompareEl(E, n)
    [] n.t = "move"    -> StoreEl(E, Operand(E, n.src), n.dst)
    [] n.t = "math"    -> MathEl(E, n)
    [] OTHER           -> WrongEl(E)

(* compile: the declarations, then the rungs, one environment through all. *)
CompileLadder(tags, doc) ==
  LET Code(r) == [bad |-> r.env.bad, syms |-> r.env.syms, code |-> r.el.items]
  IN  Code(GroupEl(DeclareVars(NewEnv(tags, {}), doc.vars), Series(doc.rungs)))
=============================================================================
