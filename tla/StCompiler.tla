----------------------------- MODULE StCompiler -----------------------------
(***************************************************************************)
(* The compiler of compiler.py: names resolved, types checked, executable  *)
(* nodes of StNodes emitted from the trees of StParser.                    *)
(* A diagnostic is the flag bad of a node or of a statement.               *)
(***************************************************************************)
EXTENDS StNodes, StParser, Symbols, Folds, SequencesExt

-----------------------------------------------------------------------------
UnaryNode(fn, x) ==
  LET fits == IF fn = "NOT" THEN x.type = "BOOL" ELSE x.type \in NumericTypes \cup {"TIME"}
  IN  CASE x.bad \/ ~fits          -> BadNode
        [] ~x.bad /\ fits /\ fn = "+" -> x
        [] ~x.bad /\ fits /\ fn # "+" -> [op |-> "unary", fn |-> fn, x |-> x, type |-> x.type,
                                          bad |-> FALSE]

(* member: a field of a block, or X and T of a step. *)
MemberNode(E, base, f) ==
  CASE FbSym(E, base) ->
         IF f \in FieldsOf(E.syms[base].fb)
         THEN [op |-> "field", scope |-> E.syms[base].scope, key |-> base, field |-> f,
               type |-> FieldType(f), bad |-> FALSE]
         ELSE BadNode
    [] ~FbSym(E, base) /\ base \in E.steps /\ f \in {"X", "T"} ->
         [op |-> "step", key |-> base, field |-> f, bad |-> FALSE,
          type |-> IF f = "X" THEN "BOOL" ELSE "TIME"]
    [] OTHER -> BadNode

RECURSIVE ExprNode(_, _)
CallNode(E, f, args) ==
  LET es   == [i \in DOMAIN args |-> ExprNode(E, args[i])]
      type == FunctionType(f, [i \in DOMAIN es |-> es[i].type])
  IN  IF (\E i \in DOMAIN es : es[i].bad) \/ f \in BlockTypes \/ FbSym(E, f) \/ es = <<>>
      THEN BadNode
      ELSE IF type = "none" THEN BadNode
      ELSE [op |-> "call", fn |-> f, args |-> es, type |-> type, bad |-> FALSE]

ExprNode(E, p) ==
  CASE p.p = "lit"    -> LitNode(p.type, p.v)
    [] p.p = "name"   -> NameNode(E, p.name)
    [] p.p = "member" -> IF p.base.p = "name" THEN MemberNode(E, p.base.name, p.field) ELSE BadNode
    [] p.p = "unary"  -> UnaryNode(p.fn, ExprNode(E, p.x))
    [] p.p = "bin"    -> BinaryNode(p.fn, ExprNode(E, p.l), ExprNode(E, p.r))
    [] p.p = "call"   -> CallNode(E, p.name, p.args)

-----------------------------------------------------------------------------
(* Declarations.                                                            *)

RECURSIVE Unsigned(_)
Unsigned(p) == IF p.p = "unary" /\ p.fn \in {"-", "+"}
               THEN LET u == Unsigned(p.x) IN [u EXCEPT !.sign = IF p.fn = "-" THEN -@ ELSE @]
               ELSE [p |-> p, sign |-> 1]

(* const_value: a literal under any number of signs, converted to the type
   of the variable; NoValue with a diagnostic. *)
ConstValue(p, type) ==
  LET u == Unsigned(p)
  IN  IF u.p.p # "lit" THEN NoValue
      ELSE IF (u.p.type = "BOOL" /\ u.sign < 0) \/ ~Assignable(u.p.type, type) THEN NoValue
      ELSE Coerce(IF u.p.type \in {"BOOL", "STRING"} THEN u.p.v ELSE [u.p.v EXCEPT !.n = u.sign * @],
                  type)

(* declare_one: every diagnostic rejects the program. *)
Declare(E, d) ==
  DeclareAs(E, d, IF HasInit(d) THEN ConstValue(d.init, TypeNamed(d.type)) ELSE NoValue,
            DOMAIN SysVars)

DeclareAll(E, ds) == FoldLeft(Declare, E, ds)

-----------------------------------------------------------------------------
(* Statements: [stmt, bad, writes], writes being the output tags that       *)
(* assign collects for output_writes.                                       *)

Stmt(s)    == [stmt |-> s, bad |-> FALSE, writes |-> {}]
BadStmt    == [stmt |-> PNone, bad |-> TRUE, writes |-> {}]
OkIf(ok, s) == IF ok THEN s ELSE BadStmt
InLoop(E)  == [E EXCEPT !.loop = TRUE]

RECURSIVE StmtNode(_, _)
(* body: the nodes of a list of statements, and what its parts add up to. *)
BodyNode(E, ps) ==
  LET rs == [i \in DOMAIN ps |-> StmtNode(E, ps[i])]
  IN  [nodes  |-> [i \in DOMAIN rs |-> rs[i].stmt],
       bad    |-> \E i \in DOMAIN rs : rs[i].bad,
       writes |-> UNION {rs[i].writes : i \in DOMAIN rs}]

(* A statement s whose inner bodies are bs. *)
WithBodies(ok, bs, s) ==
  IF ok /\ \A i \in DOMAIN bs : ~bs[i].bad
  THEN [Stmt(s) EXCEPT !.writes = UNION {bs[i].writes : i \in DOMAIN bs}] ELSE BadStmt

IsCond(e) == ~e.bad /\ e.type = "BOOL"

AssignNode(E, p) ==
  LET s == Lookup(E, p.target.name)
      e == ExprNode(E, p.expr)
  IN  IF s = NoSym THEN BadStmt
      ELSE OkIf(s.scope \notin {"input", "sys"} /\ ~s.constant /\ s.fb = "none" /\ Fits(e, s.type),
                [Stmt([op |-> "assign", scope |-> s.scope, key |-> s.key, expr |-> e,
                       conv |-> ToReal(e, s.type)])
                   EXCEPT !.writes = IF s.scope = "output" THEN {s.key} ELSE {}])

AssignFieldNode(E, p) ==
  LET m == p.target
      e == ExprNode(E, p.expr)
  IN  IF m.base.p # "name" THEN BadStmt
      ELSE IF ~FbSym(E, m.base.name) THEN BadStmt
      ELSE OkIf(m.field \in Elements(InputsOf(E.syms[m.base.name].fb)) /\ Fits(e, FieldType(m.field)),
                Stmt([op |-> "assign_field", scope |-> E.syms[m.base.name].scope,
                      key |-> m.base.name, field |-> m.field, expr |-> e,
                      conv |-> ToReal(e, FieldType(m.field))]))

(* Positional arguments count on their own; a field is given once. *)
FbCallNode(E, p) ==
  IF ~FbSym(E, p.name) THEN BadStmt
  ELSE LET s      == E.syms[p.name]
           ins    == InputsOf(s.fb)
           nth(i) == Cardinality({j \in 1..i : p.args[j].name = ""})
           field(i) == IF p.args[i].name # "" THEN p.args[i].name
                       ELSE IF nth(i) <= Len(ins) THEN ins[nth(i)] ELSE "none"
           es     == [i \in DOMAIN p.args |-> ExprNode(E, p.args[i].expr)]
       IN  OkIf(\A i \in DOMAIN p.args :
                  /\ field(i) \in Elements(ins) /\ Fits(es[i], FieldType(field(i)))
                  /\ \A j \in 1..(i-1) : field(j) # field(i),
                Stmt([op |-> "fb_call", scope |-> s.scope, key |-> p.name,
                      args |-> [i \in DOMAIN p.args |->
                                 [field |-> field(i), expr |-> es[i],
                                  conv |-> ToReal(es[i], FieldType(field(i)))]]]))

IfNode(E, p) ==
  LET conds  == [i \in DOMAIN p.branches |-> ExprNode(E, p.branches[i].cond)]
      bodies == [i \in DOMAIN p.branches |-> BodyNode(E, p.branches[i].body)]
      rest   == BodyNode(E, p.orelse)
  IN  WithBodies(\A i \in DOMAIN conds : IsCond(conds[i]), Append(bodies, rest),
        [op |-> "if", orelse |-> rest.nodes,
         branches |-> [i \in DOMAIN conds |-> [cond |-> conds[i], body |-> bodies[i].nodes]]])

(* No range is empty and no two labels overlap. *)
LabelsOk(branches) ==
  LET all == FoldLeft(LAMBDA acc, b : acc \o b.ranges, <<>>, branches)
  IN  /\ \A i \in DOMAIN all : all[i][1] <= all[i][2]
      /\ \A i, j \in DOMAIN all : i < j => ~(all[j][1] <= all[i][2] /\ all[i][1] <= all[j][2])

CaseNode(E, p) ==
  LET sel    == ExprNode(E, p.sel)
      bodies == [i \in DOMAIN p.branches |-> BodyNode(E, p.branches[i].body)]
      rest   == BodyNode(E, p.orelse)
  IN  WithBodies(~sel.bad /\ sel.type \in IntTypes /\ LabelsOk(p.branches), Append(bodies, rest),
        [op |-> "case", sel |-> sel, orelse |-> rest.nodes,
         branches |-> [i \in DOMAIN bodies |-> [ranges |-> p.branches[i].ranges,
                                                body   |-> bodies[i].nodes]]])

(* for_: the control variable is not added to the writes, and not wrapped. *)
ForNode(E, p) ==
  LET s    == Lookup(E, p.var)
      lo   == ExprNode(E, p.start)
      hi   == ExprNode(E, p.end)
      by   == IF p.by = PNone THEN LitNode("INT", IntV(1)) ELSE ExprNode(E, p.by)
      body == BodyNode(InLoop(E), p.body)
  IN  IF s = NoSym THEN BadStmt
      ELSE WithBodies(/\ s.scope \notin {"input", "sys"} /\ ~s.constant /\ s.type \in IntTypes
                      /\ \A e \in {lo, hi, by} : ~e.bad /\ e.type \in IntTypes, <<body>>,
             [op |-> "for", scope |-> s.scope, key |-> s.key, start |-> lo, end |-> hi,
              step |-> by, body |-> body.nodes])

LoopNode(E, p) ==
  LET cond == ExprNode(E, p.cond)
      body == BodyNode(InLoop(E), p.body)
  IN  WithBodies(IsCond(cond), <<body>>, [op |-> p.p, cond |-> cond, body |-> body.nodes])

StmtNode(E, p) ==
  CASE p.p = "assign"  -> IF p.target.p = "name" THEN AssignNode(E, p) ELSE AssignFieldNode(E, p)
    [] p.p = "fb_call" -> FbCallNode(E, p)
    [] p.p = "if"      -> IfNode(E, p)
    [] p.p = "case"    -> CaseNode(E, p)
    [] p.p = "for"     -> ForNode(E, p)
    [] p.p \in {"while", "repeat"} -> LoopNode(E, p)
    [] p.p = "exit"    -> OkIf(E.loop, Stmt([op |-> "exit"]))
    [] p.p = "return"  -> Stmt([op |-> "return"])
=============================================================================
