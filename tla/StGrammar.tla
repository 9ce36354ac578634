----------------------------- MODULE StGrammar -----------------------------
(***************************************************************************)
(* What the language promises of a program on its way through StProgram,   *)
(* against definitions that owe nothing to the parser's recursion: a       *)
(* grammar by splitting, a bracket check, whole-number arithmetic.         *)
(***************************************************************************)
EXTENDS StProgram

(* A source of family "expr" is  x := <expression>;  with its expression in
   src.expr.  The reference: the loosest operator of a level that stands
   outside parentheses between two operands splits the text, the last one of
   its level first; a sign or NOT takes what is left of it, ** included. *)
Reject == [p |-> "reject"]
EndsOperand(t) == IsIdent(t) \/ IsLiteral(t) \/ t = ")"
Depth(e, k)    == Cardinality({j \in 1..k : e[j] = "("}) - Cardinality({j \in 1..k : e[j] = ")"})
Cuts(e, ops)   == {k \in 2..Len(e) : e[k] \in ops /\ Depth(e, k) = 0 /\ EndsOperand(e[k-1])}
From(e, k)     == SubSeq(e, k, Len(e))
Upto(e, k)     == SubSeq(e, 1, k)
Both(l, r, node) == IF Reject \in {l, r} THEN Reject ELSE node

RECURSIVE Split(_, _), SplitUnary(_)
Split(e, l) ==
  IF l > Len(LevelOps) THEN SplitUnary(e)
  ELSE LET cuts == Cuts(e, LevelOps[l])
       IN  IF cuts = {} THEN Split(e, l + 1)
           ELSE LET k == Max(cuts)
                    left == Split(Upto(e, k - 1), l)  right == Split(From(e, k + 1), l + 1)
                IN  Both(left, right, PBin(e[k], left, right))

SplitAtom(e) ==
  CASE Len(e) = 1 /\ IsLiteral(e[1]) -> PLit(Literal[e[1]].type, Literal[e[1]].v)
    [] Len(e) = 1 /\ IsIdent(e[1])   -> PName(e[1])
    [] Len(e) > 2 /\ e[1] = "(" /\ e[Len(e)] = ")"
         /\ \A k \in 1..(Len(e) - 1) : Depth(e, k) > 0 -> Split(SubSeq(e, 2, Len(e) - 1), 1)
    [] OTHER -> Reject

SplitUnary(e) ==
  IF e = <<>> THEN Reject
  ELSE IF e[1] \in {"-", "+", "NOT"}
  THEN LET x == SplitUnary(Tail(e)) IN Both(x, x, PUnary(e[1], x))
  ELSE LET cuts == Cuts(e, {"**"})
       IN  IF cuts = {} THEN SplitAtom(e)
           ELSE LET k == Min(cuts)
                    left == SplitAtom(Upto(e, k - 1))  right == SplitUnary(From(e, k + 1))
                IN  Both(left, right, PBin("**", left, right))

(* An expression is accepted exactly if the grammar accepts it, and as the
   tree of the grammar: parse_or down to parse_primary and _binary_level. *)
TreeIsTheGrammars ==
  src.family = "expr" /\ phase = "parsed" =>
    LET tree == Split(src.expr, 1)
    IN  /\ (s.errs = <<>>) = (tree # Reject)
        /\ s.errs = <<>> => s.node[1].expr = tree

-----------------------------------------------------------------------------
(* A source of family "blocks" has a body put together from chunks: src.body *)
(* is the list of their names.                                              *)
Opens  == ("IF" :> "if") @@ ("WHILE" :> "loop") @@ ("REPEAT" :> "repeat") @@ ("CASE" :> "case")
Closes == ("END_IF" :> {"if", "ifelse"}) @@ ("END_WHILE" :> {"loop"}) @@ ("UNTIL" :> {"repeat"})
          @@ ("END_CASE" :> {"case", "caseelse"})

(* The open blocks after one more chunk, "wrong" once one does not match. *)
Bracket(open, chunk) ==
  LET top == IF open = <<>> THEN "none" ELSE Last(open)
  IN  CASE "wrong" \in Elements(open)                -> open
        [] "wrong" \notin Elements(open) /\ chunk \in DOMAIN Opens  -> Append(open, Opens[chunk])
        [] "wrong" \notin Elements(open) /\ chunk \in DOMAIN Closes ->
             IF top \in Closes[chunk] THEN Front(open) ELSE <<"wrong">>
        [] "wrong" \notin Elements(open) /\ chunk = "ELSE" ->
             IF top \in {"if", "case"} THEN Append(Front(open), IF top = "if" THEN "ifelse" ELSE "caseelse") ELSE <<"wrong">>
        [] "wrong" \notin Elements(open) /\ chunk = "LABEL" ->
             IF top = "case" THEN open ELSE <<"wrong">>
        [] OTHER -> open
Matched(body) == FoldLeft(Bracket, <<>>, body) = <<>>

(* What recovery keeps of a body: a malformed statement goes, and one that lacks
   its semicolon takes along the simple statement behind it, and the CASE labels
   before that one: sync stops at statement keywords and block ends, and a label
   is neither, so a branch that begins there is merged into the one before it. *)
Skim(acc, chunk) ==
  LET simple == chunk \in {"SET", "BAD_NAME", "BAD_VALUE"}
  IN  CASE acc.open /\ simple                       -> [acc EXCEPT !.open = FALSE]
        [] acc.open /\ chunk \in {"UNENDED", "LABEL"} -> acc
        [] ~acc.open /\ chunk \in {"BAD_NAME", "BAD_VALUE"} -> [acc EXCEPT !.errors = @ + 1]
        [] ~acc.open /\ chunk = "UNENDED"           -> [acc EXCEPT !.errors = @ + 1, !.open = TRUE]
        [] OTHER -> [acc EXCEPT !.open = FALSE, !.kept = Append(@, chunk)]
Recovered(body) == FoldLeft(Skim, [kept |-> <<>>, errors |-> 0, open |-> FALSE], body)

(* A body is accepted exactly if its blocks match and no statement of it is
   malformed.  If only statements are malformed, there is one diagnostic for
   each (for a run of statements without semicolons one), and the tree is that
   of what Recovered keeps: sync loses no block, and no statement and no CASE
   label but those between a missing semicolon and the next semicolon or
   statement keyword (sync, parse_stmts, parse_case). *)
RecoveryIsLocal ==
  src.family = "blocks" /\ phase = "parsed" =>
    LET rest == Recovered(src.body)
    IN  /\ (s.errs = <<>>) = (Matched(src.body) /\ rest.errors = 0)
        /\ Matched(src.body) =>
             /\ Len(s.errs) = rest.errors
             /\ s.node = Body(src.healthy, At(1)).node

-----------------------------------------------------------------------------
Locals == {n \in DOMAIN prog.syms : prog.syms[n].scope = "local" /\ prog.syms[n].fb = "none"}

RECURSIVE Mixes(_)
(* A MIN, MAX, LIMIT, SEL or MUX whose branches are not of its type: it hands
   over the branch as it is. *)
Mixes(e) ==
  CASE e.op = "call"   -> \/ \E i \in DOMAIN e.args : Mixes(e.args[i])
                          \/ /\ e.fn \in {"MIN", "MAX", "LIMIT", "SEL", "MUX"} /\ e.type = "REAL"
                             /\ \E i \in DOMAIN e.args : e.args[i].type \in IntTypes
    [] e.op = "unary"  -> Mixes(e.x)
    [] e.op = "binary" -> Mixes(e.l) \/ Mixes(e.r)
    [] OTHER           -> FALSE

(* The kinds of Python object the engine may keep in a variable of a type. *)
KindsOf(t) == CASE t = "BOOL"            -> {"bool"}
                [] t \in IntTypes        -> {"int"}
                [] t \in {"REAL","TIME"} -> {"real"}
                [] t = "STRING"          -> {"str"}

(* Type soundness: a program the compiler accepts never fails inside the
   engine (a fault is a division by zero, a domain error or an endless loop),
   and leaves a value of its type in every variable, an INT within 32 bits;
   the branches of a mixed MIN, MAX, ... come out unconverted. *)
TypesAreKept ==
  phase = "ran" =>
    /\ result.sig \in {"go", "div_zero", "math", "loop"}
    /\ \A n \in Locals :
         LET v == result.ctx.store.local[n]
         IN  \/ /\ v.k \in KindsOf(prog.syms[n].type)
                /\ v.k = "int" /\ src.family = "typed" => v.n \in IntMin..IntMax
             \/ /\ v.k = "int" /\ prog.syms[n].type = "REAL"
                /\ \E i \in DOMAIN prog.nodes : prog.nodes[i].op = "assign" /\ Mixes(prog.nodes[i].expr)

(* A source of family "divide" computes q := a / b and m := a MOD b.  The two
   belong together at every pair of values: the remainder has the sign of the
   dividend and is smaller than the divisor, and b times q plus m is a again,
   but for the one quotient that does not fit and wraps (idiv, imod). *)
DivisionIdentity ==
  src.family = "divide" /\ phase = "ran" =>
    LET q == result.ctx.store.local["q"].n
        m == result.ctx.store.local["m"].n
    IN  IF src.b = 0 THEN result.sig = "div_zero" /\ q = 0 /\ m = 0
        ELSE /\ result.sig = "go"
             /\ m # 0 => (m < 0) = (src.a < 0)
             /\ Abs(m) < Abs(src.b)
             /\ IF src.a = IntMin /\ src.b = -1 THEN q = IntMin ELSE src.b * q + m = src.a

(* A source of family "for" counts in n the turns of a loop over i from
   src.lo to src.hi by src.by whose body also overwrites the limit variable.
   The limits are taken once; the loop makes the turns that the integers call
   for, a step of zero and more than LoopLimit turns are the loop fault, and a
   limit at the end of the INT range still ends the loop. *)
Turns == CASE src.by > 0 -> IF src.lo > src.hi THEN 0 ELSE (src.hi - src.lo) \div src.by + 1
           [] src.by < 0 -> IF src.lo < src.hi THEN 0 ELSE (src.lo - src.hi) \div (-src.by) + 1
ForCounts ==
  src.family = "for" /\ phase = "ran" =>
    IF src.by = 0 THEN result.sig = "loop" /\ result.ctx.store.local["n"].n = 0
    ELSE IF Turns > LoopLimit THEN result.sig = "loop"
    ELSE /\ result.sig = "go"
         /\ result.ctx.store.local["n"].n = Wrap(Turns)
         /\ result.ctx.store.local["i"].n = src.lo + Turns * src.by

-----------------------------------------------------------------------------
(* errors.py and docs/plc-language.md promise that the compiler recovers and
   keeps going: every turn of a loop of the parser reads a token. *)
EveryTurnReads == [][ReadDecl \/ ReadStmt => s'.i > s.i]_vars
=============================================================================
