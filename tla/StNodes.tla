------------------------------ MODULE StNodes ------------------------------
(***************************************************************************)
(* The executable nodes of nodes.py: evaluation of expressions and         *)
(* execution of statements, in the contexts of Contexts.                   *)
(***************************************************************************)
EXTENDS Contexts

CONSTANT LoopLimit    \* iterations a loop may make, LOOP_LIMIT = 10000 in the code

RECURSIVE Eval(_, _)
(* The operands from left to right; the first fault is the result. *)
EvalAll(c, es) ==
  LET vs  == [i \in DOMAIN es |-> Eval(c, es[i])]
      bad == {i \in DOMAIN es : IsFault(vs[i])}
  IN  [vs |-> vs, fault |-> IF bad = {} THEN "none"
                            ELSE vs[CHOOSE i \in bad : \A j \in bad : i <= j].k]

Eval(c, e) ==
  CASE e.op \in LeafOps -> Leaf(c, e)
    [] e.op = "unary" ->
         LET v == Eval(c, e.x)
         IN  IF IsFault(v) THEN v
             ELSE IF e.fn = "NOT" THEN BoolV(~Truth(v)) ELSE [v EXCEPT !.n = -v.n]
    [] e.op = "binary" -> Combined(e.fn, Eval(c, e.l), Eval(c, e.r))
    [] e.op \in {"and", "or"} ->           \* Python's short circuit
         LET l == Eval(c, e.l)
         IN  IF IsFault(l) \/ Truth(l) = (e.op = "or") THEN l ELSE Eval(c, e.r)
    [] e.op = "xor" ->
         LET r == EvalAll(c, <<e.l, e.r>>)
         IN  IF r.fault # "none" THEN FaultV(r.fault)
             ELSE BoolV(Truth(r.vs[1]) # Truth(r.vs[2]))
    [] e.op = "call" ->
         LET r == EvalAll(c, e.args)
         IN  IF r.fault # "none" THEN FaultV(r.fault) ELSE Call(e.fn, r.vs)

-----------------------------------------------------------------------------
(* A statement ends in a context and a signal: "go", "exit" (ExitSignal),   *)
(* "return" (ReturnSignal) or the kind of the fault it raised.              *)

Go(c)         == [ctx |-> c, sig |-> "go"]
Stop(c, sig)  == [ctx |-> c, sig |-> sig]
After(c, v, next(_)) == IF IsFault(v) THEN Stop(c, v.k) ELSE next(v)

InRange(n, ranges) == \E i \in DOMAIN ranges : ranges[i][1] <= n /\ n <= ranges[i][2]

RECURSIVE Exec(_, _), ExecList(_, _), Branch(_, _, _, _), ForLoop(_, _, _, _, _, _),
          WhileLoop(_, _, _), RepeatLoop(_, _, _), PassArgs(_, _, _)

ExecList(c, ss) ==
  IF ss = <<>> THEN Go(c)
  ELSE LET r == Exec(c, Head(ss)) IN IF r.sig = "go" THEN ExecList(r.ctx, Tail(ss)) ELSE r

(* If: the first branch whose condition holds, else the rest. *)
Branch(c, s, bs, i) ==
  IF i > Len(bs) THEN ExecList(c, s.orelse)
  ELSE After(c, Eval(c, bs[i].cond),
             LAMBDA v : IF Truth(v) THEN ExecList(c, bs[i].body) ELSE Branch(c, s, bs, i + 1))

ForLoopExclusive(c, s, i, end, step, n) ==      \* Mutant of ForLoop: leaves before the limit
  IF IF step.n > 0 THEN ~Less(i, end) ELSE ~Less(end, i) THEN Go(Store(c, s.scope, s.key, i))
  ELSE IF n >= LoopLimit THEN Stop(c, "loop")
  ELSE LET r == ExecList(Store(c, s.scope, s.key, i), s.body)
       IN  IF r.sig # "go" THEN r
           ELSE ForLoop(r.ctx, s, Kernel("add", Load(r.ctx, s.scope, s.key), step), end, step, n + 1)

(* The test comes first, the cap second, then the control variable is set;
   EXIT leaves it where the body left it. *)
ForLoop(c, s, i, end, step, n) ==
  IF IF step.n > 0 THEN Less(end, i) ELSE Less(i, end) THEN Go(Store(c, s.scope, s.key, i))
  ELSE IF n >= LoopLimit THEN Stop(c, "loop")
  ELSE LET r == ExecList(Store(c, s.scope, s.key, i), s.body)
       IN  CASE r.sig = "exit" -> Go(r.ctx)
             [] r.sig = "go"   -> ForLoop(r.ctx, s, Kernel("add", Load(r.ctx, s.scope, s.key), step),
                                          end, step, n + 1)
             [] OTHER          -> r

WhileLoop(c, s, n) ==
  After(c, Eval(c, s.cond), LAMBDA v :
    IF ~Truth(v) THEN Go(c)
    ELSE IF n >= LoopLimit THEN Stop(c, "loop")
    ELSE LET r == ExecList(c, s.body)
         IN  CASE r.sig = "exit" -> Go(r.ctx)
               [] r.sig = "go"   -> WhileLoop(r.ctx, s, n + 1)
               [] OTHER          -> r)

RepeatLoop(c, s, n) ==
  IF n >= LoopLimit THEN Stop(c, "loop")
  ELSE LET r == ExecList(c, s.body)
       IN  CASE r.sig = "exit" -> Go(r.ctx)
             [] r.sig = "go"   -> After(r.ctx, Eval(r.ctx, s.cond), LAMBDA v :
                                    IF Truth(v) THEN Go(r.ctx) ELSE RepeatLoop(r.ctx, s, n + 1))
             [] OTHER          -> r

(* FbCall: the inputs one by one, each stored before the next is evaluated,
   then the block runs. *)
PassArgs(c, s, i) ==
  LET b == Load(c, s.scope, s.key)
  IN  IF i > Len(s.args) THEN Go(Store(c, s.scope, s.key, Execute(b, c.dt)))
      ELSE After(c, Convert(s.args[i].conv, Eval(c, s.args[i].expr)), LAMBDA v :
             PassArgs(Store(c, s.scope, s.key, [b EXCEPT ![s.args[i].field] = v]), s, i + 1))

Exec(c, s) ==
  CASE s.op = "assign" ->
         After(c, Convert(s.conv, Eval(c, s.expr)), LAMBDA v : Go(Store(c, s.scope, s.key, v)))
    [] s.op = "assign_field" ->
         After(c, Convert(s.conv, Eval(c, s.expr)), LAMBDA v :
           Go(Store(c, s.scope, s.key, [Load(c, s.scope, s.key) EXCEPT ![s.field] = v])))
    [] s.op = "fb_call" ->
         After(c, IF s.key \in DOMAIN c.store[s.scope] THEN BoolV(TRUE) ELSE FaultV("internal"),
               LAMBDA v : PassArgs(c, s, 1))
    [] s.op = "if"   -> Branch(c, s, s.branches, 1)
    [] s.op = "case" ->
         After(c, Eval(c, s.sel), LAMBDA v :
           LET hit == {i \in DOMAIN s.branches : InRange(v.n, s.branches[i].ranges)}
           IN  ExecList(c, IF hit = {} THEN s.orelse
                           ELSE s.branches[CHOOSE i \in hit : \A j \in hit : i <= j].body))
    [] s.op = "for" ->
         LET r == EvalAll(c, <<s.start, s.end, s.step>>)
         IN  IF r.fault # "none" THEN Stop(c, r.fault)
             ELSE IF r.vs[3].n = 0 THEN Stop(c, "loop")
             ELSE ForLoop(c, s, r.vs[1], r.vs[2], r.vs[3], 0)
    [] s.op = "while"  -> WhileLoop(c, s, 0)
    [] s.op = "repeat" -> RepeatLoop(c, s, 0)
    [] s.op \in {"exit", "return"} -> Stop(c, s.op)
=============================================================================
