----------------------------- MODULE LadderRun ------------------------------
(***************************************************************************)
(* The flow of power through a rung: the run methods of ladder.py.  A flow *)
(* [ctx, power, sig] goes through an element.  RunElement, which Ladder    *)
(* defines, runs the elements inside an element; RunNode is one step of it.*)
(***************************************************************************)
EXTENDS Contexts

CONSTANT RunElement(_, _, _)    \* what an element leaves of a context and a power

Flow(c, power)    == [ctx |-> c, power |-> power, sig |-> "go"]
Broken(c, v)      == [ctx |-> c, power |-> FALSE, sig |-> v.k]

(* The operands of a ladder are literals and names. *)
Result(c, e) == IF e.op = "binary" THEN Combined(e.fn, Leaf(c, e.l), Leaf(c, e.r)) ELSE Leaf(c, e)
Reading(c, e, power) == IF e.op = "power" THEN BoolV(power) ELSE Result(c, e)

(* Mutant of RunContact: an edge memory that is kept only while there is power. *)
RunContactPowered(c, x, power) ==
  LET now == Truth(Result(c, x.expr))  prev == Truth(Load(c, "local", x.key))
      kept == IF power THEN Store(c, "local", x.key, BoolV(now)) ELSE c
  IN  CASE x.kind = "NO" -> Flow(c, power /\ now)
        [] x.kind = "NC" -> Flow(c, power /\ ~now)
        [] x.kind = "P"  -> Flow(kept, power /\ now /\ ~prev)
        [] x.kind = "N"  -> Flow(kept, power /\ ~now /\ prev)

RunContact(c, x, power) ==
  LET v    == Result(c, x.expr)
      now  == Truth(v)
      prev == Truth(Load(c, "local", x.key))
      kept == Store(c, "local", x.key, BoolV(now))
  IN  CASE IsFault(v) -> Broken(c, v)
        [] ~IsFault(v) /\ x.kind = "NO" -> Flow(c, power /\ now)
        [] ~IsFault(v) /\ x.kind = "NC" -> Flow(c, power /\ ~now)
        [] ~IsFault(v) /\ x.kind = "P"  -> Flow(kept, power /\ now /\ ~prev)
        [] ~IsFault(v) /\ x.kind = "N"  -> Flow(kept, power /\ ~now /\ prev)

RunCoil(c, x, power) ==
  LET put(b) == Flow(Store(c, x.scope, x.key, BoolV(b)), power)
  IN  CASE x.kind = "COIL"    -> put(power)
        [] x.kind = "NEGATED" -> put(~power)
        [] x.kind \in {"SET", "RESET"} -> IF power THEN put(x.kind = "SET") ELSE Flow(c, power)

(* A block runs with its inputs as given, stores its two outputs in order and
   passes its Q on, whatever power came in. *)
SetInputs(b, inputs) == [f \in DOMAIN b |-> IF f \in DOMAIN inputs THEN inputs[f] ELSE b[f]]
StoreOut(c, b, o) ==
  IF o.field = "none" THEN c ELSE Store(c, o.scope, o.key, Convert(o.conv, GetField(b, o.field)))
PassOn(c, x, b) == Flow(StoreOut(StoreOut(Store(c, "local", x.key, b), b, x.outs[1]), b, x.outs[2]), Truth(b.Q))
RunBlock(c, x, inputs) ==
  LET bad == {f \in DOMAIN inputs : IsFault(inputs[f])}
  IN  IF bad # {} THEN Broken(c, inputs[CHOOSE f \in bad : TRUE])
      ELSE PassOn(c, x, Execute(SetInputs(Load(c, "local", x.key), inputs), c.dt))

AsBool(v) == IF IsFault(v) THEN v ELSE BoolV(Truth(v))
RunTimer(c, x, power)   == RunBlock(c, x, [IN |-> AsBool(Reading(c, x.in, power)), PT |-> Result(c, x.pt)])
RunCounter(c, x, power) ==
  LET drive == AsBool(Reading(c, x.drive, power))  reset == AsBool(Result(c, x.reset))
  IN  RunBlock(c, x, IF x.fb = "CTU" THEN [CU |-> drive, R |-> reset, PV |-> Result(c, x.pv)]
                                     ELSE [CD |-> drive, LD |-> reset, PV |-> Result(c, x.pv)])

RunCompare(c, x, power) ==     \* Python's and: without power nothing is compared
  LET v == Result(c, x.expr)
  IN  IF ~power THEN Flow(c, FALSE) ELSE IF IsFault(v) THEN Broken(c, v) ELSE Flow(c, Truth(v))

RunStore(c, x, power) ==
  LET v == Convert(x.conv, Result(c, x.expr))
  IN  IF ~power THEN Flow(c, FALSE)
      ELSE IF IsFault(v) THEN Broken(c, v) ELSE Flow(Store(c, x.scope, x.key, v), TRUE)

(* The elements of a list in turn: power goes through a series from one to the
   next, every branch of a parallel gets the power of the node and any of them
   passes it on, and every rung of a body starts under power. *)
StartPower(kind, power) == CASE kind = "series" -> power [] kind = "parallel" -> FALSE [] kind = "rungs" -> TRUE
RunNext(kind, power, f, x) ==
  CASE f.sig # "go" -> f
    [] f.sig = "go" /\ kind = "series" -> RunElement(f.ctx, x, f.power)
    [] f.sig = "go" /\ kind = "rungs"  -> RunElement(f.ctx, x, TRUE)
    [] f.sig = "go" /\ kind = "parallel" ->
         LET g == RunElement(f.ctx, x, power) IN [g EXCEPT !.power = @ \/ f.power]
RunItems(kind, c, xs, power) ==
  LET flow[i \in 0 .. Len(xs)] == IF i = 0 THEN Flow(c, StartPower(kind, power))
                                  ELSE RunNext(kind, power, flow[i - 1], xs[i])
  IN  flow[Len(xs)]

RunNode(c, x, power) ==
  CASE x.el \in {"series", "parallel"} -> RunItems(x.el, c, x.items, power)
    [] x.el = "contact"  -> RunContact(c, x, power)
    [] x.el = "coil"     -> RunCoil(c, x, power)
    [] x.el = "timer"    -> RunTimer(c, x, power)
    [] x.el = "counter"  -> RunCounter(c, x, power)
    [] x.el = "compare"  -> RunCompare(c, x, power)
    [] x.el = "store"    -> RunStore(c, x, power)

(* LadderBody.execute. *)
RunRungs(c, rungs) == RunItems("rungs", c, rungs, TRUE)
=============================================================================
