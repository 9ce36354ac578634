------------------------------ MODULE MCRuntime ------------------------------
(* Plans for PlcHistory: one program list per question.                     *)
EXTENDS PlcHistory, PlcLanguages

MCTags == [start |-> [type |-> "BOOL", dir |-> "in"], enable |-> [type |-> "BOOL", dir |-> "in"],
           clear |-> [type |-> "BOOL", dir |-> "in"], level |-> [type |-> "INT", dir |-> "in"],
           valve |-> [type |-> "BOOL", dir |-> "out"], speed |-> [type |-> "REAL", dir |-> "out"]]
MCLiteral == ("0" :> [type |-> "INT", v |-> IntV(0)]) @@ ("1" :> [type |-> "INT", v |-> IntV(1)])
             @@ ("6" :> [type |-> "INT", v |-> IntV(6)])
MCMathFn(f, v) == RealV(1, 1)

Dec(n, type, global) == [name |-> n, type |-> type, init |-> PNone, global |-> global, constant |-> FALSE]
Lit(i)  == Value("INT", IntV(i))
Time(i) == Value("TIME", RealV(i, 1))
Contact(k, n)    == [t |-> "contact", kind |-> k, operand |-> Name(n), id |-> k \o n]
Coil(k, n)       == [t |-> "coil", kind |-> k, operand |-> Name(n)]
Timer(fb, i, pt, outs) == [t |-> "timer", fb |-> fb, instance |-> i, id |-> fb, pt |-> pt,
                           in |-> NoOperand, outs |-> outs]
Counter(fb, i, pv, reset, outs) ==
  [t |-> "counter", fb |-> fb, instance |-> i, id |-> fb, pv |-> pv, drive |-> NoOperand,
   reset |-> reset, outs |-> outs]
Math(fn, a, b, dst) == [t |-> "math", fn |-> fn, a |-> a, b |-> b, dst |-> dst]
Compare(fn, a, b) == [t |-> "compare", fn |-> fn, a |-> a, b |-> b]
Move(src, dst)    == [t |-> "move", src |-> src, dst |-> dst]
Rung(es)          == Series(es)
Doc(vs, rungs)    == [vars |-> vs, rungs |-> rungs]
Ld(name, doc)         == [name |-> name, lang |-> "LD", doc |-> doc]
St(name, decls, toks) == [name |-> name, lang |-> "ST", decls |-> decls, toks |-> toks]

Idle == [inputs |-> << >>, globals |-> << >>, forces |-> << >>, switched |-> {}, recovers |-> FALSE,
         dts |-> {RealV(1, 1)}]
Both01 == {BoolV(FALSE), BoolV(TRUE)}
Seconds(S) == {RealV(i, 1) : i \in S}

TimerDoc ==
  Doc(<<Dec("delay", "TIME", TRUE)>>,
      <<Rung(<<Contact("NO", "start"),
               Parallel(<<Timer("TON", "tn", Name("delay"), << >>), Timer("TOF", "tf", Name("delay"), << >>),
                          Timer("TP", "tp", Name("delay"), [Q |-> "valve"])>>)>>)>>)
TimerPlan ==
  [about |-> "timers", programs |-> <<Ld("ladder", TimerDoc)>>, scans |-> 5,
   inputs |-> [start |-> Both01], globals |-> [delay |-> Seconds({0, 1, 3})],
   dts |-> Seconds({1, 2}), switched |-> {"ladder"}]

(* The last rung divides by d, and rolls back what the others did if it is 0. *)
EdgeDoc ==
  Doc(<<Dec("n", "INT", FALSE), Dec("f", "INT", FALSE), Dec("q", "INT", FALSE), Dec("d", "INT", TRUE)>>,
      <<Rung(<<Contact("NO", "enable"), Contact("P", "start"), Math("ADD", Name("n"), Lit(1), "n")>>),
        Rung(<<Contact("NO", "enable"), Contact("N", "start"), Math("ADD", Name("f"), Lit(1), "f")>>),
        Rung(<<Contact("NO", "start"), Counter("CTU", "c", Lit(2), Name("clear"), << >>)>>),
        Rung(<<Math("DIV", Lit(6), Name("d"), "q")>>)>>)
EdgePlan ==
  [about |-> "edges", programs |-> <<Ld("ladder", EdgeDoc)>>, scans |-> 4, recovers |-> TRUE,
   inputs |-> [start |-> Both01, enable |-> Both01, clear |-> Both01],
   globals |-> [d |-> {IntV(0), IntV(1)}]]

(* Three programs that write the same global and output in turn and fail on
   their way, each on a value of its own. *)
StDecls == <<Dec("x", "INT", FALSE), Dec("shared", "INT", TRUE), Dec("d", "INT", TRUE)>>
FaultPrograms ==
  <<St("first", <<Dec("shared", "INT", TRUE), Dec("y", "INT", FALSE)>>,
       <<"valve", ":=", "enable", ";", "shared", ":=", "1", ";", "y", ":=", "6", "/", "level", ";">>),
    St("second", Append(StDecls, Dec("t", "CTU", TRUE)),
       <<"x", ":=", "x", "+", "1", ";", "shared", ":=", "shared", "+", "6", ";",
                    "t", "(", "CU", ":=", "start", ",", "PV", ":=", "1", ")", ";",
                    "valve", ":=", "t", ".", "Q", ";", "x", ":=", "6", "/", "d", ";">>),
    Ld("third", Doc(<<Dec("shared", "INT", TRUE), Dec("z", "REAL", FALSE)>>,
       <<Rung(<<Compare("GT", Name("shared"), Lit(1)), Coil("SET", "valve"),
                Move(Name("shared"), "speed"), Math("DIV", Value("REAL", RealV(1, 1)), Name("level"), "z")>>),
         Rung(<<Contact("NO", "SYS_ABORT"), Coil("RESET", "valve")>>)>>))>>
FaultPlan ==
  [about |-> "faults", programs |-> FaultPrograms, scans |-> 3, recovers |-> TRUE,
   inputs |-> [start |-> Both01, enable |-> {BoolV(TRUE)}, level |-> {IntV(2)}],
   globals |-> [d |-> {IntV(0), RealV(5, 2)}],
   forces |-> (<<"output", "", "valve">> :> {BoolV(TRUE)})]

ForcePlan ==
  [about |-> "forces", programs |-> FaultPrograms, scans |-> 1, recovers |-> TRUE,
   inputs |-> [start |-> Both01, level |-> {IntV(9)}], globals |-> [shared |-> {IntV(5)}],
   forces |-> (<<"input", "", "start">> :> Both01) @@ (<<"output", "", "speed">> :> {IntV(3)})
              @@ (<<"global", "", "shared">> :> {IntV(2)}) @@ (<<"global", "", "t">> :> {IntV(2)})
              @@ (<<"local", "second", "x">> :> {RealV(7, 2)})]

(* Documents of one rung, with every operand in every place. *)
Operands == {Name(n) : n \in {"start", "level", "SYS_TIME", "valve", "speed", "i", "r", "b", "tm", "c", "nowhere"}}
         \cup {Lit(3), Time(2), Value("REAL", RealV(5, 2))}
Goals == {"start", "valve", "speed", "i", "r", "b", "tm", "c"}
Elems ==
  {Math(fn, a, b, d) : fn \in {"ADD", "DIV"}, a \in Operands, b \in Operands, d \in {"speed", "i", "tm"}}
  \cup {Math("MUL", a, Lit(7), d) : a \in Operands, d \in Goals} \cup {Math("MOD", Lit(1), Lit(1), "i")}
  \cup {Move(a, d) : a \in Operands, d \in Goals}
  \cup {Compare(fn, a, b) : fn \in {"EQ", "LE"}, a \in Operands, b \in Operands}
  \cup {[Contact(k, "b") EXCEPT !.operand = a] : k \in {"NO", "NC", "P", "N", "X"}, a \in Operands}
  \cup {Coil(k, d) : k \in {"COIL", "NEGATED", "SET", "RESET", "X"}, d \in Goals}
  \cup {[Timer(fb, i, pt, outs) EXCEPT !.in = in] :
          fb \in {"TON", "TOF", "TP", "CTU"}, i \in {"", "t", "b"}, pt \in Operands, in \in {NoOperand, Name("level")},
          outs \in {<< >>} \cup {[Q |-> d] : d \in Goals} \cup {[ET |-> d] : d \in Goals}}
  \cup {[Counter(fb, i, pv, reset, outs) EXCEPT !.drive = drive] :
          fb \in {"CTU", "CTD"}, i \in {"", "c"}, pv \in Operands, reset \in {NoOperand, Name("r")},
          drive \in {NoOperand, Name("i")},
          outs \in {<< >>} \cup {[Q |-> d] : d \in Goals} \cup {[CV |-> d] : d \in Goals}}
  \cup {Parallel(<<>>), Parallel(<<Series(<<>>), Contact("NC", "b")>>)}
DocVars == <<Dec("i", "INT", FALSE), Dec("r", "REAL", TRUE), Dec("b", "BOOL", FALSE), Dec("tm", "TIME", FALSE),
             Dec("c", "CTU", FALSE)>>
DocPlans ==
  {[about |-> "docs", programs |-> <<Ld("ladder", Doc(DocVars, <<Rung(<<e, Coil("COIL", "valve")>>)>>))>>,
    scans |-> 2, inputs |-> [start |-> {BoolV(TRUE)}, level |-> {IntV(5)}]] : e \in Elems}
MCPlans == {p @@ Idle : p \in {TimerPlan, EdgePlan, FaultPlan, ForcePlan} \cup DocPlans}
=============================================================================
