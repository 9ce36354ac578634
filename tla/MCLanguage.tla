----------------------------- MODULE MCLanguage -----------------------------
(* Sources for StGrammar, one family per question.                          *)
EXTENDS StGrammar

IntLit(i)  == [type |-> "INT", v |-> IntV(i)]
MCLiteral  == ("0" :> IntLit(0)) @@ ("1" :> IntLit(1)) @@ ("2" :> IntLit(2)) @@ ("3" :> IntLit(3))
              @@ ("4" :> IntLit(4)) @@ ("5" :> IntLit(5)) @@ ("6" :> IntLit(6)) @@ ("7" :> IntLit(7))
              @@ ("8" :> IntLit(8))
              @@ ("2.5" :> [type |-> "REAL", v |-> RealV(5, 2)])
              @@ ("T#1s" :> [type |-> "TIME", v |-> RealV(1, 1)])
MCMathFn(f, v) == RealV(1, 1)
MCTags == [run |-> [type |-> "BOOL", dir |-> "in"], valve |-> [type |-> "BOOL", dir |-> "out"]]

Program(vs, body) == <<"PROGRAM", "p">> \o vs \o body \o <<"END_PROGRAM">>
UpTo(S, n) == UNION {[1..k -> S] : k \in 1..n}

(* Expressions over two alphabets; nothing is declared, they are only parsed. *)
Exprs(S, n) == {[family |-> "expr", expr |-> e, toks |-> Program(<<>>, <<"x", ":=">> \o e \o <<";">>)] :
                e \in UpTo(S, n)}
ExprSources == Exprs({"1", "-", "**", "*", "+", "(", ")"}, 5)
               \cup Exprs({"b", "NOT", "AND", "=", "<"}, 5) \cup Exprs({"b", "XOR", "OR", "AND"}, 5)

ChunkToks == ("IF" :> <<"IF", "b", "THEN">>) @@ ("ELSE" :> <<"ELSE">>) @@ ("END_IF" :> <<"END_IF", ";">>) @@
              ("WHILE" :> <<"WHILE", "b", "DO">>) @@ ("END_WHILE" :> <<"END_WHILE">>) @@
              ("REPEAT" :> <<"REPEAT">>) @@ ("UNTIL" :> <<"UNTIL", "b", "END_REPEAT", ";">>) @@
              ("CASE" :> <<"CASE", "x", "OF", "1", ",", "-", "2", "..", "3", ":">>) @@
              ("LABEL" :> <<"4", ":">>) @@ ("END_CASE" :> <<"END_CASE", ";">>) @@
              ("SET" :> <<"x", ":=", "1", ";">>) @@ ("BAD_NAME" :> <<"x", "1", ";">>) @@
              ("BAD_VALUE" :> <<"x", ":=", ";">>) @@ ("UNENDED" :> <<"x", ":=", "1">>)
TokensOf(body) == FoldLeft(LAMBDA acc, c : acc \o ChunkToks[c], <<>>, body)
BlockSources == {[family |-> "blocks", body |-> b, healthy |-> TokensOf(Recovered(b).kept),
                  toks |-> Program(<<>>, TokensOf(b))] :
                 b \in UpTo(DOMAIN ChunkToks, 4)
                       \cup [1..5 -> {"IF", "END_IF", "SET", "BAD_NAME", "UNENDED"}]
                       \cup [1..5 -> {"CASE", "LABEL", "END_CASE", "SET", "UNENDED"}]}

(* Typed assignments: every operator and function over operands of every type. *)
TypedDecls == <<"VAR", "x", ",", "y", ":", "INT", ":=", "3", ";", "r", ":", "LREAL", ":=", "-", "1", ";",
                "b", ":", "BOOL", ":=", "TRUE", ";", "t", ":", "TIME", ";", "END_VAR",
                "VAR_GLOBAL", "CONSTANT", "g", ":", "INT", ":=", "7", ";", "END_VAR",
                "VAR", "k", ":", "TON", ";", "END_VAR">>
Operands == {"x", "r", "b", "t", "g", "run", "SYS_TIME", "0", "2.5", "T#1s", "TRUE", "nowhere", "k"}
Infix    == {"+", "-", "*", "/", "MOD", "**", "=", "<", ">=", "<>", "AND", "OR", "XOR"}
Funcs2   == {"MIN", "MAX"}
TypedExprs ==
  {<<a, o, b>> : a \in Operands, o \in Infix, b \in Operands}
  \cup {<<u, a>> : u \in {"-", "+", "NOT"}, a \in Operands}
  \cup {<<f, "(", a, ")">> : f \in {"ABS", "SQRT", "LN", "EXP", "TRUNC", "REAL_TO_INT", "INT_TO_REAL",
                                    "BOOL_TO_INT", "TIME_TO_REAL", "REAL_TO_TIME", "TON"}, a \in Operands}
  \cup {<<f, "(", a, ",", b, ")">> : f \in Funcs2, a \in {"x", "r", "t", "0", "2.5"}, b \in {"x", "r", "t", "b"}}
  \cup {<<f, "(", g, ",", a, ",", b, ")">> : f \in {"SEL", "MUX", "LIMIT"}, g \in {"b", "x", "0", "r"},
                                             a \in {"x", "r", "2.5"}, b \in {"x", "r", "b"}}
  \cup {<<"k", ".", f>> : f \in {"Q", "ET", "PT", "CV"}}
TypedSources ==
  {[family |-> "typed", toks |-> Program(TypedDecls, <<v, ":=">> \o e \o <<";">>)] :
     v \in {"x", "r", "b", "t"}, e \in TypedExprs}
  \cup {[family |-> "typed", toks |-> Program(TypedDecls, <<v, ":=", a, ";">>)] :
     v \in {"valve", "run", "SYS_ABORT", "g", "k"}, a \in Operands}

(* Statements that compile, run and end in every way. *)
Bodies ==
  {<<"k", "(", "IN", ":=", "b", ",", "PT", ":=", "T#1s", ")", ";">>,
   <<"k", "(", "b", ",", "T#1s", ")", ";", "b", ":=", "k", ".", "Q", ";">>,
   <<"k", "(", "b", ",", "IN", ":=", "b", ")", ";">>,
   <<"k", ".", "PT", ":=", "T#1s", ";", "k", ".", "IN", ":=", "TRUE", ";">>,
   <<"x", "(", ")", ";">>,
   <<"k", ".", "Q", ":=", "TRUE", ";">>,
   <<"CASE", "x", "OF", "1", ":", "x", ":=", "0", ";", "2", "..", "3", ":", "x", ":=", "5", ";",
     "ELSE", "b", ":=", "FALSE", ";", "END_CASE", ";">>,
   <<"CASE", "x", "OF", "1", ":", "x", ":=", "0", ";", "1", "..", "3", ":", "x", ":=", "5", ";", "END_CASE">>,
   <<"IF", "x", ">", "5", "THEN", "x", ":=", "0", ";", "ELSIF", "b", "THEN", "x", ":=", "x", "+", "7",
     ";", "ELSE", "r", ":=", "1", ";", "END_IF", ";">>,
   <<"WHILE", "x", "<", "6", "DO", "x", ":=", "x", "+", "1", ";", "IF", "x", "=", "5", "THEN", "EXIT", ";",
     "END_IF", "END_WHILE", ";", "valve", ":=", "x", "=", "5", ";">>,
   <<"REPEAT", "x", ":=", "x", "-", "1", ";", "UNTIL", "x", "<", "0", "END_REPEAT", ";">>,
   <<"WHILE", "b", "DO", "x", ":=", "x", "+", "1", ";", "END_WHILE">>,
   <<"REPEAT", "RETURN", ";", "UNTIL", "TRUE", "END_REPEAT", ";", "x", ":=", "0", ";">>,
   <<"IF", "b", "THEN", "EXIT", ";", "END_IF">>,
   <<"FOR", "x", ":=", "1", "TO", "3", "DO", "IF", "x", "=", "2", "THEN", "RETURN", ";", "END_IF", "END_FOR">>}
BodySources == {[family |-> "body", toks |-> Program(TypedDecls, b)] : b \in Bodies}

Numeral == <<"0", "1", "2", "3", "4", "5", "6", "7", "8">>
Number8(i) == IF i < 0 THEN <<"-", Numeral[1 - i]>> ELSE <<Numeral[1 + i]>>
Var1(n, i) == <<n, ":", "INT", ":=">> \o Number8(i) \o <<";">>

DivideSources ==
  {[family |-> "divide", a |-> a, b |-> b,
    toks |-> Program(<<"VAR">> \o Var1("a", a) \o Var1("b", b) \o <<"q", ",", "m", ":", "DINT", ";", "END_VAR">>,
                     <<"q", ":=", "a", "/", "b", ";", "m", ":=", "a", "MOD", "b", ";">>)] :
   a \in IntMin..IntMax, b \in IntMin..IntMax}

ForSources ==
  {[family |-> "for", lo |-> lo, hi |-> hi, by |-> by,
    toks |-> Program(<<"VAR">> \o Var1("h", hi) \o <<"i", ",", "n", ":", "INT", ";", "END_VAR">>,
                     <<"FOR", "i", ":=">> \o Number8(lo) \o <<"TO", "h">>
                     \o (IF by = 1 THEN <<>> ELSE <<"BY">> \o Number8(by))
                     \o <<"DO", "n", ":=", "n", "+", "1", ";", "h", ":=", "0", ";", "END_FOR", ";">>)] :
   lo \in {-8, -3, 0, 1, 7}, hi \in {-8, -1, 0, 4, 7}, by \in {-3, -1, 0, 1, 2}}

(* Texts whose outer shape is wrong somewhere. *)
ShapeSources ==
  {[family |-> "shape", toks |-> t] :
   t \in {<<";", ";", "x", ":=", "1", ";">>, <<"PROGRAM", ";", "END_PROGRAM">>,
          <<"PROGRAM", "p", "x", ":=", "1", ";">>, <<"PROGRAM", "p", "END_PROGRAM", ";">>,
          <<"PROGRAM", "p", "VAR", "x", ":", "INT", ";">>,
          <<"PROGRAM", "p", "VAR_INPUT", "x", ":", "INT", ";", "END_VAR", "END_PROGRAM">>,
          <<"PROGRAM", "p", "VAR", "x", "INT", ";", "y", ":", "1", ";", "z", ":", "BOOL", ":=", ";",
            "END_VAR", "END_PROGRAM">>,
          <<"PROGRAM", "p", "VAR", "x", ":", "INT", ";", "x", ":", "REAL", ";", "END_VAR", "END_PROGRAM">>,
          <<"PROGRAM", "p", "VAR", "run", ":", "INT", ";", "END_VAR", "END_PROGRAM">>,
          <<"PROGRAM", "p", "VAR", "x", ":", "PUMP", ";", "END_VAR", "END_PROGRAM">>,
          <<"PROGRAM", "p", "VAR", "CONSTANT", "x", ":", "INT", ";", "END_VAR", "END_PROGRAM">>,
          <<"PROGRAM", "p", "VAR", "k", ":", "TON", ":=", "1", ";", "END_VAR", "END_PROGRAM">>}}

MCSources == ExprSources \cup BlockSources \cup TypedSources \cup BodySources
             \cup DivideSources \cup ForSources \cup ShapeSources

(* A block that a statement keyword interrupts. *)
OpenSources == {[family |-> "shape",
                 toks |-> <<"PROGRAM", "p", "VAR", "x", ":", "BOOL", ";",
                            "IF", "x", "THEN", "END_IF", ";", "END_PROGRAM">>]}
=============================================================================
