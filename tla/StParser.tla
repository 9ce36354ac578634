------------------------------ MODULE StParser ------------------------------
(***************************************************************************)
(* The recursive-descent parser of parser.py over a sequence T of tokens.  *)
(* A token is its text; a literal stands for the value Literal gives it,   *)
(* any other word that is no keyword and no operator is an identifier.     *)
(*                                                                         *)
(* A parser state is a record of the result so far: the next token i, the  *)
(* tokens errs at which an error was reported, the node, and ok, which is  *)
(* FALSE while a _ParseError travels up to the next statement.             *)
(***************************************************************************)
EXTENDS PlcValues

CONSTANT Literal    \* token -> [type, v], the literals of the sources

StmtStart == {"IF", "CASE", "FOR", "WHILE", "REPEAT", "EXIT", "RETURN"}
BlockEnd  == {"END_IF", "END_CASE", "END_FOR", "END_WHILE", "END_REPEAT", "END_PROGRAM",
              "END_VAR", "ELSE", "ELSIF", "UNTIL", "THEN", "DO", "OF"}
VarBlocks == {"VAR", "VAR_GLOBAL", "VAR_RETAIN"}
NoVarBlocks == {"VAR_INPUT", "VAR_OUTPUT", "VAR_IN_OUT", "VAR_EXTERNAL", "VAR_TEMP"}
Keywords  == StmtStart \cup BlockEnd \cup VarBlocks \cup NoVarBlocks
             \cup {"PROGRAM", "CONSTANT", "TO", "BY", "AND", "OR", "XOR", "NOT", "MOD",
                   "TRUE", "FALSE"}
Operators == {"**", "<=", ">=", "<>", ":=", "..", "+", "-", "*", "/", "<", ">", "=", "(", ")",
              ",", ";", ":", ".", "&"}

(* The binary operators by level, loosest first; a level groups to the left. *)
LevelOps == <<{"OR"}, {"XOR"}, {"AND", "&"}, {"=", "<>"}, {"<", ">", "<=", ">="},
              {"+", "-"}, {"*", "/", "MOD"}>>

Tok(T, i)     == IF i <= Len(T) THEN T[i] ELSE "eof"
IsLiteral(t)  == t \in DOMAIN Literal
IsInt(t)      == IsLiteral(t) /\ Literal[t].type = "INT"
IsIdent(t)    == t \notin Keywords \cup Operators \cup DOMAIN Literal \cup {"eof"}

PLit(type, v)  == [p |-> "lit", type |-> type, v |-> v]
PName(name)    == [p |-> "name", name |-> name]
PMember(b, f)  == [p |-> "member", base |-> b, field |-> f]
PUnary(fn, x)  == [p |-> "unary", fn |-> fn, x |-> x]
PBin(fn, l, r) == [p |-> "bin", fn |-> IF fn = "&" THEN "AND" ELSE fn, l |-> l, r |-> r]

At(i)          == [ok |-> TRUE, i |-> i, errs |-> <<>>, node |-> PNone]
Adv(s)         == [s EXCEPT !.i = @ + 1]
With(s, node)  == [s EXCEPT !.node = node]
Fail(s)        == [s EXCEPT !.ok = FALSE, !.errs = Append(@, s.i)]
Then(s, next(_))          == IF s.ok THEN next(s) ELSE s
Expect(T, s, t, next(_))  == IF ~s.ok THEN s
                             ELSE IF Tok(T, s.i) = t THEN next(Adv(s)) ELSE Fail(s)
Accept(T, s, t)           == IF Tok(T, s.i) = t THEN Adv(s) ELSE s

(* sync: skip to the next statement, over a semicolon but not over a keyword. *)
SyncAtEnds(T, j) == Tok(T, j) \in BlockEnd \cup {";", "eof"}    \* Mutant of SyncAt: reads over IF, FOR, ...
SyncAt(T, j) == Tok(T, j) \in StmtStart \cup BlockEnd \cup {";", "eof"}
Sync(T, i) ==
  LET j == CHOOSE j \in i..(Len(T) + 1) : SyncAt(T, j) /\ \A k \in i..(j-1) : ~SyncAt(T, k)
  IN  IF Tok(T, j) = ";" THEN j + 1 ELSE j

-----------------------------------------------------------------------------
RECURSIVE ParseLevel(_, _, _), BinLoop(_, _, _), ParseUnary(_, _), ParsePower(_, _),
          ParsePrimary(_, _), Members(_, _), ArgList(_, _, _)

ParseExpr(T, s) == ParseLevel(T, s, 1)

ParseLevel(T, s, l) ==
  IF l > Len(LevelOps) THEN ParseUnary(T, s) ELSE BinLoop(T, ParseLevel(T, s, l + 1), l)

BinLoop(T, left, l) ==
  IF left.ok /\ Tok(T, left.i) \in LevelOps[l]
  THEN Then(ParseLevel(T, Adv(left), l + 1), LAMBDA r :
         BinLoop(T, With(r, PBin(Tok(T, left.i), left.node, r.node)), l))
  ELSE left

ParseUnary(T, s) ==
  IF Tok(T, s.i) \in {"-", "+", "NOT"}
  THEN Then(ParseUnary(T, Adv(s)), LAMBDA r : With(r, PUnary(Tok(T, s.i), r.node)))
  ELSE ParsePower(T, s)

ParsePowerOfPrimary(T, s) ==     \* Mutant of ParsePower: the exponent takes no sign and does not chain
  Then(ParsePrimary(T, s), LAMBDA b :
    IF Tok(T, b.i) = "**"
    THEN Then(ParsePrimary(T, Adv(b)), LAMBDA r : With(r, PBin("**", b.node, r.node)))
    ELSE b)

(* The exponent is a unary, so ** groups to the right and takes a sign. *)
ParsePower(T, s) ==
  Then(ParsePrimary(T, s), LAMBDA b :
    IF Tok(T, b.i) = "**"
    THEN Then(ParseUnary(T, Adv(b)), LAMBDA r : With(r, PBin("**", b.node, r.node)))
    ELSE b)

(* A chain of .field after a name, which the state already holds as its node. *)
Members(T, s) ==
  IF Tok(T, s.i) # "." THEN s
  ELSE IF ~IsIdent(Tok(T, s.i + 1)) THEN Fail(Adv(s))
  ELSE Members(T, With(Adv(Adv(s)), PMember(s.node, Tok(T, s.i + 1))))

(* Call arguments after the opening parenthesis; a name is "" if there is none. *)
ArgList(T, s, args) ==
  LET named == IsIdent(Tok(T, s.i)) /\ Tok(T, s.i + 1) = ":="
      name  == IF named THEN Tok(T, s.i) ELSE ""
  IN  Then(ParseExpr(T, IF named THEN Adv(Adv(s)) ELSE s), LAMBDA r :
        LET more == Append(args, [name |-> name, expr |-> r.node])
        IN  IF Tok(T, r.i) = "," THEN ArgList(T, Adv(r), more)
            ELSE Expect(T, r, ")", LAMBDA q : With(q, more)))

CallArgs(T, s) ==
  Expect(T, s, "(", LAMBDA r :
    IF Tok(T, r.i) = ")" THEN With(Adv(r), <<>>) ELSE ArgList(T, r, <<>>))

ParsePrimary(T, s) ==
  LET t == Tok(T, s.i)
  IN  CASE IsLiteral(t) -> With(Adv(s), PLit(Literal[t].type, Literal[t].v))
        [] t \in {"TRUE", "FALSE"} -> With(Adv(s), PLit("BOOL", BoolV(t = "TRUE")))
        [] t = "("      -> Then(ParseExpr(T, Adv(s)), LAMBDA r : Expect(T, r, ")", LAMBDA q : q))
        [] IsIdent(t)   ->
             IF Tok(T, s.i + 1) = "("
             THEN Then(CallArgs(T, Adv(s)), LAMBDA r :
                    With(r, [p |-> "call", name |-> t,
                             args |-> [k \in DOMAIN r.node |-> r.node[k].expr]]))
             ELSE Members(T, With(Adv(s), PName(t)))
        [] OTHER        -> Fail(s)

-----------------------------------------------------------------------------
RECURSIVE Stmts(_, _, _), ParseStmt(_, _), ElsIfs(_, _, _), CaseBranches(_, _, _), Labels(_, _, _)

(* parse_stmts up to a block end (every stop set of the parser is a part of
   BlockEnd); in a CASE branch also up to the next label.  The node is the
   list; an error in a statement ends that statement only. *)
AtLabel(T, i) == IsInt(Tok(T, i)) \/ (Tok(T, i) = "-" /\ IsInt(Tok(T, i + 1)))
StmtsEnd(T, i, inCase) == Tok(T, i) \in BlockEnd \cup {"eof"} \/ (inCase /\ AtLabel(T, i))

(* The state after one turn of the loop of parse_stmts. *)
StmtStep(T, s) ==
  IF Tok(T, s.i) = ";" THEN Adv(s)
  ELSE LET r == ParseStmt(T, s)
       IN  IF r.ok THEN With(r, Append(s.node, r.node))
           ELSE [r EXCEPT !.ok = TRUE, !.i = Sync(T, r.i), !.node = s.node]

Stmts(T, s, inCase) == IF StmtsEnd(T, s.i, inCase) THEN s ELSE Stmts(T, StmtStep(T, s), inCase)
Body(T, s)          == Stmts(T, With(s, <<>>), FALSE)

CaseConst(T, s) ==
  LET neg == Tok(T, s.i) = "-"
      r   == IF neg THEN Adv(s) ELSE s
  IN  IF ~IsInt(Tok(T, r.i)) THEN Fail(r)
      ELSE With(Adv(r), IF neg THEN -Literal[Tok(T, r.i)].v.n ELSE Literal[Tok(T, r.i)].v.n)

Labels(T, s, ranges) ==
  Then(CaseConst(T, s), LAMBDA lo :
    LET hi == IF Tok(T, lo.i) = ".." THEN CaseConst(T, Adv(lo)) ELSE lo
    IN  Then(hi, LAMBDA h :
          LET more == Append(ranges, <<lo.node, h.node>>)
          IN  IF Tok(T, h.i) = "," THEN Labels(T, Adv(h), more) ELSE With(h, more)))

CaseBranches(T, s, branches) ==
  IF Tok(T, s.i) \in {"END_CASE", "ELSE", "eof"} THEN With(s, branches)
  ELSE Then(Labels(T, s, <<>>), LAMBDA l :
         Expect(T, l, ":", LAMBDA q :
           LET b == Stmts(T, With(q, <<>>), TRUE)
           IN  CaseBranches(T, b, Append(branches, [ranges |-> l.node, body |-> b.node]))))

(* [ELSE statements] before the keyword that closes the block. *)
OrElse(T, s) == IF Tok(T, s.i) = "ELSE" THEN Body(T, Adv(s)) ELSE With(s, <<>>)
Close(T, s, kw, node) == Expect(T, s, kw, LAMBDA q : Accept(T, With(q, node), ";"))

ElsIfs(T, s, branches) ==     \* after IF or ELSIF: condition THEN statements
  Then(ParseExpr(T, s), LAMBDA c : Expect(T, c, "THEN", LAMBDA q :
    LET b    == Body(T, q)
        more == Append(branches, [cond |-> c.node, body |-> b.node])
    IN  IF Tok(T, b.i) = "ELSIF" THEN ElsIfs(T, Adv(b), more)
        ELSE LET o == OrElse(T, b)
             IN  Close(T, o, "END_IF", [p |-> "if", branches |-> more, orelse |-> o.node])))

ParseCase(T, s) ==
  Then(ParseExpr(T, s), LAMBDA c : Expect(T, c, "OF", LAMBDA q :
    Then(CaseBranches(T, q, <<>>), LAMBDA b :
      LET o == OrElse(T, b)
      IN  Close(T, o, "END_CASE", [p |-> "case", sel |-> c.node, branches |-> b.node,
                                   orelse |-> o.node]))))

ParseFor(T, s) ==
  IF ~IsIdent(Tok(T, s.i)) THEN Fail(s)
  ELSE Expect(T, Adv(s), ":=", LAMBDA a : Then(ParseExpr(T, a), LAMBDA lo :
    Expect(T, lo, "TO", LAMBDA b : Then(ParseExpr(T, b), LAMBDA hi :
      LET by == IF Tok(T, hi.i) = "BY" THEN ParseExpr(T, Adv(hi)) ELSE With(hi, PNone)
      IN  Expect(T, by, "DO", LAMBDA q :
            LET body == Body(T, q)
            IN  Close(T, body, "END_FOR",
                      [p |-> "for", var |-> Tok(T, s.i), start |-> lo.node, end |-> hi.node,
                       by |-> by.node, body |-> body.node]))))))

ParseWhile(T, s) ==
  Then(ParseExpr(T, s), LAMBDA c : Expect(T, c, "DO", LAMBDA q :
    LET b == Body(T, q)
    IN  Close(T, b, "END_WHILE", [p |-> "while", cond |-> c.node, body |-> b.node])))

ParseRepeat(T, s) ==
  LET b == Body(T, s)
  IN  Expect(T, b, "UNTIL", LAMBDA q : Then(ParseExpr(T, q), LAMBDA c :
        Close(T, c, "END_REPEAT", [p |-> "repeat", cond |-> c.node, body |-> b.node])))

(* A statement that starts with a name: a call or an assignment. *)
ParseNamed(T, s) ==
  LET t == Tok(T, s.i)
  IN  IF Tok(T, s.i + 1) = "("
      THEN Then(CallArgs(T, Adv(s)), LAMBDA r :
             Expect(T, r, ";", LAMBDA q : With(q, [p |-> "fb_call", name |-> t, args |-> r.node])))
      ELSE Then(Members(T, With(Adv(s), PName(t))), LAMBDA m :
             Expect(T, m, ":=", LAMBDA a : Then(ParseExpr(T, a), LAMBDA e :
               Expect(T, e, ";", LAMBDA q :
                 With(q, [p |-> "assign", target |-> m.node, expr |-> e.node])))))

ParseStmt(T, s) ==
  LET t == Tok(T, s.i)
  IN  CASE t = "IF"     -> ElsIfs(T, Adv(s), <<>>)
        [] t = "CASE"   -> ParseCase(T, Adv(s))
        [] t = "FOR"    -> ParseFor(T, Adv(s))
        [] t = "WHILE"  -> ParseWhile(T, Adv(s))
        [] t = "REPEAT" -> ParseRepeat(T, Adv(s))
        [] t \in {"EXIT", "RETURN"} -> Expect(T, Adv(s), ";", LAMBDA q :
                             With(q, [p |-> IF t = "EXIT" THEN "exit" ELSE "return"]))
        [] IsIdent(t)   -> ParseNamed(T, s)
        [] OTHER        -> Fail(s)
=============================================================================
