----------------------------- MODULE StProgram -----------------------------
(***************************************************************************)
(* A structured-text program on its way from source to its first scan:     *)
(* parse_program of parser.py one turn of its loops at a time (a           *)
(* declaration, a statement), compile_program of program.py, and StBody's  *)
(* execute.  A source is a record: its tokens toks, and the family it      *)
(* belongs to with what a property of that family needs to know.           *)
(***************************************************************************)
EXTENDS StCompiler

CONSTANTS Sources, Tags    \* the programs compiled, the tag list

VARIABLES
  src,      \* the source being compiled
  phase,    \* header, vars, decl, stmts, parsed, rejected, compiled, ran
  s,        \* parser state of StParser; its node is the body so far
  named,    \* PROGRAM and a name were read
  block,    \* the VAR block being read: [global, constant]
  decls,    \* declarations read so far
  prog,     \* the compiled program: [syms, nodes, writes]
  result    \* how its first scan ended: [ctx, sig]

vars == <<src, phase, s, named, block, decls, prog, result>>

T == src.toks
NoProgram == [syms |-> << >>, nodes |-> <<>>, writes |-> {}]
NoResult  == [ctx |-> << >>, sig |-> "none"]
ClosedBlock == [global |-> FALSE, constant |-> FALSE]

Init ==
  /\ src \in Sources
  /\ phase = "header"
  /\ s = With(At(1), <<>>)
  /\ named = FALSE
  /\ block = ClosedBlock
  /\ decls = <<>>
  /\ prog = NoProgram
  /\ result = NoResult

(* PROGRAM and its name, after any semicolons. *)
ReadHeader ==
  LET i == CHOOSE i \in 1..(Len(T) + 1) : Tok(T, i) # ";" /\ \A j \in 1..(i-1) : T[j] = ";"
  IN  /\ phase = "header"
      /\ phase' = "vars"
      /\ CASE Tok(T, i) # "PROGRAM" -> s' = [s EXCEPT !.i = i] /\ named' = FALSE
           [] Tok(T, i) = "PROGRAM" /\ IsIdent(Tok(T, i + 1)) ->
                s' = [s EXCEPT !.i = i + 2] /\ named' = TRUE
           [] Tok(T, i) = "PROGRAM" /\ ~IsIdent(Tok(T, i + 1)) ->
                /\ s' = [s EXCEPT !.i = Sync(T, i + 1), !.errs = Append(@, i + 1)]
                /\ named' = FALSE
      /\ UNCHANGED <<src, block, decls, prog, result>>

(* parse_var_blocks: the keyword of a block, an unsupported kind being an
   error read on as VAR. *)
OpenVarBlock ==
  LET kw == Tok(T, s.i)
  IN  /\ phase = "vars"
      /\ kw \in VarBlocks \cup NoVarBlocks
      /\ phase' = "decl"
      /\ block' = [global |-> kw = "VAR_GLOBAL", constant |-> Tok(T, s.i + 1) = "CONSTANT"]
      /\ s' = [Accept(T, Adv(s), "CONSTANT")
                 EXCEPT !.errs = IF kw \in NoVarBlocks THEN Append(@, s.i) ELSE @]
      /\ UNCHANGED <<src, named, decls, prog, result>>

(* parse_var_decl: names, a colon, a type, an optional value, a semicolon.
   A list of names gives as many declarations. *)
RECURSIVE NameList(_, _)
NameList(st, names) ==
  IF ~IsIdent(Tok(T, st.i)) THEN Fail(st)
  ELSE LET more == Append(names, Tok(T, st.i))
       IN  IF Tok(T, st.i + 1) = "," THEN NameList(Adv(Adv(st)), more) ELSE With(Adv(st), more)

DeclTurn(st) ==
  Then(NameList(st, <<>>), LAMBDA ns : Expect(T, ns, ":", LAMBDA c :
    LET type == Tok(T, c.i)
    IN  IF type \in Operators \cup DOMAIN Literal \cup {"eof"} THEN Fail(c)
        ELSE LET init == IF Tok(T, c.i + 1) = ":=" THEN ParseExpr(T, Adv(Adv(c)))
                         ELSE With(Adv(c), PNone)
             IN  Expect(T, init, ";", LAMBDA q :
                   With(q, [k \in DOMAIN ns.node |->
                     [name |-> ns.node[k], type |-> type, init |-> init.node,
                      global |-> block.global, constant |-> block.constant]]))))

(* One turn of the loop over the declarations of a block. *)
ReadDecl ==
  LET r == DeclTurn(s)
  IN  /\ phase = "decl"
      /\ Tok(T, s.i) \notin {"END_VAR", "eof"}
      /\ IF r.ok THEN /\ decls' = decls \o r.node
                      /\ s' = With(r, s.node)
         ELSE /\ s' = [r EXCEPT !.ok = TRUE, !.i = Sync(T, r.i), !.node = s.node]
              /\ UNCHANGED decls
      /\ UNCHANGED <<src, phase, named, block, prog, result>>

CloseVarBlock ==
  /\ phase = "decl"
  /\ Tok(T, s.i) \in {"END_VAR", "eof"}
  /\ IF Tok(T, s.i) = "END_VAR"
     THEN s' = Adv(s) /\ phase' = "vars"
     ELSE s' = [s EXCEPT !.errs = Append(@, s.i)] /\ phase' = "stmts"
  /\ UNCHANGED <<src, named, block, decls, prog, result>>

StartBody ==
  /\ phase = "vars"
  /\ Tok(T, s.i) \notin VarBlocks \cup NoVarBlocks
  /\ phase' = "stmts"
  /\ UNCHANGED <<src, s, named, block, decls, prog, result>>

(* One turn of the outermost parse_stmts. *)
ReadStmt ==
  /\ phase = "stmts"
  /\ ~StmtsEnd(T, s.i, FALSE)
  /\ s' = StmtStep(T, s)
  /\ UNCHANGED <<src, phase, named, block, decls, prog, result>>

(* END_PROGRAM if there was a PROGRAM, and nothing behind it.  A program
   without a name is an error of compile_program. *)
EndProgram ==
  LET st   == IF named THEN Accept(T, s, "END_PROGRAM") ELSE s
      errs == (IF (named /\ st.i = s.i) \/ ~named THEN <<s.i>> ELSE <<>>)
              \o (IF Tok(T, st.i) # "eof" THEN <<st.i>> ELSE <<>>)
  IN  /\ phase = "stmts"
      /\ StmtsEnd(T, s.i, FALSE)
      /\ s' = [st EXCEPT !.errs = @ \o errs]
      /\ phase' = "parsed"
      /\ UNCHANGED <<src, named, block, decls, prog, result>>

(* compile_program: nothing is compiled of a text with errors, and nothing
   is kept of a program with errors. *)
Keep(env, body) ==
  LET good == s.errs = <<>> /\ ~env.bad /\ ~body.bad
  IN  /\ phase' = IF good THEN "compiled" ELSE "rejected"
      /\ prog' = IF good THEN [syms |-> env.syms, nodes |-> body.nodes, writes |-> body.writes]
                 ELSE NoProgram

Compile ==
  LET env == DeclareAll(NewEnv(Tags, {}), decls)
  IN  /\ phase = "parsed"
      /\ Keep(env, BodyNode(env, s.node))
      /\ UNCHANGED <<src, s, named, block, decls, result>>

NewStore(syms, scope) == [n \in {x \in DOMAIN syms : syms[x].scope = scope} |-> MakeValue(syms[n])]
TagStore(dir) == [n \in {x \in DOMAIN Tags : Tags[x].dir = dir} |-> DefaultValue(Tags[n].type)]

NewContext ==
  [store |-> [local |-> NewStore(prog.syms, "local"), global |-> NewStore(prog.syms, "global"),
              input |-> TagStore("in"), output |-> TagStore("out"),
              sys   |-> [n \in DOMAIN SysVars |-> DefaultValue(SysVars[n])]],
   dt |-> RealV(1, 1), steps |-> << >>, written |-> {}]

(* StBody.execute: RETURN ends the scan like the last statement. *)
Scan ==
  LET r == ExecList(NewContext, prog.nodes)
  IN  /\ phase = "compiled"
      /\ phase' = "ran"
      /\ result' = [r EXCEPT !.sig = IF @ = "return" THEN "go" ELSE @]
      /\ UNCHANGED <<src, s, named, block, decls, prog>>

Next == ReadHeader \/ OpenVarBlock \/ ReadDecl \/ CloseVarBlock \/ StartBody \/ ReadStmt
        \/ EndProgram \/ Compile \/ Scan

Spec == Init /\ [][Next]_vars
=============================================================================
