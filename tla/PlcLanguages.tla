---------------------------- MODULE PlcLanguages ---------------------------
(***************************************************************************)
(* The languages as PlcRuntime sees them: a source compiles to a program   *)
(* [name, lang, bad, syms, code], and a program runs in a context.         *)
(***************************************************************************)
EXTENDS StCompiler, Ladder

(* compile_program, for the two languages. *)
StCode(env, tree) ==
  LET Code(body) == [bad |-> env.bad \/ body.bad, syms |-> env.syms, code |-> body.nodes]
  IN  Code(BodyNode(env, tree))
CompileProgram(tags, p) ==
  [name |-> p.name, lang |-> p.lang] @@
  IF p.lang = "LD" THEN Compile!CompileLadder(tags, p.doc)
  ELSE StCode(DeclareAll(NewEnv(tags, {}), p.decls), Body(p.toks, At(1)).node)

(* executable.execute: the context it leaves and the signal it ends with. *)
ExecuteProgram(c, p) == IF p.lang = "LD" THEN Run!RunRungs(c, p.code) ELSE ExecList(c, p.code)
=============================================================================
