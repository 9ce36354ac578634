------------------------------- MODULE Ladder -------------------------------
(***************************************************************************)
(* Ladder programs: LadderCompiler and LadderRun with their recursion, a   *)
(* node inside a node and an element inside an element.                    *)
(***************************************************************************)
EXTENDS PlcValues, LadderDocs

RECURSIVE NetworkEl(_, _), RunElement(_, _, _)
Compile == INSTANCE LadderCompiler WITH NetworkEl <- NetworkEl
Run     == INSTANCE LadderRun WITH RunElement <- RunElement

NetworkEl(E, n)         == Compile!NodeEl(E, n)
RunElement(c, x, power) == Run!RunNode(c, x, power)
=============================================================================
