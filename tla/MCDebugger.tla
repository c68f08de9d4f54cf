----------------------------- MODULE MCDebugger -----------------------------
(* A small program: four marks in two files and one in no file the editor knows. *)
EXTENDS Debugger

ProgramMarks == {"a1", "a2", "a3", "b1", "x"}

\* Two ways through the program, one of them through the other module; two marks on a line.
ProgramFlow == [m \in ProgramMarks \cup {"start"} |->
  CASE m = "start" -> {"a1", "x"}
    [] m = "x"     -> {"a1"}
    [] m = "a1"    -> {"a2", "b1"}
    [] m = "b1"    -> {"a2", "a3"}
    [] m = "a2"    -> {"a3"}
    [] OTHER       -> {}]

MarkFile == [m \in ProgramMarks |->
  CASE m \in {"a1", "a2", "a3"} -> "A" [] m = "b1" -> "B" [] OTHER -> "unknown"]

MarkLine == [m \in ProgramMarks |-> CASE m \in {"a1", "x"} -> 1 [] m = "b1" -> 3 [] OTHER -> 2]

ExitCodes == {0, 1}
=============================================================================
