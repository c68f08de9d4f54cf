---------------------------- MODULE DebugSession ----------------------------
(***************************************************************************)
(* What the debug adapter promises an editor: the program goes from mark   *)
(* to mark in its own order; while it runs towards a breakpoint it passes  *)
(* no mark that has one, a step or a stop on entry stops at the very next  *)
(* mark, and the breakpoints change only while it stands still.            *)
(***************************************************************************)

CONSTANTS
  Marks,    \* the step-stops of the program
  Start,    \* where it begins
  Flow,     \* the marks that may come next after each
  PlaceOf,  \* file and line of each mark
  Places    \* the files and lines an editor knows

VARIABLES
  phase,  \* of the session
  goal,   \* what the running program is to stop at
  pos,    \* the last mark the program stopped at or passed
  bps     \* the breakpoints

vars == <<phase, goal, pos, bps>>

Init == phase = "setup" /\ goal = "step" /\ pos = Start /\ bps = {}

\* The session begins, or a stopped program is resumed.
Go ==
  /\ phase \in {"setup", "stopped"}
  /\ phase' = "running" /\ goal' \in {"step", "continue"}
  /\ UNCHANGED <<pos, bps>>

\* The editor replaces breakpoints.
Place ==
  /\ phase # "running" /\ bps' \in SUBSET Places
  /\ UNCHANGED <<phase, goal, pos>>

\* The program passes a mark.
Pass(m) ==
  /\ phase = "running" /\ goal = "continue" /\ m \in Flow[pos] /\ PlaceOf[m] \notin bps
  /\ pos' = m
  /\ UNCHANGED <<phase, goal, bps>>

\* The program stops at a mark.
Stop(m) ==
  /\ phase = "running" /\ m \in Flow[pos]
  /\ goal = "step" \/ PlaceOf[m] \in bps
  /\ pos' = m /\ phase' = "stopped"
  /\ UNCHANGED <<goal, bps>>

\* The program or the editor ends the session.
Leave == phase' = "over" /\ UNCHANGED <<goal, pos, bps>>

Next == Go \/ Place \/ (\E m \in Marks : Pass(m) \/ Stop(m)) \/ Leave

Spec == Init /\ [][Next]_vars
=============================================================================
