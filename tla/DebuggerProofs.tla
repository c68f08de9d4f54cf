--------------------------- MODULE DebuggerProofs ---------------------------
(***************************************************************************)
(* The safety of the debug adapter for every program, and that it          *)
(* implements DebugSession.                                                *)
(***************************************************************************)
EXTENDS Debugger, TLAPS

\* The filter lets the mark fired last through, or did before the session began.
Exposed == mode = "step" \/ Matches(at) \/ why = "start"

\* Where the wasm thread is, what is in the two channels and how far the editor's view is
\* behind: at most one of the channels is in use, and at most one mark is not yet known.
Flight ==
  \/ wasm = "run"    /\ stopped = <<>> /\ resume = 0 /\ at = pos
  \/ wasm = "offer"  /\ stopped = <<>> /\ resume = 0 /\ at \in Flow[pos] /\ Exposed
  \/ wasm = "parked" /\ stopped = <<at>> /\ resume = 0 /\ at \in Flow[pos] /\ Exposed
  \/ wasm = "parked" /\ stopped = <<>> /\ at = pos /\ at \in Marks
  \/ wasm = "end"    /\ stopped = <<>> /\ resume = 0
  \/ wasm = "gone"   /\ stopped \in {<<>>, <<Exit>>} /\ resume = 0

\* What the loop of run may rely on at each point.
Polls ==
  loop = "poll" =>
    /\ resume = 0
    /\ ~configured => mode = "step" /\ why = "start" /\ ~running
    /\ configured /\ ~running => wasm = "gone"
    /\ running => wasm = "parked" /\ stopped = <<>> /\ frame = at

Serves ==
  loop \in {"resume", "wait"} =>
    /\ configured
    /\ why = "start" => mode = "continue" /\ running
    /\ loop = "resume" => running /\ resume = 0 /\ wasm = "parked" /\ stopped = <<>>

Leaves == loop \in {"join", "ended"} => resume = 0 /\ (wasm = "run" => mode = "step")

IInv == TypeOK /\ Flight /\ Polls /\ Serves /\ Leaves /\ ExitedIsOver

-----------------------------------------------------------------------------

\* The invariant holds at the start.
LEMMA InitInv == Init => IInv
  BY ProgramAssumption
  DEF Init, IInv, TypeOK, Flight, Polls, Serves, Leaves, ExitedIsOver

\* What the loop can receive: the stop of a parked program one mark ahead, or its end.
LEMMA ReceivedStop ==
  ASSUME IInv, stopped # <<>>
  PROVE  /\ Tail(stopped) = <<>> /\ resume = 0
         /\ Head(stopped) = Exit => wasm = "gone"
         /\ Head(stopped) # Exit =>
              /\ wasm = "parked" /\ Head(stopped) = at
              /\ at \in Marks /\ at \in Flow[pos] /\ Exposed
<1>1. \A f : Head(<<f>>) = f /\ Tail(<<f>>) = <<>>
  OBVIOUS
<1>2. CASE wasm = "parked"
  <2>1. stopped = <<at>> /\ resume = 0 /\ at \in Flow[pos] /\ Exposed
    BY <1>2 DEF IInv, Flight
  <2>2. at \in Marks /\ at # Exit
    BY <2>1, ProgramAssumption DEF IInv, TypeOK
  <2>3. QED
    BY <1>1, <1>2, <2>1, <2>2
<1>3. CASE wasm # "parked"
  <2>1. stopped = <<Exit>> /\ wasm = "gone" /\ resume = 0
    BY <1>3 DEF IInv, Flight
  <2>2. QED
    BY <1>1, <2>1
<1>4. QED
  BY <1>2, <1>3

\* Every step preserves it.
LEMMA StepInv == IInv /\ [Next]_vars => IInv'
<1> SUFFICES ASSUME IInv, [Next]_vars PROVE IInv'
  OBVIOUS
<1> USE ProgramAssumption DEF IInv, filter, dapVars, wasmVars
<1>1. ASSUME NEW m \in Marks, Fire(m) PROVE IInv'
  BY <1>1 DEF Fire, TypeOK, Flight, Exposed, Matches, Polls, Serves, Leaves, ExitedIsOver
<1>2. ASSUME Offer PROVE IInv'
  BY <1>2 DEF Offer, TypeOK, Flight, Exposed, Matches, Polls, Serves, Leaves, ExitedIsOver
<1>3. ASSUME Wake PROVE IInv'
  BY <1>3 DEF Wake, TypeOK, Flight, Exposed, Matches, Polls, Serves, Leaves, ExitedIsOver
<1>4. ASSUME NEW code \in Codes, Result(code) PROVE IInv'
  BY <1>4 DEF Result, TypeOK, Flight, Exposed, Matches, Polls, Serves, Leaves, ExitedIsOver
<1>5. ASSUME Return PROVE IInv'
  BY <1>5 DEF Return, TypeOK, Flight, Exposed, Matches, Polls, Serves, Leaves, ExitedIsOver
<1>6. ASSUME Terminate PROVE IInv'
  BY <1>6 DEF Terminate, TypeOK, Flight, Exposed, Matches, Polls, Serves, Leaves, ExitedIsOver
<1>7. ASSUME Panic PROVE IInv'
  BY <1>7 DEF Panic, TypeOK, Flight, Exposed, Matches, Polls, Serves, Leaves, ExitedIsOver
<1>8. ASSUME NEW soe \in BOOLEAN, Launch(soe) PROVE IInv'
  BY <1>8 DEF Launch, TypeOK, Flight, Exposed, Matches, Polls, Serves, Leaves, ExitedIsOver
<1>9. ASSUME NEW file \in Files, NEW lines \in SUBSET Lines, SetBreakpoints(file, lines) PROVE IInv'
  BY <1>9 DEF SetBreakpoints, TypeOK, Flight, Exposed, Matches, Polls, Serves, Leaves, ExitedIsOver
<1>10. ASSUME ConfigurationDone PROVE IInv'
  BY <1>10 DEF ConfigurationDone, TypeOK, Flight, Exposed, Matches, Polls, Serves, Leaves, ExitedIsOver
<1>11. ASSUME NEW how \in {"continue", "step"}, Resume(how) PROVE IInv'
  BY <1>11 DEF Resume, TypeOK, Flight, Exposed, Matches, Polls, Serves, Leaves, ExitedIsOver
<1>12. ASSUME Disconnect PROVE IInv'
  BY <1>12 DEF Disconnect, TypeOK, Flight, Exposed, Matches, Polls, Serves, Leaves, ExitedIsOver
<1>13. ASSUME SendResume PROVE IInv'
  BY <1>13 DEF SendResume, TypeOK, Flight, Exposed, Matches, Polls, Serves, Leaves, ExitedIsOver
<1>14. ASSUME Report PROVE IInv'
  BY <1>14, ReceivedStop
  DEF Report, TypeOK, Flight, Exposed, Matches, Polls, Serves, Leaves, ExitedIsOver
<1>15. ASSUME Skip PROVE IInv'
  BY <1>15, ReceivedStop
  DEF Skip, TypeOK, Flight, Exposed, Matches, Polls, Serves, Leaves, ExitedIsOver
<1>16. ASSUME ReportExit PROVE IInv'
  BY <1>16, ReceivedStop
  DEF ReportExit, TypeOK, Flight, Exposed, Matches, Polls, Serves, Leaves, ExitedIsOver
<1>17. ASSUME ChannelClosed PROVE IInv'
  BY <1>17 DEF ChannelClosed, TypeOK, Flight, Exposed, Matches, Polls, Serves, Leaves, ExitedIsOver
<1>18. ASSUME Join PROVE IInv'
  BY <1>18 DEF Join, TypeOK, Flight, Exposed, Matches, Polls, Serves, Leaves, ExitedIsOver
<1>19. CASE UNCHANGED vars
  BY <1>19 DEF vars, TypeOK, Flight, Exposed, Matches, Polls, Serves, Leaves, ExitedIsOver
<1>20. QED
  BY <1>1, <1>2, <1>3, <1>4, <1>5, <1>6, <1>7, <1>8, <1>9, <1>10,
     <1>11, <1>12, <1>13, <1>14, <1>15, <1>16, <1>17, <1>18, <1>19
  DEF Next, Wasm, Run, Request, Serve

\* The strengthened invariant holds throughout.
THEOREM DebuggerInvariant == Spec => []IInv
  BY InitInv, StepInv, PTL DEF Spec

\* Every variable keeps its type.
THEOREM DebuggerTypeCorrect == Spec => []TypeOK
<1>1. IInv => TypeOK
  BY DEF IInv
<1>2. QED
  BY <1>1, DebuggerInvariant, PTL

\* A program the editor may resume stands at the mark last reported.
THEOREM StandsWhereReportedAlways == Spec => []StandsWhereReported
<1>1. IInv => StandsWhereReported
  BY DEF IInv, Polls, StandsWhereReported
<1>2. QED
  BY <1>1, DebuggerInvariant, PTL

\* No resume command outlives the stop it was meant for.
THEOREM ResumeIsNeverStale == Spec => []ResumeNeverStale
<1>1. IInv => ResumeNeverStale
  BY DEF IInv, Flight, ResumeNeverStale
<1>2. QED
  BY <1>1, DebuggerInvariant, PTL

\* Exited follows the end of the program and has its exit code.
THEOREM ExitedIsLast == Spec => []ExitedIsOver
<1>1. IInv => ExitedIsOver
  BY DEF IInv
<1>2. QED
  BY <1>1, DebuggerInvariant, PTL

-----------------------------------------------------------------------------

\* A breakpoint matches a mark if it is at the mark's place.
LEMMA MatchesIsPlace ==
  ASSUME NEW m \in Marks
  PROVE  Matches(m) <=> [k \in Marks |-> <<FileOf[k], LineOf[k]>>][m] \in bps
  BY DEF Matches

\* Every step of the adapter is one of the session or changes nothing an editor can see.
LEMMA StepSession == IInv /\ [Next]_vars => [Session!Next]_Session!vars
<1> SUFFICES ASSUME IInv, [Next]_vars PROVE Session!Next \/ UNCHANGED Session!vars
  BY DEF Session!vars
<1> USE DEF IInv, filter, dapVars, wasmVars
<1>1. ASSUME NEW m \in Marks, Fire(m) PROVE Session!Next \/ UNCHANGED Session!vars
  <2>1. UNCHANGED <<mode, bps, Phase>>
    BY <1>1 DEF Fire, Phase
  <2>2. CASE wasm' = "run"
    <3>1. mode = "continue" /\ ~Matches(m) /\ m \in Flow[pos] /\ pos' = m
      BY <1>1, <2>2 DEF Fire, TypeOK, Flight
    <3>2. Phase = "running"
      BY <1>1, <3>1 DEF Fire, Phase, TypeOK, Polls, Leaves
    <3>3. Session!Pass(m)
      BY <2>1, <3>1, <3>2, MatchesIsPlace DEF Session!Pass
    <3>4. QED
      BY <3>3 DEF Session!Next
  <2>3. CASE wasm' # "run"
    BY <1>1, <2>1, <2>3 DEF Fire, Session!vars
  <2>4. QED
    BY <2>2, <2>3
<1>2. ASSUME Offer \/ Wake \/ Return \/ Terminate \/ Panic \/ \E code \in Codes : Result(code)
      PROVE  Session!Next \/ UNCHANGED Session!vars
  BY <1>2 DEF Offer, Wake, Return, Terminate, Panic, Result, Phase, Session!vars
<1>3. ASSUME NEW soe \in BOOLEAN, Launch(soe) PROVE Session!Next \/ UNCHANGED Session!vars
  BY <1>3 DEF Launch, Phase, Session!vars
<1>4. ASSUME NEW file \in Files, NEW lines \in SUBSET Lines, SetBreakpoints(file, lines)
      PROVE  Session!Next \/ UNCHANGED Session!vars
  <2>1. Phase # "running" /\ UNCHANGED <<Phase, mode, pos>>
    BY <1>4 DEF SetBreakpoints, Phase
  <2>2. bps' \in SUBSET (Files \X Lines)
    BY <1>4 DEF SetBreakpoints, TypeOK
  <2>3. QED
    BY <2>1, <2>2 DEF Session!Next, Session!Place
<1>5. ASSUME ConfigurationDone PROVE Session!Next \/ UNCHANGED Session!vars
  <2>1. Phase = "setup" /\ Phase' = "running"
    BY <1>5 DEF ConfigurationDone, Phase
  <2>2. Session!Go
    BY <1>5, <2>1 DEF ConfigurationDone, Session!Go
  <2>3. QED
    BY <2>2 DEF Session!Next
<1>6. ASSUME NEW how \in {"continue", "step"}, Resume(how)
      PROVE  Session!Next \/ UNCHANGED Session!vars
  <2>1. Phase = "stopped" /\ Phase' = "running"
    BY <1>6 DEF Resume, Phase, TypeOK, Polls
  <2>2. Session!Go
    BY <1>6, <2>1 DEF Resume, Session!Go
  <2>3. QED
    BY <2>2 DEF Session!Next
<1>7. ASSUME Disconnect \/ ReportExit PROVE Session!Next \/ UNCHANGED Session!vars
  <2>1. Phase' = "over" /\ UNCHANGED <<mode, bps, pos>>
    BY <1>7 DEF Disconnect, ReportExit, Phase
  <2>2. QED
    BY <2>1 DEF Session!Next, Session!Leave
<1>8. ASSUME ChannelClosed PROVE Session!Next \/ UNCHANGED Session!vars
  <2>1. Phase' = "over" /\ UNCHANGED <<mode, bps, pos>>
    BY <1>8 DEF ChannelClosed, Phase, Serves
  <2>2. QED
    BY <2>1 DEF Session!Next, Session!Leave
<1>9. ASSUME Report PROVE Session!Next \/ UNCHANGED Session!vars
  <2>1. at \in Marks /\ at \in Flow[pos] /\ pos' = at /\ (mode = "step" \/ Matches(at))
    BY <1>9, ReceivedStop DEF Report, Exposed
  <2>2. Phase = "running" /\ Phase' = "stopped" /\ UNCHANGED <<mode, bps>>
    BY <1>9 DEF Report, Phase, Serves
  <2>3. Session!Stop(at)
    BY <2>1, <2>2, MatchesIsPlace DEF Session!Stop
  <2>4. QED
    BY <2>1, <2>3 DEF Session!Next
<1>10. ASSUME Skip PROVE Session!Next \/ UNCHANGED Session!vars
  <2>1. at \in Marks /\ at \in Flow[pos] /\ pos' = at /\ mode = "continue" /\ ~Matches(at)
    BY <1>10, ReceivedStop DEF Skip, Serves
  <2>2. Phase = "running" /\ Phase' = "running" /\ UNCHANGED <<mode, bps>>
    BY <1>10 DEF Skip, Phase
  <2>3. Session!Pass(at)
    BY <2>1, <2>2, MatchesIsPlace DEF Session!Pass
  <2>4. QED
    BY <2>1, <2>3 DEF Session!Next
<1>11. ASSUME SendResume \/ Join PROVE Session!Next \/ UNCHANGED Session!vars
  BY <1>11 DEF SendResume, Join, Phase, Session!vars
<1>12. CASE UNCHANGED vars
  BY <1>12 DEF vars, Phase, Session!vars
<1>13. QED
  BY <1>1, <1>2, <1>3, <1>4, <1>5, <1>6, <1>7, <1>8, <1>9, <1>10, <1>11, <1>12
  DEF Next, Wasm, Run, Request, Serve

\* The adapter implements the session it promises the editor.
THEOREM AdapterImplementsSession == Spec => ImplementsSession
<1>1. Init => Session!Init
  BY DEF Init, Phase, Session!Init
<1>2. QED
  BY <1>1, StepSession, DebuggerInvariant, PTL DEF Spec, ImplementsSession, Session!Spec
=============================================================================
