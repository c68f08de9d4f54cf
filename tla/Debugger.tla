------------------------------ MODULE Debugger ------------------------------
(***************************************************************************)
(* The debug adapter of src/dap/mod.rs.  Two threads share a filter (mode  *)
(* and breakpoints) and two channels of capacity one: the wasm thread runs *)
(* the program, which fires at every mark, sends the stops the filter lets *)
(* through and blocks until resumed; the loop of `run' answers the editor  *)
(* and, while the program runs, waits for the next stop.  The wasm thread  *)
(* starts before the editor has said anything.                             *)
(***************************************************************************)
EXTENDS Naturals, Sequences

CONSTANTS
  Marks,    \* the debug marks, one per breakpoint installed
  Start,    \* the beginning of the program
  Flow,     \* the program: the marks that may fire next after each
  Files,    \* the paths an editor sets breakpoints in
  Lines,
  FileOf,   \* the path of each mark's module, one outside Files if it has none
  LineOf,   \* the source line of each mark
  Exit,     \* the frame with pc = u32::MAX that announces termination
  Codes,    \* what main may return, 0 included
  None

ASSUME ProgramAssumption ==
  /\ Start \notin Marks /\ Exit \notin Marks
  /\ Flow \in [Marks \cup {Start} -> SUBSET Marks]
  /\ LineOf \in [Marks -> Lines]
  /\ DOMAIN FileOf = Marks
  /\ 0 \in Codes /\ None \notin Codes

VARIABLES
  mode,        \* HandlerState.mode: "step" is StepAny, "continue" ContinueUntilUserBp
  bps,         \* HandlerState.user_bps
  stopped,     \* the channel of stopped frames
  resume,      \* the number of resume commands in their channel
  loop,        \* what the loop of run does: poll, resume (send), wait (receive), join, ended
  why,         \* the request it serves: entry, start, continue or step
  onEntry,     \* stop_on_entry
  configured,  \* the editor has sent configurationDone, which it does once
  running,     \* the loop's flag: there is a stopped program to resume
  frame,       \* last_frame
  told,        \* the exit code in the Exited event, once sent
  wasm,        \* the wasm thread: run, offer (send), parked (receive), end, gone
  at,          \* the mark it fired last
  exit,        \* the shared exit code
  pos          \* history: the last mark passed without a stop, or reported

filter  == <<mode, bps>>
dapVars == <<loop, why, onEntry, configured, running, frame, told>>
wasmVars == <<wasm, at, exit>>
vars == <<filter, stopped, resume, dapVars, wasmVars, pos>>

Init ==
  /\ mode = "step" /\ bps = {}
  /\ stopped = <<>> /\ resume = 0
  /\ loop = "poll" /\ why = "start" /\ onEntry = FALSE /\ configured = FALSE
  /\ running = FALSE /\ frame = None /\ told = None
  /\ wasm = "run" /\ at = Start /\ exit = 0
  /\ pos = Start

\* mark_matches_user_bp
Matches(m) == <<FileOf[m], LineOf[m]>> \in bps

-----------------------------------------------------------------------------
(* The wasm thread                                                         *)

\* mutant: the filter does not look at the mode.
FireFiltered(m) ==
  /\ wasm = "run" /\ m \in Flow[at]
  /\ at' = m
  /\ wasm' = IF Matches(m) THEN "offer" ELSE "run"
  /\ pos' = IF wasm' = "run" THEN m ELSE pos
  /\ UNCHANGED <<filter, stopped, resume, dapVars, exit>>

\* A mark fires: handle consults the filter and, if it hides the stop, returns.
Fire(m) ==
  /\ wasm = "run" /\ m \in Flow[at]
  /\ at' = m
  /\ wasm' = IF mode = "step" \/ Matches(m) THEN "offer" ELSE "run"
  /\ pos' = IF wasm' = "run" THEN m ELSE pos
  /\ UNCHANGED <<filter, stopped, resume, dapVars, exit>>

\* Otherwise it sends the frame ...
Offer ==
  /\ wasm = "offer" /\ stopped = <<>>
  /\ stopped' = <<at>>
  /\ wasm' = "parked"
  /\ UNCHANGED <<filter, resume, dapVars, at, exit, pos>>

\* mutant: the command is left in the channel.
WakePeek ==
  /\ wasm = "parked" /\ resume > 0
  /\ wasm' = "run"
  /\ UNCHANGED <<filter, stopped, resume, dapVars, at, exit, pos>>

\* ... and blocks until there is a resume command.
Wake ==
  /\ wasm = "parked" /\ resume > 0
  /\ resume' = resume - 1
  /\ wasm' = "run"
  /\ UNCHANGED <<filter, stopped, dapVars, at, exit, pos>>

\* main's continuation records its result (host_invoke_cont). Frames below it may go on.
Result(code) ==
  /\ wasm = "run"
  /\ exit' = code
  /\ UNCHANGED <<filter, stopped, resume, dapVars, wasm, at, pos>>

\* The call of the entry wrapper returns or traps, with or without a result: a program that
\* yields to the host is not resumed.
Return ==
  /\ wasm = "run"
  /\ wasm' = "end"
  /\ UNCHANGED <<filter, stopped, resume, dapVars, at, exit, pos>>

\* mutant: the thread announces its end on the way out, before the result is recorded.
TerminateEarly ==
  /\ wasm \in {"run", "end"} /\ stopped = <<>>
  /\ stopped' = <<Exit>>
  /\ wasm' = IF wasm = "end" THEN "gone" ELSE "run"
  /\ UNCHANGED <<filter, resume, dapVars, at, exit, pos>>

\* The thread's last statement: the frame that announces termination.
Terminate ==
  /\ wasm = "end" /\ stopped = <<>>
  /\ stopped' = <<Exit>>
  /\ wasm' = "gone"
  /\ UNCHANGED <<filter, resume, dapVars, at, exit, pos>>

\* The thread panics: its senders are dropped.
Panic ==
  /\ wasm = "run"
  /\ wasm' = "gone"
  /\ UNCHANGED <<filter, stopped, resume, dapVars, at, exit, pos>>

-----------------------------------------------------------------------------
(* The loop of run: requests of the editor                                 *)

Launch(soe) ==
  /\ loop = "poll" /\ ~configured
  /\ onEntry' = soe
  /\ UNCHANGED <<filter, stopped, resume, loop, why, configured, running, frame, told,
                 wasmVars, pos>>

\* The breakpoints of one file are replaced by those on the lines that have a mark.
SetBreakpoints(file, lines) ==
  /\ loop = "poll"
  /\ bps' = {b \in bps : b[1] # file}
              \cup {file} \X (lines \cap {LineOf[m] : m \in Marks})
  /\ UNCHANGED <<mode, stopped, resume, dapVars, wasmVars, pos>>

ConfigurationDone ==
  /\ loop = "poll" /\ ~configured
  /\ configured' = TRUE
  /\ mode' = IF onEntry THEN "step" ELSE "continue"
  /\ why' = IF onEntry THEN "entry" ELSE "start"
  /\ running' = ~onEntry
  /\ loop' = "wait"
  /\ UNCHANGED <<bps, stopped, resume, onEntry, frame, told, wasmVars, pos>>

\* mutant: the loop waits without resuming.
ResumeForgotten(how) ==
  /\ loop = "poll" /\ running
  /\ mode' = how /\ why' = how
  /\ loop' = "wait"
  /\ UNCHANGED <<bps, stopped, resume, onEntry, configured, running, frame, told, wasmVars, pos>>

\* continue, or one of next, stepIn and stepOut: set the filter, then resume. With nothing
\* to resume the request is only answered.
Resume(how) ==
  /\ loop = "poll" /\ running
  /\ mode' = how /\ why' = how
  /\ loop' = "resume"
  /\ UNCHANGED <<bps, stopped, resume, onEntry, configured, running, frame, told, wasmVars, pos>>

\* disconnect, or the end of the input.
Disconnect ==
  /\ loop = "poll"
  /\ loop' = "join"
  /\ UNCHANGED <<filter, stopped, resume, why, onEntry, configured, running, frame, told,
                 wasmVars, pos>>

-----------------------------------------------------------------------------
(* The loop of run: while the program runs                                 *)

SendResume ==
  /\ loop = "resume" /\ resume = 0
  /\ resume' = 1
  /\ loop' = "wait"
  /\ UNCHANGED <<filter, stopped, why, onEntry, configured, running, frame, told, wasmVars, pos>>

\* mutant: the stop is reported before it is known not to be the end.
ReportAny ==
  /\ loop = "wait" /\ stopped # <<>>
  /\ why # "start" \/ Head(stopped) = Exit \/ Matches(Head(stopped))
  /\ stopped' = Tail(stopped)
  /\ frame' = Head(stopped) /\ pos' = Head(stopped)
  /\ running' = TRUE /\ loop' = "poll"
  /\ UNCHANGED <<filter, resume, why, onEntry, configured, told, wasmVars>>

\* mutant: the frame reported is not kept.
ReportUnkept ==
  /\ loop = "wait" /\ stopped # <<>> /\ Head(stopped) # Exit
  /\ why # "start" \/ Matches(Head(stopped))
  /\ stopped' = Tail(stopped)
  /\ pos' = Head(stopped)
  /\ running' = TRUE /\ loop' = "poll"
  /\ UNCHANGED <<filter, resume, why, onEntry, configured, frame, told, wasmVars>>

\* A stop is reported to the editor.
Report ==
  /\ loop = "wait" /\ stopped # <<>> /\ Head(stopped) # Exit
  /\ why # "start" \/ Matches(Head(stopped))
  /\ stopped' = Tail(stopped)
  /\ frame' = Head(stopped) /\ pos' = Head(stopped)
  /\ running' = TRUE /\ loop' = "poll"
  /\ UNCHANGED <<filter, resume, why, onEntry, configured, told, wasmVars>>

\* Run from start: the first mark may have fired before configurationDone set the filter,
\* and is resumed unless the user has a breakpoint there.
Skip ==
  /\ loop = "wait" /\ stopped # <<>> /\ Head(stopped) # Exit
  /\ why = "start" /\ ~Matches(Head(stopped))
  /\ stopped' = Tail(stopped)
  /\ pos' = Head(stopped)
  /\ loop' = "resume"
  /\ UNCHANGED <<filter, resume, why, onEntry, configured, running, frame, told, wasmVars>>

\* Termination is reported with the exit code.
ReportExit ==
  /\ loop = "wait" /\ stopped # <<>> /\ Head(stopped) = Exit
  /\ stopped' = Tail(stopped)
  /\ told' = exit
  /\ running' = FALSE /\ loop' = "join"
  /\ UNCHANGED <<filter, resume, why, onEntry, configured, frame, wasmVars, pos>>

\* The channel has no sender left. Waiting for the entry, the loop goes back to polling.
ChannelClosed ==
  /\ loop = "wait" /\ stopped = <<>> /\ wasm = "gone"
  /\ told' = IF why = "entry" THEN told ELSE exit
  /\ running' = FALSE
  /\ loop' = IF why = "entry" THEN "poll" ELSE "join"
  /\ UNCHANGED <<filter, stopped, resume, why, onEntry, configured, frame, wasmVars, pos>>

Join ==
  /\ loop = "join" /\ wasm = "gone"
  /\ loop' = "ended"
  /\ UNCHANGED <<filter, stopped, resume, why, onEntry, configured, running, frame, told,
                 wasmVars, pos>>

-----------------------------------------------------------------------------
Run ==
  \/ \E m \in Marks : Fire(m)
  \/ Offer \/ Wake \/ Return \/ Terminate \/ Panic

Wasm == Run \/ \E code \in Codes : Result(code)

Request ==
  \/ \E soe \in BOOLEAN : Launch(soe)
  \/ \E file \in Files, lines \in SUBSET Lines : SetBreakpoints(file, lines)
  \/ ConfigurationDone
  \/ Resume("continue") \/ Resume("step")
  \/ Disconnect

Serve == SendResume \/ Report \/ Skip \/ ReportExit \/ ChannelClosed \/ Join

Next == Wasm \/ Request \/ Serve

Spec == Init /\ [][Next]_vars

\* Both threads run on, and the program does more than record results. Nothing is assumed of
\* the editor.
FairSpec == Spec /\ WF_vars(Run) /\ WF_vars(Serve)

-----------------------------------------------------------------------------
(* Properties                                                              *)

\* Every variable has its type.
TypeOK ==
  /\ mode \in {"step", "continue"} /\ bps \subseteq Files \X Lines
  /\ stopped \in {<<>>} \cup {<<f>> : f \in Marks \cup {Exit}}
  /\ resume \in {0, 1}
  /\ loop \in {"poll", "resume", "wait", "join", "ended"}
  /\ why \in {"entry", "start", "continue", "step"}
  /\ onEntry \in BOOLEAN /\ configured \in BOOLEAN /\ running \in BOOLEAN
  /\ frame \in Marks \cup {None} /\ told \in Codes \cup {None}
  /\ wasm \in {"run", "offer", "parked", "end", "gone"}
  /\ at \in Marks \cup {Start} /\ exit \in Codes /\ pos \in Marks \cup {Start}

\* When the loop takes the editor's requests with a program to resume, the program stands
\* at the mark last reported, and no stop and no resume command is left over from before:
\* a stack trace shows where it is, and the next resume command resumes it once.
StandsWhereReported ==
  loop = "poll" /\ running =>
    wasm = "parked" /\ frame = at /\ stopped = <<>> /\ resume = 0

\* A resume command is never sent to a program that is not waiting for it: it could only
\* be used up by a later stop, which the editor would never see.
ResumeNeverStale == resume = 1 => wasm = "parked" /\ stopped = <<>>

\* The Exited event comes after the program's end and has the program's exit code.
ExitedIsOver == told # None => wasm = "gone" /\ told = exit

\* Threads that wait for each other: every request the editor makes is answered by a stop
\* or by the end of the session, if the program does not run forever.
RequestsAnswered == loop \in {"resume", "wait"} ~> loop \in {"poll", "join"}

\* What the editor sees of the session.
Phase ==
  CASE loop \in {"resume", "wait"} -> "running"
    [] loop = "poll" /\ ~configured -> "setup"
    [] loop = "poll" /\ configured /\ running -> "stopped"
    [] OTHER -> "over"

Session == INSTANCE DebugSession WITH
  Places  <- Files \X Lines,
  PlaceOf <- [m \in Marks |-> <<FileOf[m], LineOf[m]>>],
  goal    <- mode,
  phase   <- Phase

\* However the two threads interleave, and however late the editor is, the session is one
\* in which the program passes its marks in order and stops exactly where it should.
ImplementsSession == Session!Spec
=============================================================================
