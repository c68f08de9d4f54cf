------------------------------ MODULE Channels ------------------------------
(***************************************************************************)
(* The channels of pkgs/std/channels.fnk over the scheduler of             *)
(* pkgs/std/tasks.fnk.  A channel is a list of messages in the `channel'   *)
(* slot of the context.  send appends and pauses; recv takes the first     *)
(* message and, when there is none, pauses and polls again: a thread       *)
(* blocked in recv is never parked, it keeps queueing itself.              *)
(***************************************************************************)
EXTENDS Tasks, SequencesExt

CONSTANTS
  Chans,  \* the channels a program may make
  Msgs    \* the messages it may send, each at most once (the bound of the model)

ASSUME ChannelsAssumption == Noop \notin Chans /\ "pause" \in Ops

VARIABLES
  made,      \* the channels made
  messages,  \* ctx slot `channel': the messages of each channel
  polling,   \* the channel each thread is blocked on in recv, or Noop
  sent,      \* history: every message sent to each channel
  taken      \* history: every message received from each channel

chanVars == <<made, messages, polling, sent, taken>>
allVars  == <<vars, chanVars>>

ChanInit ==
  /\ Init
  /\ made = {}
  /\ messages = [c \in Chans |-> <<>>]
  /\ polling = [t \in Threads |-> Noop]
  /\ sent = [c \in Chans |-> <<>>]
  /\ taken = [c \in Chans |-> <<>>]

\* A thread that is not inside recv.
Free(t) == Running(t) /\ polling[t] = Noop

\* channel: a fresh id with no messages.
Channel(t, c) ==
  /\ Free(t) /\ c \notin made
  /\ made' = made \cup {c}
  /\ messages' = [messages EXCEPT ![c] = <<>>]
  /\ UNCHANGED <<vars, polling, sent, taken>>

\* mutant: the message is put in front.
SendInFront(t, c, m) ==
  /\ Free(t) /\ c \in made
  /\ \A d \in Chans : ~Contains(sent[d], m)
  /\ messages' = [messages EXCEPT ![c] = <<m>> \o @]
  /\ sent' = [sent EXCEPT ![c] = Append(@, m)]
  /\ Pause(t)
  /\ UNCHANGED <<made, polling, taken>>

\* send: add_message, then pause.
Send(t, c, m) ==
  /\ Free(t) /\ c \in made
  /\ \A d \in Chans : ~Contains(sent[d], m)
  /\ messages' = [messages EXCEPT ![c] = Append(@, m)]
  /\ sent' = [sent EXCEPT ![c] = Append(@, m)]
  /\ Pause(t)
  /\ UNCHANGED <<made, polling, taken>>

\* recv, or the next poll of a thread inside it.
Polls(t, c) == c \in made /\ Running(t) /\ polling[t] \in {Noop, c}

\* mutant: a single message does not match the pattern.
TakeOneOfTwo(t, c) ==
  /\ Polls(t, c) /\ Len(messages[c]) > 1
  /\ messages' = [messages EXCEPT ![c] = Tail(@)]
  /\ taken' = [taken EXCEPT ![c] = Append(@, Head(messages[c]))]
  /\ polling' = [polling EXCEPT ![t] = Noop]
  /\ UNCHANGED <<vars, made, sent>>

\* poll_msg with a message: it is taken off and returned.
Take(t, c) ==
  /\ Polls(t, c) /\ messages[c] # <<>>
  /\ messages' = [messages EXCEPT ![c] = Tail(@)]
  /\ taken' = [taken EXCEPT ![c] = Append(@, Head(messages[c]))]
  /\ polling' = [polling EXCEPT ![t] = Noop]
  /\ UNCHANGED <<vars, made, sent>>

\* mutant: the receiver suspends without queueing itself.
WaitSuspended(t, c) ==
  /\ Polls(t, c) /\ messages[c] = <<>>
  /\ polling' = [polling EXCEPT ![t] = c]
  /\ pc' = [pc EXCEPT ![t] = "suspended"]
  /\ YieldUnder(Noop)
  /\ UNCHANGED <<queue, futures, kont, pending, got, made, messages, sent, taken>>

\* poll_msg without one: the list is written back, and the thread pauses before it polls
\* again.
Wait(t, c) ==
  /\ Polls(t, c) /\ messages[c] = <<>>
  /\ polling' = [polling EXCEPT ![t] = c]
  /\ Pause(t)
  /\ UNCHANGED <<made, messages, sent, taken>>

ChanNext ==
  \/ \E t \in Threads : polling[t] = Noop /\ User(t) /\ UNCHANGED chanVars
  \/ polling[Main] = Noop /\ FinishMain /\ UNCHANGED chanVars
  \/ Scheduler /\ UNCHANGED chanVars
  \/ Host /\ UNCHANGED chanVars
  \/ \E t \in Threads, c \in Chans :
       \/ Channel(t, c)
       \/ \E m \in Msgs : Send(t, c, m)
       \/ Take(t, c)
       \/ Wait(t, c)

ChanSpec == ChanInit /\ [][ChanNext]_allVars

\* The instance is one machine that keeps executing, and user code between two calls of
\* the API ends.
FairChanSpec == ChanSpec /\ WF_allVars(ChanNext)

-----------------------------------------------------------------------------
(* Properties                                                              *)

\* The messages received from a channel, by whomever and however the receivers' polls
\* interleave, are those sent to it in the order they were sent: none is lost, duplicated
\* or overtaken.
Fifo == \A c \in Chans : sent[c] = taken[c] \o messages[c]

\* A program with a thread blocked in recv does not end and is never idle: the host gets
\* control only when main has returned.
BlockedRecvNeverIdles ==
  at \in {"driver", "exited"} /\ pc[Main] # "done" => \A t \in Threads : polling[t] = Noop

\* While somebody is blocked on a channel its first message is eventually received, unless
\* the program ends or traps.
MessageReceived ==
  \A c \in Chans, m \in Msgs :
    (messages[c] # <<>> /\ Head(messages[c]) = m /\ \E t \in Threads : polling[t] = c)
      ~> (Contains(taken[c], m) \/ at \in {"exited", "trapped"})
=============================================================================
