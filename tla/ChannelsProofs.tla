--------------------------- MODULE ChannelsProofs ---------------------------
(***************************************************************************)
(* A channel delivers what was sent to it, in order; a program with        *)
(* channels is a program of the scheduler, so all that is proved of Tasks  *)
(* holds of it; and while a thread is blocked in recv the program neither  *)
(* ends nor idles.  Proved for any threads, channels and messages.         *)
(***************************************************************************)
EXTENDS Channels, TasksProofs

-----------------------------------------------------------------------------
(* What is received is what was sent                                       *)

\* The strengthening the proof needs of Fifo: the three sequences of a channel are
\* sequences of messages, and empty before the channel is made (making it writes an
\* empty list over what the slot held).
Sequential ==
  /\ messages \in [Chans -> Seq(Msgs)]
  /\ sent \in [Chans -> Seq(Msgs)]
  /\ taken \in [Chans -> Seq(Msgs)]

UnmadeEmpty == \A c \in Chans \ made : sent[c] = <<>> /\ taken[c] = <<>> /\ messages[c] = <<>>

FifoInv == Sequential /\ UnmadeEmpty /\ Fifo

\* Moving the head of the second part to the end of the first keeps a concatenation.
LEMMA MoveHead ==
  ASSUME NEW S, NEW q \in Seq(S), NEW r \in Seq(S), r # <<>>
  PROVE  q \o r = Append(q, Head(r)) \o Tail(r)
<1> DEFINE moved == Append(q, Head(r)) \o Tail(r)
<1>1. Tail(r) \in Seq(S) /\ Len(Tail(r)) = Len(r) - 1 /\ Len(r) > 0
  OBVIOUS
<1>2. Append(q, Head(r)) \in Seq(S) /\ Len(Append(q, Head(r))) = Len(q) + 1
  OBVIOUS
<1>3. /\ q \o r \in Seq(S) /\ moved \in Seq(S)
      /\ Len(q \o r) = Len(q) + Len(r) /\ Len(moved) = Len(q) + Len(r)
  BY <1>1, <1>2
<1>4. ASSUME NEW i \in 1 .. Len(q) + Len(r)
      PROVE  (q \o r)[i] = moved[i]
  <2>1. CASE i <= Len(q)
    BY <2>1, <1>1, <1>2
  <2>2. CASE i = Len(q) + 1
    BY <2>2, <1>1, <1>2
  <2>3. CASE i > Len(q) + 1
    BY <2>3, <1>1, <1>2
  <2> QED BY <2>1, <2>2, <2>3
<1> QED BY <1>3, <1>4, SeqEqual

\* A name for concatenation under which a fact about Append and \o can be cited.
Joined(q, r) == q \o r

\* Appending to the second part of a concatenation appends to the whole.
LEMMA AppendRight ==
  ASSUME NEW S, NEW q \in Seq(S), NEW r \in Seq(S), NEW x \in S
  PROVE  Append(Joined(q, r), x) = Joined(q, Append(r, x))
<1>1. Append(q \o r, x) \in Seq(S) /\ q \o Append(r, x) \in Seq(S)
  OBVIOUS
<1>2. Len(Append(q \o r, x)) = Len(q) + Len(r) + 1 /\ Len(q \o Append(r, x)) = Len(q) + Len(r) + 1
  OBVIOUS
<1>3. ASSUME NEW i \in 1 .. Len(q) + Len(r) + 1
      PROVE  Append(q \o r, x)[i] = (q \o Append(r, x))[i]
  <2>1. CASE i <= Len(q)
    BY <2>1
  <2>2. CASE i > Len(q) /\ i <= Len(q) + Len(r)
    BY <2>2
  <2>3. CASE i = Len(q) + Len(r) + 1
    BY <2>3
  <2> QED BY <2>1, <2>2, <2>3
<1> QED BY <1>1, <1>2, <1>3, SeqEqual DEF Joined

\* No message has been sent to a channel before the program starts.
LEMMA InitFifoInv == ChanInit => FifoInv
<1> SUFFICES ASSUME ChanInit PROVE FifoInv
  OBVIOUS
<1>1. \A c \in Chans : messages[c] = <<>> /\ sent[c] = <<>> /\ taken[c] = <<>>
  BY DEF ChanInit
<1>2. <<>> \in Seq(Msgs) /\ <<>> = <<>> \o <<>>
  OBVIOUS
<1> QED BY <1>1, <1>2 DEF ChanInit, FifoInv, Sequential, UnmadeEmpty, Fifo

\* The operations of other threads leave the channels alone.
LEMMA IdleFifoInv ==
  ASSUME FifoInv, UNCHANGED chanVars
  PROVE  FifoInv'
BY DEF FifoInv, Sequential, UnmadeEmpty, Fifo, chanVars

\* A new channel has no messages, and nothing was sent to it before.
LEMMA ChannelFifoInv ==
  ASSUME FifoInv, NEW t \in Threads, NEW c \in Chans, Channel(t, c)
  PROVE  FifoInv'
<1>1. <<>> \in Seq(Msgs)
  OBVIOUS
<1>2. messages[c] = <<>> /\ messages' = [messages EXCEPT ![c] = <<>>] /\ made' = made \cup {c}
  BY DEF Channel, FifoInv, UnmadeEmpty
<1>3. messages' = messages /\ sent' = sent /\ taken' = taken
  BY <1>2 DEF Channel, FifoInv, Sequential
<1> QED BY <1>2, <1>3 DEF FifoInv, Sequential, UnmadeEmpty, Fifo

\* send appends to the history and to the list alike.
LEMMA SendFifoInv ==
  ASSUME FifoInv, NEW t \in Threads, NEW c \in Chans, NEW m \in Msgs, Send(t, c, m)
  PROVE  FifoInv'
<1>1. /\ messages' = [messages EXCEPT ![c] = Append(@, m)]
      /\ sent' = [sent EXCEPT ![c] = Append(@, m)]
      /\ taken' = taken /\ made' = made /\ c \in made
  BY DEF Send
<1>2. messages[c] \in Seq(Msgs) /\ sent[c] \in Seq(Msgs) /\ taken[c] \in Seq(Msgs)
  BY DEF FifoInv, Sequential
<1>3. Append(messages[c], m) \in Seq(Msgs) /\ Append(sent[c], m) \in Seq(Msgs)
  BY <1>2
<1>4. Sequential'
  BY <1>1, <1>3 DEF FifoInv, Sequential
<1>5. sent'[c] = taken'[c] \o messages'[c]
  <2>1. Append(Joined(taken[c], messages[c]), m) = Joined(taken[c], Append(messages[c], m))
    <3>1. \A q, r \in Seq(Msgs) : Append(Joined(q, r), m) = Joined(q, Append(r, m))
      BY AppendRight
    <3> QED BY <1>2, <3>1
  <2>2. sent[c] = Joined(taken[c], messages[c])
    BY DEF FifoInv, Fifo, Joined
  <2>3. sent'[c] = Joined(taken'[c], messages'[c])
    BY <1>1, <2>1, <2>2 DEF FifoInv, Sequential
  <2> QED BY <2>3 DEF Joined
<1>6. \A d \in Chans \ {c} : sent'[d] = sent[d] /\ messages'[d] = messages[d]
  BY <1>1 DEF FifoInv, Sequential
<1> QED BY <1>1, <1>4, <1>5, <1>6 DEF FifoInv, UnmadeEmpty, Fifo

\* A receiver moves the first message from the list to the history of those received.
LEMMA TakeFifoInv ==
  ASSUME FifoInv, NEW t \in Threads, NEW c \in Chans, Take(t, c)
  PROVE  FifoInv'
<1>1. /\ messages' = [messages EXCEPT ![c] = Tail(@)]
      /\ taken' = [taken EXCEPT ![c] = Append(@, Head(messages[c]))]
      /\ sent' = sent /\ made' = made /\ c \in made /\ messages[c] # <<>>
  BY DEF Take, Polls
<1>2. messages[c] \in Seq(Msgs) /\ sent[c] \in Seq(Msgs) /\ taken[c] \in Seq(Msgs)
  BY DEF FifoInv, Sequential
<1>3. Tail(messages[c]) \in Seq(Msgs) /\ Append(taken[c], Head(messages[c])) \in Seq(Msgs)
  BY <1>1, <1>2
<1>4. Sequential'
  BY <1>1, <1>3 DEF FifoInv, Sequential
<1>5. sent'[c] = taken'[c] \o messages'[c]
  <2>1. taken[c] \o messages[c] = Append(taken[c], Head(messages[c])) \o Tail(messages[c])
    BY <1>1, <1>2, MoveHead
  <2>2. sent[c] = taken[c] \o messages[c]
    BY DEF FifoInv, Fifo
  <2> QED BY <1>1, <2>1, <2>2 DEF FifoInv, Sequential
<1>6. \A d \in Chans \ {c} : taken'[d] = taken[d] /\ messages'[d] = messages[d]
  BY <1>1 DEF FifoInv, Sequential
<1> QED BY <1>1, <1>4, <1>5, <1>6 DEF FifoInv, UnmadeEmpty, Fifo

\* A receiver that finds nothing changes no list.
LEMMA WaitFifoInv ==
  ASSUME FifoInv, NEW t \in Threads, NEW c \in Chans, Wait(t, c)
  PROVE  FifoInv'
BY DEF Wait, FifoInv, Sequential, UnmadeEmpty, Fifo

\* The strengthened invariant holds of every reachable state.
THEOREM SpecFifoInv == ChanSpec => []FifoInv
<1>1. FifoInv /\ [ChanNext]_allVars => FifoInv'
  <2> SUFFICES ASSUME FifoInv, [ChanNext]_allVars PROVE FifoInv'
    OBVIOUS
  <2>1. CASE UNCHANGED chanVars
    BY <2>1, IdleFifoInv
  <2>2. CASE \E t \in Threads, c \in Chans : Channel(t, c)
    BY <2>2, ChannelFifoInv
  <2>3. CASE \E t \in Threads, c \in Chans, m \in Msgs : Send(t, c, m)
    BY <2>3, SendFifoInv
  <2>4. CASE \E t \in Threads, c \in Chans : Take(t, c)
    BY <2>4, TakeFifoInv
  <2>5. CASE \E t \in Threads, c \in Chans : Wait(t, c)
    BY <2>5, WaitFifoInv
  <2>6. CASE UNCHANGED allVars
    BY <2>6, <2>1 DEF allVars
  <2> QED BY <2>1, <2>2, <2>3, <2>4, <2>5, <2>6 DEF ChanNext
<1> QED BY <1>1, InitFifoInv, PTL DEF ChanSpec

\* What is received from a channel is what was sent to it, in order, with nothing lost,
\* duplicated or overtaken, however many threads poll it.
THEOREM ChannelsAreFifo == ChanSpec => []Fifo
<1>1. FifoInv => Fifo
  BY DEF FifoInv
<1> QED BY <1>1, SpecFifoInv, PTL

-----------------------------------------------------------------------------
(* Channels are built from the operations of the scheduler                 *)

\* Every step of a program with channels is a step of the scheduler, or leaves it alone:
\* send and a poll that finds nothing pause, the others do not touch it.
LEMMA ChanStepIsStep == [ChanNext]_allVars => [Next]_vars
<1> SUFFICES ASSUME [ChanNext]_allVars PROVE Next \/ UNCHANGED vars
  OBVIOUS
<1>1. CASE \E t \in Threads : User(t)
  BY <1>1 DEF Next
<1>2. CASE FinishMain \/ Scheduler \/ Host
  BY <1>2 DEF Next
<1>3. ASSUME NEW t \in Threads, NEW c \in Chans,
             Channel(t, c) \/ (\E m \in Msgs : Send(t, c, m)) \/ Take(t, c) \/ Wait(t, c)
      PROVE  Next \/ UNCHANGED vars
  <2>1. Pause(t) \/ UNCHANGED vars
    BY <1>3 DEF Channel, Send, Take, Wait
  <2> QED BY <2>1 DEF Next, User
<1>4. CASE UNCHANGED allVars
  BY <1>4 DEF allVars
<1> QED BY <1>1, <1>2, <1>3, <1>4 DEF ChanNext

\* A program with channels is a program of the scheduler, so it keeps what Tasks promises:
\* no wakeup is lost, a call is returned to at most once, an await gives the task's result.
THEOREM ChannelsUseTheScheduler == ChanSpec => Spec
<1>1. ChanInit => Init
  BY DEF ChanInit
<1> QED BY <1>1, ChanStepIsStep, PTL DEF ChanSpec, Spec

-----------------------------------------------------------------------------
(* A blocked receiver keeps the program going                              *)

\* What BlockedRecvNeverIdles needs: a thread inside recv is never parked and never in a
\* call, it polls or is queued for its next poll.
PollsOn == \A t \in Threads : polling[t] # Noop => Queued(t) \/ Running(t)

PollInv == polling \in [Threads -> Chans \cup {Noop}] /\ PollsOn

LEMMA InitPollInv == ChanInit => PollInv
  BY DEF ChanInit, PollInv, PollsOn

\* A thread leaves the queue for its turn and the user code for the queue, and does nothing
\* in between that is not a poll. The other threads stay queued.
LEMMA PollStep == IInv /\ PollInv /\ [ChanNext]_allVars => PollInv'
<1> SUFFICES ASSUME IInv, PollInv, [ChanNext]_allVars PROVE PollInv'
  OBVIOUS
<1> USE DEF PollInv, PollsOn
<1>1. ASSUME NEW t \in Threads, Pause(t)
      PROVE  \A u \in Threads : Queued(u)' <=> Queued(u) \/ u = t
  <2>1. queue' = Append(queue, Resume(t, Noop)) /\ Resume(t, Noop) \in Thunk
        /\ Resume(t, Noop).thread = t
    BY <1>1 DEF Pause, Resume, Thunk, Conts
  <2> QED BY <2>1, EnqueueOne DEF IInv, TypeOK
<1>2. ASSUME NEW t \in Threads, polling[t] = Noop, User(t), UNCHANGED chanVars
      PROVE  PollInv'
  <2>1. Running(t)
    BY <1>2 DEF User, Pause, Spawn, NewFuture, AwaitSettled, AwaitOpen, AwaitGone,
                SettleFuture, WithTasks, FinishTask
  <2>2. \A u \in Threads : Queued(u) => Queued(u)'
    <3>1. CASE Pause(t)
      BY <1>1, <3>1
    <3>2. ASSUME NEW c \in Tasks, Spawn(t, c)
          PROVE  \A u \in Threads : Queued(u) => Queued(u)'
      <4>1. queue' = Append(queue, Start(c)) /\ Start(c) \in Thunk
        BY <3>2 DEF Spawn, Start, Thunk, Threads, Conts
      <4> QED BY <4>1, EnqueueOne DEF IInv, TypeOK
    <3>3. ASSUME NEW f \in Futures, futures[f].st # "unborn", Settle(f, t)
          PROVE  \A u \in Threads : Queued(u) => Queued(u)'
      BY <2>1, <3>3, SettleFacts, RunningFacts
    <3>4. CASE queue' = queue
      BY <3>4 DEF Queued
    <3>5. CASE FinishTask(t)
      <4>1. t \in Futures /\ futures[t].st # "unborn" /\ Settle(t, t)
        BY <2>1, <3>5, RunningFacts DEF FinishTask, Threads, Futures, IInv, FutureStates
      <4> QED BY <3>3, <4>1
    <3>6. CASE \E f \in Futures : SettleFuture(t, f)
      BY <3>3, <3>6 DEF SettleFuture
    <3> QED BY <1>2, <3>1, <3>2, <3>4, <3>5, <3>6
            DEF User, NewFuture, AwaitSettled, AwaitOpen, AwaitGone, WithTasks
  <2>3. polling' = polling
    BY <1>2 DEF chanVars
  <2> QED BY <1>2, <2>1, <2>2, <2>3 DEF Running
<1>3. CASE polling[Main] = Noop /\ FinishMain /\ UNCHANGED chanVars
  BY <1>3 DEF FinishMain, chanVars, Queued, Running
<1>4. CASE RunNext /\ UNCHANGED chanVars
  <2>1. /\ at = "next" /\ at' = "user" /\ reg' = Head(queue).thread
        /\ \A u \in Threads : Queued(u)' <=> Queued(u) /\ u # Head(queue).thread
    BY <1>4, DequeueOne DEF RunNext, IInv, TypeOK, OneHome
  <2> QED BY <1>4, <2>1 DEF Running, chanVars
<1>5. CASE (YieldToHost \/ HostResume \/ HostExit) /\ UNCHANGED chanVars
  <2>1. queue' = queue /\ at # "user"
    BY <1>5 DEF YieldToHost, HostResume, HostExit, IInv, Handoff, TypeOK
  <2> QED BY <1>5, <2>1 DEF Queued, Running, chanVars
<1>6. ASSUME NEW t \in Threads, NEW c \in Chans, Channel(t, c) \/ Take(t, c)
      PROVE  PollInv'
  BY <1>6 DEF Channel, Take, vars, Queued, Running
<1>7. ASSUME NEW t \in Threads, NEW c \in Chans, (\E m \in Msgs : Send(t, c, m)) \/ Wait(t, c)
      PROVE  PollInv'
  <2>1. Pause(t) /\ \A u \in Threads \ {t} : polling'[u] = polling[u]
    BY <1>7 DEF Send, Wait
  <2>2. polling' \in [Threads -> Chans \cup {Noop}]
    BY <1>7 DEF Send, Wait
  <2> QED BY <1>1, <2>1, <2>2 DEF Pause, Running
<1>8. CASE UNCHANGED allVars
  BY <1>8 DEF allVars, vars, chanVars, Queued, Running
<1> QED BY <1>2, <1>3, <1>4, <1>5, <1>6, <1>7, <1>8 DEF ChanNext, Scheduler, Host

\* A program with a thread blocked in recv does not end and is never idle: the host gets
\* control with the queue empty, and the blocked thread would be in it.
THEOREM RecvKeepsGoing == ChanSpec => []BlockedRecvNeverIdles
<1>1. IInv /\ PollInv /\ [ChanNext]_allVars => PollInv'
  BY PollStep
<1>2. IdleAtHost /\ PollInv => BlockedRecvNeverIdles
  BY DEF IdleAtHost, PollInv, PollsOn, BlockedRecvNeverIdles, Queued, Running
<1>3. ChanSpec => []IInv /\ []IdleAtHost
  BY ChannelsUseTheScheduler, SpecIInv, HostGetsIdle, PTL
<1> QED BY <1>1, <1>2, <1>3, InitPollInv, PTL DEF ChanSpec
=============================================================================
