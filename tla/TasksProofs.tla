----------------------------- MODULE TasksProofs -----------------------------
(***************************************************************************)
(* Proofs about Tasks, for every set of tasks and futures: the types, that *)
(* every suspended thread has exactly one resumption, that a call is       *)
(* returned to at most once, that the host's copy of the context is never  *)
(* stale, and that nobody is parked on the future of a task that has       *)
(* ended.  They need each other, so one inductive invariant holds them.    *)
(*                                                                         *)
(* On it rest the others: the scheduler implements Executor, and a program *)
(* whose main has not returned ends only when nothing is left to run.      *)
(* Where no future is settled by hand, a thread that awaited a task goes   *)
(* on with that task's result; a program ends early only with every        *)
(* suspended thread parked on a future that nobody is left to settle.      *)
(***************************************************************************)
EXTENDS Tasks, TLAPS, SequenceTheorems

-----------------------------------------------------------------------------
(* What the operations do to the homes of suspended threads                *)

\* Queueing a thunk behind the queue adds its thread and nothing else (enqueue).
LEMMA EnqueueOne ==
  ASSUME queue \in Seq(Thunk), NEW th \in Thunk, queue' = Append(queue, th)
  PROVE  /\ queue' \in Seq(Thunk)
         /\ \A t \in Threads : Queued(t)' <=> Queued(t) \/ t = th.thread
         /\ QueuedOnce /\ ~Queued(th.thread) => QueuedOnce'
<1>1. /\ queue' \in Seq(Thunk) /\ Len(queue) \in Nat
      /\ DOMAIN queue = 1 .. Len(queue) /\ DOMAIN queue' = 1 .. Len(queue) + 1
      /\ \A i \in 1 .. Len(queue) : queue'[i] = queue[i]
      /\ queue'[Len(queue) + 1] = th
  BY AppendProperties, LenProperties
<1>2. \A t \in Threads : Queued(t)' <=> Queued(t) \/ t = th.thread
  BY <1>1 DEF Queued
<1>3. QueuedOnce /\ ~Queued(th.thread) => QueuedOnce'
  BY <1>1 DEF QueuedOnce, Queued
<1> QED BY <1>1, <1>2, <1>3

\* Taking the head off the queue removes its thread, which was queued once (dequeue).
LEMMA DequeueOne ==
  ASSUME queue \in Seq(Thunk), queue # <<>>, QueuedOnce, queue' = Tail(queue)
  PROVE  /\ Head(queue) \in Thunk /\ queue' \in Seq(Thunk)
         /\ Queued(Head(queue).thread)
         /\ \A t \in Threads : Queued(t)' <=> Queued(t) /\ t # Head(queue).thread
         /\ QueuedOnce'
<1>1. /\ queue' \in Seq(Thunk) /\ Head(queue) \in Thunk /\ Head(queue) = queue[1]
      /\ Len(queue) \in Nat /\ Len(queue) > 0
      /\ DOMAIN queue = 1 .. Len(queue) /\ DOMAIN queue' = 1 .. Len(queue) - 1
      /\ \A i \in 1 .. Len(queue) - 1 : queue'[i] = queue[i + 1]
  BY HeadTailProperties, LenProperties, EmptySeq
<1>2. Queued(Head(queue).thread)
  BY <1>1 DEF Queued
<1>3. ASSUME NEW t \in Threads
      PROVE  Queued(t)' <=> Queued(t) /\ t # Head(queue).thread
  <2>1. Queued(t)' => Queued(t) /\ t # Head(queue).thread
    <3>1. SUFFICES ASSUME NEW i \in 1 .. Len(queue) - 1, queue'[i].thread = t
                   PROVE  Queued(t) /\ t # Head(queue).thread
      BY <1>1 DEF Queued
    <3>2. i + 1 \in DOMAIN queue /\ 1 \in DOMAIN queue /\ i + 1 # 1 /\ queue[i + 1].thread = t
      BY <1>1, <3>1
    <3> QED BY <1>1, <3>2 DEF Queued, QueuedOnce
  <2>2. Queued(t) /\ t # Head(queue).thread => Queued(t)'
    <3>1. SUFFICES ASSUME NEW i \in 1 .. Len(queue), queue[i].thread = t, t # queue[1].thread
                   PROVE  Queued(t)'
      BY <1>1 DEF Queued
    <3>2. i - 1 \in 1 .. Len(queue) - 1 /\ queue'[i - 1] = queue[i]
      BY <1>1, <3>1
    <3> QED BY <1>1, <3>1, <3>2 DEF Queued
  <2> QED BY <2>1, <2>2
<1>4. QueuedOnce'
  <2>1. SUFFICES ASSUME NEW i \in 1 .. Len(queue) - 1, NEW j \in 1 .. Len(queue) - 1,
                        queue'[i].thread = queue'[j].thread
                 PROVE  i = j
    BY <1>1 DEF QueuedOnce
  <2>2. /\ i + 1 \in DOMAIN queue /\ j + 1 \in DOMAIN queue
        /\ queue[i + 1].thread = queue[j + 1].thread
    BY <1>1, <2>1
  <2> QED BY <2>2 DEF QueuedOnce
<1> QED BY <1>1, <1>2, <1>3, <1>4

\* A concatenation holds the elements of both parts, each at one place.
LEMMA ConcatParts ==
  ASSUME NEW S, NEW q \in Seq(S), NEW w \in Seq(S)
  PROVE  /\ q \o w \in Seq(S)
         /\ \A i \in DOMAIN q : i \in DOMAIN (q \o w) /\ (q \o w)[i] = q[i]
         /\ \A i \in DOMAIN w : Len(q) + i \in DOMAIN (q \o w) /\ (q \o w)[Len(q) + i] = w[i]
         /\ \A i \in DOMAIN (q \o w) : i \in DOMAIN q \/ \E j \in DOMAIN w : i = Len(q) + j
<1> DEFINE c == q \o w
<1>1. /\ Len(q) \in Nat /\ Len(w) \in Nat /\ DOMAIN q = 1 .. Len(q) /\ DOMAIN w = 1 .. Len(w)
  BY LenProperties
<1>2. /\ c \in Seq(S) /\ Len(c) = Len(q) + Len(w)
      /\ \A i \in 1 .. Len(q) + Len(w) : c[i] = IF i <= Len(q) THEN q[i] ELSE w[i - Len(q)]
  BY ConcatProperties
<1> HIDE DEF c
<1>3. DOMAIN c = 1 .. Len(q) + Len(w)
  BY <1>2, LenProperties
<1>4. \A i \in DOMAIN q : i \in DOMAIN c /\ c[i] = q[i]
  BY <1>1, <1>2, <1>3
<1>5. ASSUME NEW i \in DOMAIN w
      PROVE  Len(q) + i \in DOMAIN c /\ c[Len(q) + i] = w[i]
  <2>1. /\ Len(q) + i \in 1 .. Len(q) + Len(w) /\ ~(Len(q) + i <= Len(q))
        /\ (Len(q) + i) - Len(q) = i
    BY <1>1
  <2> QED BY <1>2, <1>3, <2>1
<1>6. ASSUME NEW i \in DOMAIN c, i \notin DOMAIN q
      PROVE  \E j \in DOMAIN w : i = Len(q) + j
  <2>1. i - Len(q) \in DOMAIN w /\ i = Len(q) + (i - Len(q))
    BY <1>1, <1>3, <1>6
  <2> QED BY <2>1
<1> QED BY <1>2, <1>4, <1>5, <1>6 DEF c

\* Handing the awaiters of f to the queue queues exactly them (settle_future).
LEMMA EnqueueAwaiters ==
  ASSUME queue \in Seq(Thunk), NEW f \in Futures, futures[f].awaits \in Seq(Threads),
         NEW v \in Conts,
         queue' = queue \o [i \in DOMAIN futures[f].awaits |-> Resume(futures[f].awaits[i], v)]
  PROVE  /\ queue' \in Seq(Thunk)
         /\ \A t \in Threads : Queued(t)' <=> Queued(t) \/ Parked(t, f)
         /\ OneHome => QueuedOnce'
         /\ \A i \in DOMAIN queue' : queue'[i].kind = "start" => i \in DOMAIN queue /\ queue'[i] = queue[i]
<1> DEFINE aw    == futures[f].awaits
           woken == [i \in DOMAIN aw |-> Resume(aw[i], v)]
<1>1. /\ Len(aw) \in Nat /\ DOMAIN aw = 1 .. Len(aw) /\ \A i \in DOMAIN aw : aw[i] \in Threads
  BY LenProperties
<1>2. \A i \in DOMAIN aw : Resume(aw[i], v) \in Thunk /\ Resume(aw[i], v).thread = aw[i]
                              /\ Resume(aw[i], v).kind # "start"
  BY <1>1 DEF Resume, Thunk
<1>3. /\ woken \in Seq(Thunk) /\ DOMAIN woken = DOMAIN aw
      /\ \A i \in DOMAIN aw : woken[i].thread = aw[i] /\ woken[i].kind # "start"
  <2>1. woken = [i \in 1 .. Len(aw) |-> Resume(aw[i], v)]
    BY <1>1
  <2> QED BY <1>1, <1>2, <2>1
<1>4. queue' = queue \o woken
  OBVIOUS
<1> HIDE DEF woken
<1>5. /\ queue' \in Seq(Thunk)
      /\ \A i \in DOMAIN queue : i \in DOMAIN queue' /\ queue'[i] = queue[i]
      /\ \A i \in DOMAIN woken : Len(queue) + i \in DOMAIN queue' /\ queue'[Len(queue) + i] = woken[i]
      /\ \A i \in DOMAIN queue' : i \in DOMAIN queue \/ \E j \in DOMAIN woken : i = Len(queue) + j
  <2> DEFINE c == queue \o woken
  <2>1. /\ c \in Seq(Thunk)
        /\ \A i \in DOMAIN queue : i \in DOMAIN c /\ c[i] = queue[i]
        /\ \A i \in DOMAIN woken : Len(queue) + i \in DOMAIN c /\ c[Len(queue) + i] = woken[i]
        /\ \A i \in DOMAIN c : i \in DOMAIN queue \/ \E j \in DOMAIN woken : i = Len(queue) + j
    <3>1. woken \in Seq(Thunk) /\ queue \in Seq(Thunk)
      BY <1>3
    <3> QED BY <3>1, ConcatParts
  <2> HIDE DEF c
  <2>2. queue' = c
    BY <1>4 DEF c
  <2> QED BY <2>1, <2>2
<1>6. ASSUME NEW t \in Threads
      PROVE  Queued(t)' <=> Queued(t) \/ Parked(t, f)
  <2>1. Queued(t) => Queued(t)'
    BY <1>5 DEF Queued
  <2>2. Parked(t, f) => Queued(t)'
    <3>1. SUFFICES ASSUME NEW i \in DOMAIN aw, aw[i] = t
                   PROVE  Queued(t)'
      BY DEF Parked
    <3>2. Len(queue) + i \in DOMAIN queue' /\ queue'[Len(queue) + i].thread = t
      BY <1>3, <1>5, <3>1
    <3> QED BY <3>2 DEF Queued
  <2>3. Queued(t)' => Queued(t) \/ Parked(t, f)
    <3>1. SUFFICES ASSUME NEW i \in DOMAIN queue', queue'[i].thread = t
                   PROVE  Queued(t) \/ Parked(t, f)
      BY DEF Queued
    <3>2. CASE i \in DOMAIN queue
      BY <1>5, <3>1, <3>2 DEF Queued
    <3>3. CASE \E j \in DOMAIN woken : i = Len(queue) + j
      <4>1. PICK j \in DOMAIN woken : i = Len(queue) + j
        BY <3>3
      <4>2. j \in DOMAIN aw /\ aw[j] = t
        BY <1>3, <1>5, <3>1, <4>1
      <4> QED BY <4>2 DEF Parked
    <3> QED BY <1>5, <3>2, <3>3
  <2> QED BY <2>1, <2>2, <2>3
<1>7. ASSUME OneHome
      PROVE  QueuedOnce'
  <2>1. SUFFICES ASSUME NEW i \in DOMAIN queue', NEW j \in DOMAIN queue',
                        queue'[i].thread = queue'[j].thread
                 PROVE  i = j
    BY DEF QueuedOnce
  <2>2. CASE i \in DOMAIN queue /\ j \in DOMAIN queue
    BY <1>5, <1>7, <2>1, <2>2 DEF OneHome, QueuedOnce
  <2>3. CASE i \in DOMAIN queue /\ \E k \in DOMAIN woken : j = Len(queue) + k
    <3>1. PICK k \in DOMAIN woken : j = Len(queue) + k
      BY <2>3
    <3>2. queue[i].thread = aw[k] /\ aw[k] \in Threads /\ k \in DOMAIN aw
      BY <1>1, <1>3, <1>5, <2>1, <2>3, <3>1
    <3> QED BY <1>7, <2>3, <3>2 DEF OneHome, QueuedOrParked, Queued, Parked
  <2>4. CASE j \in DOMAIN queue /\ \E k \in DOMAIN woken : i = Len(queue) + k
    <3>1. PICK k \in DOMAIN woken : i = Len(queue) + k
      BY <2>4
    <3>2. queue[j].thread = aw[k] /\ aw[k] \in Threads /\ k \in DOMAIN aw
      BY <1>1, <1>3, <1>5, <2>1, <2>4, <3>1
    <3> QED BY <1>7, <2>4, <3>2 DEF OneHome, QueuedOrParked, Queued, Parked
  <2>5. CASE /\ \E k \in DOMAIN woken : i = Len(queue) + k
             /\ \E k \in DOMAIN woken : j = Len(queue) + k
    <3>1. PICK k \in DOMAIN woken : i = Len(queue) + k
      BY <2>5
    <3>2. PICK l \in DOMAIN woken : j = Len(queue) + l
      BY <2>5
    <3>3. aw[k] = aw[l] /\ k \in DOMAIN aw /\ l \in DOMAIN aw
      BY <1>3, <1>5, <2>1, <3>1, <3>2
    <3>4. k = l
      BY <1>7, <3>3 DEF OneHome, ParkedOnce
    <3> QED BY <3>1, <3>2, <3>4
  <2> QED BY <1>5, <2>2, <2>3, <2>4, <2>5
<1>8. ASSUME NEW i \in DOMAIN queue', queue'[i].kind = "start"
      PROVE  i \in DOMAIN queue /\ queue'[i] = queue[i]
  <2>1. CASE i \in DOMAIN queue
    BY <1>5, <2>1
  <2>2. CASE \E j \in DOMAIN woken : i = Len(queue) + j
    <3>1. PICK j \in DOMAIN woken : i = Len(queue) + j
      BY <2>2
    <3>2. queue'[i] = woken[j] /\ woken[j].kind # "start"
      BY <1>3, <1>5, <3>1
    <3> QED BY <1>8, <3>2
  <2> QED BY <1>5, <2>1, <2>2
<1> QED BY <1>5, <1>6, <1>7, <1>8

\* Parking t on f adds t to the awaiters of f and changes nobody else's.
LEMMA ParkOne ==
  ASSUME futures \in [Futures -> FutureRec], NEW t \in Threads, NEW f \in Futures,
         futures' = [futures EXCEPT ![f].awaits = Append(@, t)]
  PROVE  /\ futures' \in [Futures -> FutureRec]
         /\ \A u \in Threads, g \in Futures :
              Parked(u, g)' <=> Parked(u, g) \/ (u = t /\ g = f)
         /\ ParkedOnce /\ (\A g \in Futures : ~Parked(t, g)) => ParkedOnce'
<1> DEFINE aw == futures[f].awaits
<1>1. aw \in Seq(Threads)
  BY DEF FutureRec
<1>2. /\ futures'[f] = [futures[f] EXCEPT !.awaits = Append(aw, t)]
      /\ futures'[f].awaits = Append(aw, t)
      /\ \A g \in Futures \ {f} : futures'[g] = futures[g]
  BY DEF FutureRec
<1>3. /\ Append(aw, t) \in Seq(Threads) /\ Len(aw) \in Nat
      /\ DOMAIN aw = 1 .. Len(aw) /\ DOMAIN Append(aw, t) = 1 .. Len(aw) + 1
      /\ \A i \in 1 .. Len(aw) : Append(aw, t)[i] = aw[i]
      /\ Append(aw, t)[Len(aw) + 1] = t
  <2> HIDE DEF aw
  <2> QED BY <1>1, AppendProperties, LenProperties
<1>4. futures' \in [Futures -> FutureRec]
  <2>1. futures'[f] \in FutureRec
    BY <1>2, <1>3 DEF FutureRec
  <2> QED BY <1>2, <2>1
<1>5. \A u \in Threads, g \in Futures : Parked(u, g)' <=> Parked(u, g) \/ (u = t /\ g = f)
  BY <1>2, <1>3 DEF Parked
<1>6. ASSUME ParkedOnce, \A g \in Futures : ~Parked(t, g)
      PROVE  ParkedOnce'
  <2>1. SUFFICES ASSUME NEW g \in Futures, NEW h \in Futures,
                        NEW i \in DOMAIN futures'[g].awaits, NEW j \in DOMAIN futures'[h].awaits,
                        futures'[g].awaits[i] = futures'[h].awaits[j]
                 PROVE  g = h /\ i = j
    BY DEF ParkedOnce
  <2>2. CASE g # f /\ h # f
    BY <1>2, <1>6, <2>1, <2>2 DEF ParkedOnce
  <2>3. CASE g = f /\ h # f
    BY <1>2, <1>3, <1>6, <2>1, <2>3 DEF ParkedOnce, Parked
  <2>4. CASE g # f /\ h = f
    BY <1>2, <1>3, <1>6, <2>1, <2>4 DEF ParkedOnce, Parked
  <2>5. CASE g = f /\ h = f
    BY <1>2, <1>3, <1>6, <2>1, <2>5 DEF ParkedOnce, Parked
  <2> QED BY <2>2, <2>3, <2>4, <2>5
<1> QED BY <1>4, <1>5, <1>6

\* Replacing the entry of f by one without awaiters unparks those of f and no others.
LEMMA UnparkAll ==
  ASSUME futures \in [Futures -> FutureRec], NEW f \in Futures, NEW r \in FutureRec,
         r.awaits = <<>>, futures' = [futures EXCEPT ![f] = r]
  PROVE  /\ futures' \in [Futures -> FutureRec]
         /\ \A u \in Threads, g \in Futures : Parked(u, g)' <=> Parked(u, g) /\ g # f
         /\ ParkedOnce => ParkedOnce'
<1>1. /\ futures'[f] = r /\ DOMAIN futures'[f].awaits = {}
      /\ \A g \in Futures \ {f} : futures'[g] = futures[g]
  BY DEF FutureRec
<1>2. futures' \in [Futures -> FutureRec]
  BY <1>1
<1> QED BY <1>1, <1>2 DEF Parked, ParkedOnce

-----------------------------------------------------------------------------
(* The inductive invariant                                                 *)

\* Control is in user code exactly when some thread is live, and then that thread runs.
Control ==
  /\ at = "user" => reg \in Threads /\ pc[reg] = "live"
  /\ \A t \in Threads : pc[t] = "live" => at \in {"user", "trapped"} /\ reg = t
  /\ \A i \in DOMAIN queue : queue[i].kind = "start" => queue[i].thread \in Tasks

\* Only an open future has awaiters, and a task's future is made with the task and is
\* no longer open when the task has ended.
FutureStates ==
  /\ \A f \in Futures : futures[f].st # "open" => futures[f].awaits = <<>>
  /\ \A c \in Tasks : pc[c] = "unborn" <=> futures[c].st = "unborn"
  /\ \A c \in Tasks : pc[c] = "done" => futures[c].st \in {"settled", "gone"}

IInv == TypeOK /\ Control /\ FutureStates /\ OneHome /\ ReturnedOnce /\ Handoff

\* A program starts with main running, nothing queued, parked or pending.
THEOREM InitIInv == Init => IInv
<1> SUFFICES ASSUME Init PROVE IInv
  OBVIOUS
<1> USE NamesAssumption DEF Init
<1>1. Main \in Threads /\ Noop \in Conts /\ Noop \notin Threads /\ \A t \in Threads : t \in Conts
  BY DEF Threads, Conts
<1>2. \A f \in Futures : /\ futures[f] \in FutureRec /\ futures[f].awaits = <<>>
                         /\ futures[f].st = "unborn"
  <2>1. [Gone EXCEPT !.st = "unborn"] = [st |-> "unborn", awaits |-> <<>>, rslt |-> Noop]
    BY DEF Gone
  <2>2. [st |-> "unborn", awaits |-> <<>>, rslt |-> Noop] \in FutureRec
    BY <1>1 DEF FutureRec
  <2>3. futures = [f \in Futures |-> [st |-> "unborn", awaits |-> <<>>, rslt |-> Noop]]
    BY <2>1
  <2> QED BY <2>2, <2>3
<1>3. TypeOK
  BY <1>1, <1>2 DEF TypeOK
<1>4. Control
  BY <1>1 DEF Control
<1>5. FutureStates
  BY <1>2 DEF FutureStates, Futures, Threads
<1>6. OneHome
  BY <1>2 DEF OneHome, HasHome, QueuedOrParked, QueuedOnce, ParkedOnce, Queued, Parked
<1>7. ReturnedOnce /\ Handoff
  BY <1>1 DEF ReturnedOnce, Handoff, Owes, Threads
<1> QED BY <1>3, <1>4, <1>5, <1>6, <1>7 DEF IInv

\* A running thread is live, has no home, and no call waits to return to it.
LEMMA RunningFacts ==
  ASSUME IInv, NEW t \in Threads, Running(t)
  PROVE  /\ pc[t] = "live" /\ t \in Conts /\ t # Noop /\ pending = <<>>
         /\ ~Queued(t) /\ \A f \in Futures : ~Parked(t, f)
         /\ \A c \in Tasks : Owes(c) => kont[c] # t
         /\ \A u \in Threads : pc[u] = "live" => u = t
<1> USE NamesAssumption DEF IInv, Running
<1>1. pc[t] = "live" /\ t \in Conts /\ t # Noop /\ pending = <<>>
  BY DEF Control, Handoff, Threads, Conts
<1>2. ~Queued(t) /\ \A f \in Futures : ~Parked(t, f)
  BY <1>1 DEF OneHome, HasHome
<1>3. \A c \in Tasks : Owes(c) => kont[c] # t
  BY <1>1 DEF ReturnedOnce
<1>4. \A u \in Threads : pc[u] = "live" => u = t
  BY DEF Control
<1> QED BY <1>1, <1>2, <1>3, <1>4

\* pause moves the running thread to the queue and leaves no frame behind.
LEMMA PauseIInv ==
  ASSUME IInv, NEW t \in Threads, Pause(t)
  PROVE  IInv'
<1> USE DEF IInv, Pause, YieldUnder
<1>1. /\ pc[t] = "live" /\ t \in Conts /\ t # Noop /\ pending = <<>>
      /\ ~Queued(t) /\ \A f \in Futures : ~Parked(t, f)
      /\ \A c \in Tasks : Owes(c) => kont[c] # t
      /\ \A u \in Threads : pc[u] = "live" => u = t
  BY RunningFacts
<1>2. /\ Resume(t, Noop) \in Thunk /\ Resume(t, Noop).thread = t
      /\ Resume(t, Noop).kind # "start"
  BY DEF Resume, Thunk, Conts
<1>3. /\ queue' \in Seq(Thunk)
      /\ \A u \in Threads : Queued(u)' <=> Queued(u) \/ u = t
      /\ QueuedOnce'
  BY <1>1, <1>2, EnqueueOne DEF TypeOK, OneHome
<1>4. TypeOK'
  BY <1>3 DEF TypeOK, Conts
<1>5. Control'
  BY <1>1, <1>2, NamesAssumption DEF Control, TypeOK
<1>6. FutureStates'
  BY <1>1 DEF FutureStates, TypeOK, Threads
<1>7. OneHome'
  <2>1. ParkedOnce' /\ \A u \in Threads, f \in Futures : Parked(u, f)' <=> Parked(u, f)
    BY DEF OneHome, ParkedOnce, Parked
  <2>2. HasHome'
    BY <1>1, <1>3, <2>1 DEF OneHome, HasHome, TypeOK
  <2>3. QueuedOrParked'
    BY <1>1, <1>3, <2>1 DEF OneHome, QueuedOrParked
  <2> QED BY <1>3, <2>1, <2>2, <2>3 DEF OneHome
<1>8. ReturnedOnce'
  BY <1>1 DEF ReturnedOnce, Owes, TypeOK, Conts
<1>9. Handoff'
  BY <1>1 DEF Handoff
<1> QED BY <1>4, <1>5, <1>6, <1>7, <1>8, <1>9

\* spawn gives an unborn task its home in the queue and an open future.
LEMMA SpawnIInv ==
  ASSUME IInv, NEW t \in Threads, NEW c \in Tasks, Spawn(t, c)
  PROVE  IInv'
<1> USE DEF IInv, Spawn
<1>1. /\ pc[t] = "live" /\ t \in Conts /\ t # Noop /\ pending = <<>>
      /\ \A u \in Threads : pc[u] = "live" => u = t
  BY RunningFacts
<1>2. /\ Start(c) \in Thunk /\ Start(c).thread = c /\ c \in Threads
      /\ c \in Futures /\ OpenFuture \in FutureRec /\ OpenFuture.awaits = <<>>
      /\ OpenFuture.st = "open"
  BY DEF Start, Thunk, Conts, Threads, Futures, OpenFuture, FutureRec
<1>3. /\ ~Queued(c) /\ \A f \in Futures : ~Parked(c, f)
      /\ \A u \in Threads : ~Parked(u, c)
  BY <1>2 DEF OneHome, HasHome, FutureStates, Parked
<1>4. /\ queue' \in Seq(Thunk)
      /\ \A u \in Threads : Queued(u)' <=> Queued(u) \/ u = c
      /\ QueuedOnce'
  BY <1>2, <1>3, EnqueueOne DEF TypeOK, OneHome
<1>5. /\ futures' \in [Futures -> FutureRec]
      /\ \A u \in Threads, g \in Futures : Parked(u, g)' <=> Parked(u, g)
      /\ ParkedOnce'
  <2>1. /\ futures' \in [Futures -> FutureRec]
        /\ \A u \in Threads, g \in Futures : Parked(u, g)' <=> Parked(u, g) /\ g # c
        /\ ParkedOnce => ParkedOnce'
    BY <1>2, UnparkAll DEF TypeOK
  <2> QED BY <1>3, <2>1 DEF OneHome
<1>6. TypeOK'
  BY <1>4, <1>5 DEF TypeOK
<1>7. Control'
  BY <1>1, <1>2, NamesAssumption DEF Control, TypeOK, Running
<1>8. FutureStates'
  BY <1>2 DEF FutureStates, TypeOK
<1>9. OneHome'
  BY <1>2, <1>3, <1>4, <1>5 DEF OneHome, HasHome, QueuedOrParked, TypeOK
<1>10. ReturnedOnce'
  BY <1>1, <1>2 DEF ReturnedOnce, Owes, TypeOK, Conts, Running
<1>11. Handoff'
  BY <1>1 DEF Handoff
<1> QED BY <1>6, <1>7, <1>8, <1>9, <1>10, <1>11

\* A future made with `future _' has no awaiters.
LEMMA NewFutureIInv ==
  ASSUME IInv, NEW t \in Threads, NEW p \in Promises, NewFuture(t, p)
  PROVE  IInv'
<1> USE DEF IInv, NewFuture
<1>1. pending = <<>> /\ p \in Futures /\ p \notin Tasks
  BY RunningFacts, NamesAssumption DEF Futures
<1>2. OpenFuture \in FutureRec /\ OpenFuture.awaits = <<>> /\ OpenFuture.st = "open"
  BY DEF Conts, OpenFuture, FutureRec
<1>3. \A u \in Threads : ~Parked(u, p)
  BY <1>1 DEF FutureStates, Parked
<1>4. /\ futures' \in [Futures -> FutureRec]
      /\ \A u \in Threads, g \in Futures : Parked(u, g)' <=> Parked(u, g)
      /\ ParkedOnce'
  <2>1. /\ futures' \in [Futures -> FutureRec]
        /\ \A u \in Threads, g \in Futures : Parked(u, g)' <=> Parked(u, g) /\ g # p
        /\ ParkedOnce => ParkedOnce'
    BY <1>1, <1>2, UnparkAll DEF TypeOK
  <2> QED BY <1>3, <2>1 DEF OneHome
<1>5. TypeOK'
  BY <1>4 DEF TypeOK
<1>6. Control'
  BY DEF Control
<1>7. FutureStates'
  BY <1>1, <1>2 DEF FutureStates, TypeOK, Futures
<1>8. OneHome'
  <2>1. \A u \in Threads : Queued(u)' <=> Queued(u)
    BY DEF Queued
  <2> QED BY <1>4, <2>1 DEF OneHome, HasHome, QueuedOrParked, QueuedOnce
<1>9. ReturnedOnce' /\ Handoff'
  BY <1>1 DEF ReturnedOnce, Handoff, Owes
<1> QED BY <1>5, <1>6, <1>7, <1>8, <1>9

\* An await of a settled future takes it out of the table; it had no awaiters.
LEMMA AwaitSettledIInv ==
  ASSUME IInv, NEW t \in Threads, NEW f \in Futures, AwaitSettled(t, f)
  PROVE  IInv'
<1> USE DEF IInv, AwaitSettled
<1>1. pending = <<>>
  BY RunningFacts
<1>2. Gone \in FutureRec /\ Gone.awaits = <<>> /\ Gone.st = "gone"
  BY DEF Conts, Gone, FutureRec
<1>3. \A u \in Threads : ~Parked(u, f)
  BY DEF FutureStates, Parked
<1>4. /\ futures' \in [Futures -> FutureRec]
      /\ \A u \in Threads, g \in Futures : Parked(u, g)' <=> Parked(u, g)
      /\ ParkedOnce'
  <2>1. /\ futures' \in [Futures -> FutureRec]
        /\ \A u \in Threads, g \in Futures : Parked(u, g)' <=> Parked(u, g) /\ g # f
        /\ ParkedOnce => ParkedOnce'
    BY <1>2, UnparkAll DEF TypeOK
  <2> QED BY <1>3, <2>1 DEF OneHome
<1>5. TypeOK'
  <2>1. got' \in [Threads -> [fut : Futures \cup {Noop}, val : Conts]]
    BY DEF TypeOK, FutureRec
  <2> QED BY <1>4, <2>1 DEF TypeOK
<1>6. Control'
  BY DEF Control
<1>7. FutureStates'
  BY <1>2 DEF FutureStates, TypeOK, Futures
<1>8. OneHome'
  <2>1. \A u \in Threads : Queued(u)' <=> Queued(u)
    BY DEF Queued
  <2> QED BY <1>4, <2>1 DEF OneHome, HasHome, QueuedOrParked, QueuedOnce
<1>9. ReturnedOnce' /\ Handoff'
  BY <1>1 DEF ReturnedOnce, Handoff, Owes
<1> QED BY <1>5, <1>6, <1>7, <1>8, <1>9

\* An await of an open future moves the running thread to its awaiters.
LEMMA AwaitOpenIInv ==
  ASSUME IInv, NEW t \in Threads, NEW f \in Futures, AwaitOpen(t, f)
  PROVE  IInv'
<1> USE DEF IInv, AwaitOpen, YieldUnder
<1>1. /\ pc[t] = "live" /\ t \in Conts /\ t # Noop /\ pending = <<>>
      /\ ~Queued(t) /\ \A g \in Futures : ~Parked(t, g)
      /\ \A c \in Tasks : Owes(c) => kont[c] # t
      /\ \A u \in Threads : pc[u] = "live" => u = t
  BY RunningFacts
<1>2. /\ futures' \in [Futures -> FutureRec]
      /\ \A u \in Threads, g \in Futures : Parked(u, g)' <=> Parked(u, g) \/ (u = t /\ g = f)
      /\ ParkedOnce'
  BY <1>1, ParkOne DEF TypeOK, OneHome
<1>3. /\ \A g \in Futures : futures'[g].st = futures[g].st
      /\ \A g \in Futures \ {f} : futures'[g].awaits = futures[g].awaits
  BY DEF TypeOK, FutureRec
<1>4. TypeOK'
  BY <1>2 DEF TypeOK, Conts
<1>5. Control'
  BY <1>1, NamesAssumption DEF Control, TypeOK
<1>6. FutureStates'
  BY <1>1, <1>3 DEF FutureStates, TypeOK, Threads
<1>7. OneHome'
  <2>1. \A u \in Threads : Queued(u)' <=> Queued(u)
    BY DEF Queued
  <2>2. HasHome'
    BY <1>1, <1>2, <2>1 DEF OneHome, HasHome, TypeOK
  <2>3. QueuedOrParked' /\ QueuedOnce'
    BY <1>1, <1>2, <2>1 DEF OneHome, QueuedOrParked, QueuedOnce
  <2> QED BY <1>2, <2>2, <2>3 DEF OneHome
<1>8. ReturnedOnce'
  BY <1>1 DEF ReturnedOnce, Owes, TypeOK, Conts
<1>9. Handoff'
  BY <1>1 DEF Handoff
<1> QED BY <1>4, <1>5, <1>6, <1>7, <1>8, <1>9

\* An await of a future that has left the table traps and changes nothing else.
LEMMA AwaitGoneIInv ==
  ASSUME IInv, NEW t \in Threads, NEW f \in Futures, AwaitGone(t, f)
  PROVE  IInv'
<1> USE DEF IInv, AwaitGone
<1>1. pending = <<>> /\ reg = t
  BY RunningFacts DEF Running
<1>2. TypeOK' /\ Control' /\ FutureStates'
  BY <1>1 DEF TypeOK, Control, FutureStates
<1>3. OneHome'
  <2>1. /\ \A u \in Threads : Queued(u)' <=> Queued(u)
        /\ \A u \in Threads, g \in Futures : Parked(u, g)' <=> Parked(u, g)
    BY DEF Queued, Parked
  <2> QED BY <2>1 DEF OneHome, HasHome, QueuedOrParked, QueuedOnce, ParkedOnce
<1>4. ReturnedOnce' /\ Handoff'
  BY <1>1 DEF ReturnedOnce, Handoff, Owes
<1> QED BY <1>2, <1>3, <1>4

\* Settling f moves every thread parked on f to the queue and nobody else, and leaves f
\* settled or gone.
LEMMA SettleFacts ==
  ASSUME IInv, NEW f \in Futures, NEW v \in Conts, Settle(f, v)
  PROVE  /\ queue' \in Seq(Thunk) /\ futures' \in [Futures -> FutureRec]
         /\ QueuedOnce' /\ ParkedOnce'
         /\ \A u \in Threads : Queued(u)' <=> Queued(u) \/ Parked(u, f)
         /\ \A u \in Threads, g \in Futures : Parked(u, g)' <=> Parked(u, g) /\ g # f
         /\ \A i \in DOMAIN queue' : queue'[i].kind = "start" => queue'[i].thread \in Tasks
         /\ \A g \in Futures \ {f} : futures'[g] = futures[g]
         /\ futures'[f].awaits = <<>>
         /\ futures[f].st # "unborn" => futures'[f].st \in {"settled", "gone"}
         /\ futures[f].st = "unborn" => futures'[f].st = "unborn"
<1> USE DEF IInv
<1>1. /\ futures[f].awaits \in Seq(Threads)
      /\ futures[f].st \in {"unborn", "open", "settled", "gone"}
      /\ futures[f].st # "open" => futures[f].awaits = <<>>
  BY DEF TypeOK, FutureRec, FutureStates
<1>2. /\ Settled(v) \in FutureRec /\ Settled(v).awaits = <<>> /\ Settled(v).st = "settled"
      /\ Gone \in FutureRec /\ Gone.awaits = <<>> /\ Gone.st = "gone"
  BY DEF Settled, Gone, FutureRec, Conts
<1>3. futures[f].awaits = <<>> => \A u \in Threads : ~Parked(u, f)
  BY DEF Parked
<1>4. CASE futures[f].st \in {"open", "settled"} /\ futures[f].awaits = <<>>
  <2>1. futures' = [futures EXCEPT ![f] = Settled(v)] /\ queue' = queue
    BY <1>4 DEF Settle
  <2>2. /\ futures' \in [Futures -> FutureRec]
        /\ \A u \in Threads, g \in Futures : Parked(u, g)' <=> Parked(u, g) /\ g # f
        /\ ParkedOnce => ParkedOnce'
    BY <1>2, <2>1, UnparkAll DEF TypeOK
  <2>3. QueuedOnce' /\ \A u \in Threads : Queued(u)' <=> Queued(u)
    BY <2>1 DEF OneHome, QueuedOnce, Queued
  <2>4. futures'[f] = Settled(v) /\ \A g \in Futures \ {f} : futures'[g] = futures[g]
    BY <2>1 DEF TypeOK
  <2> QED BY <1>2, <1>3, <1>4, <2>1, <2>2, <2>3, <2>4 DEF TypeOK, OneHome, Control
<1>5. CASE futures[f].st = "open" /\ futures[f].awaits # <<>>
  <2>1. /\ futures' = [futures EXCEPT ![f] = Gone]
        /\ queue' = queue \o [i \in DOMAIN futures[f].awaits |-> Resume(futures[f].awaits[i], v)]
    BY <1>5 DEF Settle
  <2>2. /\ futures' \in [Futures -> FutureRec]
        /\ \A u \in Threads, g \in Futures : Parked(u, g)' <=> Parked(u, g) /\ g # f
        /\ ParkedOnce => ParkedOnce'
    BY <1>2, <2>1, UnparkAll DEF TypeOK
  <2>3. /\ queue' \in Seq(Thunk)
        /\ \A u \in Threads : Queued(u)' <=> Queued(u) \/ Parked(u, f)
        /\ OneHome => QueuedOnce'
        /\ \A i \in DOMAIN queue' : queue'[i].kind = "start" => i \in DOMAIN queue /\ queue'[i] = queue[i]
    BY <1>1, <2>1, EnqueueAwaiters DEF TypeOK
  <2>4. futures'[f] = Gone /\ \A g \in Futures \ {f} : futures'[g] = futures[g]
    BY <2>1 DEF TypeOK
  <2> QED BY <1>2, <1>5, <2>2, <2>3, <2>4 DEF OneHome, Control
<1>6. CASE ~(futures[f].st \in {"open", "settled"} /\ futures[f].awaits = <<>>)
           /\ ~(futures[f].st = "open" /\ futures[f].awaits # <<>>)
  <2>1. futures' = futures /\ queue' = queue
    BY <1>6 DEF Settle, ctx
  <2>2. futures[f].awaits = <<>> /\ futures[f].st \notin {"open", "settled"}
    BY <1>1, <1>6
  <2>3. /\ QueuedOnce' /\ ParkedOnce'
        /\ \A u \in Threads : Queued(u)' <=> Queued(u)
        /\ \A u \in Threads, g \in Futures : Parked(u, g)' <=> Parked(u, g)
    BY <2>1 DEF OneHome, QueuedOnce, ParkedOnce, Queued, Parked
  <2> QED BY <1>1, <1>3, <2>1, <2>2, <2>3 DEF TypeOK, Control
<1> QED BY <1>4, <1>5, <1>6

\* settle_future wakes the awaiters and leaves its caller to the scheduler.
LEMMA SettleFutureIInv ==
  ASSUME IInv, NEW t \in Threads, NEW f \in Futures, SettleFuture(t, f)
  PROVE  IInv'
<1> USE DEF IInv
<1>0. /\ Running(t) /\ futures[f].st # "unborn" /\ Settle(f, t)
      /\ pc' = [pc EXCEPT ![t] = "calling"] /\ at' = "next" /\ reg' = t
      /\ UNCHANGED <<kont, pending, got>>
  BY DEF SettleFuture, YieldUnder
<1>1. /\ pc[t] = "live" /\ t \in Conts /\ t # Noop /\ pending = <<>>
      /\ ~Queued(t) /\ \A g \in Futures : ~Parked(t, g)
      /\ \A c \in Tasks : Owes(c) => kont[c] # t
      /\ \A u \in Threads : pc[u] = "live" => u = t
  BY <1>0, RunningFacts
<1>2. /\ queue' \in Seq(Thunk) /\ futures' \in [Futures -> FutureRec]
      /\ QueuedOnce' /\ ParkedOnce'
      /\ \A u \in Threads : Queued(u)' <=> Queued(u) \/ Parked(u, f)
      /\ \A u \in Threads, g \in Futures : Parked(u, g)' <=> Parked(u, g) /\ g # f
      /\ \A i \in DOMAIN queue' : queue'[i].kind = "start" => queue'[i].thread \in Tasks
      /\ \A g \in Futures \ {f} : futures'[g] = futures[g]
      /\ futures'[f].awaits = <<>> /\ futures'[f].st \in {"settled", "gone"}
  BY <1>0, <1>1, SettleFacts
<1>3. TypeOK'
  BY <1>0, <1>1, <1>2 DEF TypeOK
<1>4. Control'
  BY <1>0, <1>1, <1>2 DEF Control, TypeOK
<1>5. FutureStates'
  <2>1. \A g \in Futures : futures'[g].st # "open" => futures'[g].awaits = <<>>
    BY <1>2 DEF FutureStates
  <2>2. ASSUME NEW c \in Tasks
        PROVE  /\ (pc[c] = "unborn")' <=> (futures[c].st = "unborn")'
               /\ (pc[c] = "done")' => futures'[c].st \in {"settled", "gone"}
    <3>1. c \in Futures /\ c \in Threads
      BY DEF Futures, Threads
    <3>2. CASE c = f
      BY <1>0, <1>1, <1>2, <3>1, <3>2 DEF FutureStates, TypeOK
    <3>3. CASE c # f
      BY <1>0, <1>1, <1>2, <3>1, <3>3 DEF FutureStates, TypeOK
    <3> QED BY <3>2, <3>3
  <2> QED BY <2>1, <2>2 DEF FutureStates
<1>6. OneHome'
  <2>1. HasHome'
    BY <1>0, <1>1, <1>2 DEF OneHome, HasHome, TypeOK
  <2>2. QueuedOrParked'
    <3>1. SUFFICES ASSUME NEW u \in Threads, NEW g \in Futures, Queued(u)', Parked(u, g)'
                   PROVE  FALSE
      BY DEF QueuedOrParked
    <3>2. Parked(u, g) /\ g # f /\ Parked(u, f)
      BY <1>0, <1>2, <3>1 DEF OneHome, QueuedOrParked
    <3> QED BY <1>0, <3>2 DEF OneHome, ParkedOnce, Parked
  <2> QED BY <1>2, <2>1, <2>2 DEF OneHome
<1>7. ReturnedOnce'
  BY <1>0, <1>1 DEF ReturnedOnce, Owes, TypeOK, Conts
<1>8. Handoff'
  BY <1>0, <1>1 DEF Handoff
<1> QED BY <1>3, <1>4, <1>5, <1>6, <1>7, <1>8

\* A task that ends passes on the frame it was started under, and nobody awaits it.
LEMMA FinishTaskIInv ==
  ASSUME IInv, NEW t \in Threads, FinishTask(t)
  PROVE  IInv'
<1> USE DEF IInv
<1>0. /\ Running(t) /\ t \in Tasks /\ t \in Futures /\ Settle(t, t)
      /\ pc' = [pc EXCEPT ![t] = "done"] /\ at' = "next" /\ reg' = kont[t]
      /\ UNCHANGED <<kont, pending, got>>
  BY DEF FinishTask, YieldUnder, Threads, Futures
<1>1. /\ pc[t] = "live" /\ t \in Conts /\ t # Noop /\ pending = <<>>
      /\ ~Queued(t) /\ \A g \in Futures : ~Parked(t, g)
      /\ \A c \in Tasks : Owes(c) => kont[c] # t
      /\ \A u \in Threads : pc[u] = "live" => u = t
  BY <1>0, RunningFacts
<1>2. /\ queue' \in Seq(Thunk) /\ futures' \in [Futures -> FutureRec]
      /\ QueuedOnce' /\ ParkedOnce'
      /\ \A u \in Threads : Queued(u)' <=> Queued(u) \/ Parked(u, t)
      /\ \A u \in Threads, g \in Futures : Parked(u, g)' <=> Parked(u, g) /\ g # t
      /\ \A i \in DOMAIN queue' : queue'[i].kind = "start" => queue'[i].thread \in Tasks
      /\ \A g \in Futures \ {t} : futures'[g] = futures[g]
      /\ futures'[t].awaits = <<>> /\ futures'[t].st \in {"settled", "gone"}
  <2>1. futures[t].st # "unborn"
    BY <1>0, <1>1 DEF FutureStates
  <2> QED BY <1>0, <1>1, <2>1, SettleFacts
<1>3. TypeOK'
  BY <1>0, <1>1, <1>2 DEF TypeOK
<1>4. Control'
  BY <1>0, <1>1, <1>2 DEF Control, TypeOK
<1>5. FutureStates'
  <2>1. \A g \in Futures : futures'[g].st # "open" => futures'[g].awaits = <<>>
    BY <1>2 DEF FutureStates
  <2>2. ASSUME NEW c \in Tasks
        PROVE  /\ (pc[c] = "unborn")' <=> (futures[c].st = "unborn")'
               /\ (pc[c] = "done")' => futures'[c].st \in {"settled", "gone"}
    <3>1. c \in Futures /\ c \in Threads
      BY DEF Futures, Threads
    <3>2. CASE c = t
      BY <1>0, <1>1, <1>2, <3>1, <3>2 DEF FutureStates, TypeOK
    <3>3. CASE c # t
      BY <1>0, <1>1, <1>2, <3>1, <3>3 DEF FutureStates, TypeOK
    <3> QED BY <3>2, <3>3
  <2> QED BY <2>1, <2>2 DEF FutureStates
<1>6. OneHome'
  <2>1. HasHome'
    BY <1>0, <1>1, <1>2 DEF OneHome, HasHome, TypeOK
  <2>2. QueuedOrParked'
    <3>1. SUFFICES ASSUME NEW u \in Threads, NEW g \in Futures, Queued(u)', Parked(u, g)'
                   PROVE  FALSE
      BY DEF QueuedOrParked
    <3>2. Parked(u, g) /\ g # t /\ Parked(u, t)
      BY <1>0, <1>2, <3>1 DEF OneHome, QueuedOrParked
    <3> QED BY <1>0, <3>2 DEF OneHome, ParkedOnce, Parked
  <2> QED BY <1>2, <2>1, <2>2 DEF OneHome
<1>7. ReturnedOnce'
  <2>1. \A c \in Tasks : Owes(c)' <=> Owes(c) /\ c # t
    BY <1>0, <1>1 DEF Owes, TypeOK, Threads
  <2>2. kont[t] # Noop => Owes(t)
    BY <1>0, <1>1 DEF Owes
  <2>3. \A c \in Tasks : Owes(c) => kont[c] \in Threads
    BY DEF Owes, TypeOK, Conts, Threads
  <2> QED BY <1>0, <1>1, <2>1, <2>2, <2>3 DEF ReturnedOnce, TypeOK
<1>8. Handoff'
  BY <1>0, <1>1 DEF Handoff
<1> QED BY <1>3, <1>4, <1>5, <1>6, <1>7, <1>8

\* with_tasks leaves its caller to the scheduler.
LEMMA WithTasksIInv ==
  ASSUME IInv, NEW t \in Threads, WithTasks(t)
  PROVE  IInv'
<1> USE DEF IInv, WithTasks, YieldUnder
<1>1. /\ pc[t] = "live" /\ t \in Conts /\ t # Noop /\ pending = <<>>
      /\ ~Queued(t) /\ \A g \in Futures : ~Parked(t, g)
      /\ \A c \in Tasks : Owes(c) => kont[c] # t
      /\ \A u \in Threads : pc[u] = "live" => u = t
  BY RunningFacts
<1>2. TypeOK' /\ Control' /\ FutureStates'
  BY <1>1 DEF TypeOK, Control, FutureStates, Threads
<1>3. OneHome'
  <2>1. /\ \A u \in Threads : Queued(u)' <=> Queued(u)
        /\ \A u \in Threads, g \in Futures : Parked(u, g)' <=> Parked(u, g)
    BY DEF Queued, Parked
  <2>2. HasHome'
    BY <1>1, <2>1 DEF OneHome, HasHome, TypeOK
  <2> QED BY <2>1, <2>2 DEF OneHome, QueuedOrParked, QueuedOnce, ParkedOnce
<1>4. ReturnedOnce' /\ Handoff'
  BY <1>1 DEF ReturnedOnce, Handoff, Owes, TypeOK, Conts
<1> QED BY <1>2, <1>3, <1>4

\* main ends and control unwinds to the host.
LEMMA FinishMainIInv ==
  ASSUME IInv, FinishMain
  PROVE  IInv'
<1> USE DEF IInv, FinishMain
<1>1. /\ Main \in Threads /\ Main \notin Tasks /\ Noop \in Conts
      /\ pc[Main] = "live" /\ pending = <<>>
      /\ \A c \in Tasks : Owes(c) => kont[c] # Main
      /\ \A u \in Threads : pc[u] = "live" => u = Main
  BY RunningFacts, NamesAssumption DEF Threads, Conts
<1>2. TypeOK' /\ Control' /\ FutureStates'
  BY <1>1 DEF TypeOK, Control, FutureStates, Threads
<1>3. OneHome'
  <2>1. /\ \A u \in Threads : Queued(u)' <=> Queued(u)
        /\ \A u \in Threads, g \in Futures : Parked(u, g)' <=> Parked(u, g)
    BY DEF Queued, Parked
  <2>2. HasHome'
    BY <1>1, <2>1 DEF OneHome, HasHome, TypeOK
  <2> QED BY <2>1, <2>2 DEF OneHome, QueuedOrParked, QueuedOnce, ParkedOnce
<1>4. ReturnedOnce' /\ Handoff'
  BY <1>1 DEF ReturnedOnce, Handoff, Owes, TypeOK, Conts
<1> QED BY <1>2, <1>3, <1>4

\* The thread taken off the queue was suspended with no other home, so it becomes the one
\* live thread, and the frame it is started under had no other holder.
LEMMA RunNextIInv ==
  ASSUME IInv, RunNext
  PROVE  IInv'
<1> USE DEF IInv
<1> DEFINE th == Head(queue)
           n  == th.thread
<1>0. /\ at = "next" /\ queue # <<>> /\ queue' = Tail(queue)
      /\ kont' = IF th.kind = "start" THEN [kont EXCEPT ![n] = reg] ELSE kont
      /\ got' = IF th.kind = "resume" /\ th.val # Noop
                  THEN [got EXCEPT ![n].val = th.val] ELSE got
      /\ pc' = [pc EXCEPT ![n] = "live"] /\ at' = "user" /\ reg' = n
      /\ UNCHANGED <<futures, pending>>
  BY DEF RunNext
<1>1. /\ th \in Thunk /\ queue' \in Seq(Thunk) /\ Queued(n) /\ QueuedOnce'
      /\ \A t \in Threads : Queued(t)' <=> Queued(t) /\ t # n
  BY <1>0, DequeueOne DEF TypeOK, OneHome
<1>2. n \in Threads /\ n \in Conts /\ th.val \in Conts /\ n # Noop
  BY <1>1, NamesAssumption DEF Thunk, Conts, Threads
<1>3. /\ pc[n] = "suspended" /\ pending = <<>>
      /\ \A f \in Futures : ~Parked(n, f)
      /\ \A u \in Threads : pc[u] # "live"
  BY <1>0, <1>1, <1>2 DEF OneHome, HasHome, QueuedOrParked, Handoff, Control
<1>4. th.kind = "start" => n \in Tasks
  <2>1. queue[1] = th /\ 1 \in DOMAIN queue
    BY <1>0, HeadTailProperties, LenProperties, EmptySeq DEF TypeOK
  <2> QED BY <2>1 DEF Control
<1>5. \A i \in DOMAIN queue' : queue'[i].kind = "start" => queue'[i].thread \in Tasks
  <2>1. /\ Len(queue) \in Nat /\ DOMAIN queue = 1 .. Len(queue)
        /\ DOMAIN queue' = 1 .. Len(queue) - 1
        /\ \A i \in 1 .. Len(queue) - 1 : queue'[i] = queue[i + 1]
    BY <1>0, HeadTailProperties, LenProperties DEF TypeOK
  <2> QED BY <2>1 DEF Control
<1> HIDE DEF th, n
<1>6. TypeOK'
  <2>1. kont' \in [Threads -> Conts]
    BY <1>0, <1>2 DEF TypeOK
  <2>2. got' \in [Threads -> [fut : Futures \cup {Noop}, val : Conts]]
    BY <1>0, <1>2 DEF TypeOK
  <2> QED BY <1>0, <1>1, <1>2, <2>1, <2>2 DEF TypeOK
<1>7. Control'
  BY <1>0, <1>2, <1>3, <1>5 DEF Control, TypeOK
<1>8. FutureStates'
  BY <1>0, <1>2, <1>3 DEF FutureStates, TypeOK, Threads
<1>9. OneHome'
  <2>1. ParkedOnce' /\ \A u \in Threads, g \in Futures : Parked(u, g)' <=> Parked(u, g)
    BY <1>0 DEF OneHome, ParkedOnce, Parked
  <2>2. HasHome'
    BY <1>0, <1>1, <1>2, <1>3, <2>1 DEF OneHome, HasHome, TypeOK
  <2>3. QueuedOrParked'
    BY <1>1, <2>1 DEF OneHome, QueuedOrParked
  <2> QED BY <1>1, <2>1, <2>2, <2>3 DEF OneHome
<1>10. ReturnedOnce'
  <2>1. \A c \in Tasks : Owes(c) => kont[c] \in Threads /\ kont[c] # n
    BY <1>3 DEF Owes, TypeOK, Conts, Threads, ReturnedOnce
  <2>2. reg # Noop => /\ reg \in Threads /\ reg # n /\ pc[reg] = "calling"
                      /\ \A c \in Tasks : Owes(c) => kont[c] # reg
    BY <1>0, <1>3 DEF ReturnedOnce, TypeOK, Conts, Threads
  <2>3. CASE th.kind = "start"
    <3>1. /\ kont'[n] = reg
          /\ \A c \in Tasks \ {n} : kont'[c] = kont[c] /\ pc'[c] = pc[c]
      BY <1>0, <1>2, <2>3 DEF TypeOK, Threads
    <3>2. \A c \in Tasks \ {n} : Owes(c)' <=> Owes(c)
      BY <3>1 DEF Owes
    <3>3. \A c \in Tasks : c = n /\ Owes(c)' => reg # Noop
      BY <3>1 DEF Owes
    <3>4. \A u \in Threads \ {n} : pc'[u] = pc[u]
      BY <1>0 DEF TypeOK
    <3>5. \A c \in Tasks : Owes(c)' => kont'[c] \in Threads /\ pc'[kont'[c]] = "calling"
      BY <2>1, <2>2, <3>1, <3>2, <3>3, <3>4 DEF ReturnedOnce
    <3>6. \A c, d \in Tasks : Owes(c)' /\ Owes(d)' /\ kont'[c] = kont'[d] => c = d
      BY <2>2, <3>1, <3>2, <3>3 DEF ReturnedOnce
    <3> QED BY <1>0, <1>3, <3>5, <3>6 DEF ReturnedOnce
  <2>4. CASE th.kind # "start"
    <3>1. kont' = kont /\ \A c \in Tasks : Owes(c)' <=> Owes(c)
      BY <1>0, <1>2, <1>3, <2>4 DEF Owes, TypeOK, Threads
    <3>2. \A u \in Threads \ {n} : pc'[u] = pc[u]
      BY <1>0 DEF TypeOK
    <3> QED BY <1>0, <1>3, <2>1, <3>1, <3>2 DEF ReturnedOnce
  <2> QED BY <2>3, <2>4
<1>11. Handoff'
  BY <1>0, <1>3 DEF Handoff
<1> QED BY <1>6, <1>7, <1>8, <1>9, <1>10, <1>11

\* The scheduler hands its continuation and the current context to the host.
LEMMA YieldToHostIInv ==
  ASSUME IInv, YieldToHost
  PROVE  IInv'
<1> USE DEF IInv, YieldToHost
<1> DEFINE r == [k |-> reg, queue |-> queue, futures |-> futures]
<1>1. /\ pending = <<>> /\ Noop \in Conts /\ reg \in Conts
      /\ \A u \in Threads : pc[u] # "live"
  BY DEF Handoff, TypeOK, Conts, Control
<1>2. r \in PendingRec
  BY DEF TypeOK, PendingRec
<1>3. pending' = <<r>> /\ pending' \in Seq(PendingRec)
  BY <1>1, <1>2
<1>4. TypeOK' /\ Control' /\ FutureStates'
  BY <1>1, <1>3 DEF TypeOK, Control, FutureStates
<1>5. OneHome'
  <2>1. /\ \A u \in Threads : Queued(u)' <=> Queued(u)
        /\ \A u \in Threads, g \in Futures : Parked(u, g)' <=> Parked(u, g)
    BY DEF Queued, Parked
  <2> QED BY <2>1 DEF OneHome, HasHome, QueuedOrParked, QueuedOnce, ParkedOnce
<1>6. /\ Len(pending') = 1 /\ DOMAIN pending' = {1} /\ pending'[1].k = reg
      /\ pending'[1].queue = queue /\ pending'[1].futures = futures
  BY <1>3
<1>7. ReturnedOnce' /\ Handoff'
  BY <1>6 DEF ReturnedOnce, Handoff, Owes
<1> QED BY <1>3, <1>4, <1>5, <1>7

\* The context restored is the one that was handed off, and it is the current one.
LEMMA HostResumeIInv ==
  ASSUME IInv, HostResume
  PROVE  IInv'
<1> USE DEF IInv
<1> DEFINE k == pending[1].k
<1>1. /\ pending # <<>> /\ at = "driver" /\ Len(pending) = 1 /\ Head(pending) = pending[1]
      /\ Tail(pending) = <<>> /\ pending[1] \in PendingRec /\ 1 \in DOMAIN pending
      /\ pending[1].queue = <<>> /\ queue = <<>> /\ pending[1].futures = futures
  BY DEF HostResume, Handoff, TypeOK
<1>2. /\ queue' = queue /\ futures' = futures /\ reg' = k /\ pending' = <<>>
      /\ at' = IF k = Noop THEN "driver" ELSE "user"
      /\ pc' = IF k # Noop THEN [pc EXCEPT ![k] = "live"] ELSE pc
      /\ UNCHANGED <<kont, got>>
  BY <1>1 DEF HostResume
<1>3. /\ k \in Conts
      /\ k # Noop => /\ k \in Threads /\ pc[k] = "calling"
                     /\ \A c \in Tasks : Owes(c) => kont[c] # k
  BY <1>1 DEF PendingRec, Conts, Threads, ReturnedOnce
<1>4. \A u \in Threads : pc[u] # "live"
  BY <1>1 DEF Control
<1> HIDE DEF k
<1>5. TypeOK'
  BY <1>2, <1>3 DEF TypeOK
<1>6. Control'
  BY <1>2, <1>3, <1>4 DEF Control, TypeOK
<1>7. FutureStates'
  BY <1>2, <1>3 DEF FutureStates, TypeOK, Threads
<1>8. OneHome'
  <2>1. /\ \A u \in Threads : Queued(u)' <=> Queued(u)
        /\ \A u \in Threads, g \in Futures : Parked(u, g)' <=> Parked(u, g)
    BY <1>2 DEF Queued, Parked
  <2>2. HasHome'
    BY <1>2, <1>3, <2>1 DEF OneHome, HasHome, TypeOK
  <2> QED BY <1>2, <2>1, <2>2 DEF OneHome, QueuedOrParked, QueuedOnce, ParkedOnce
<1>9. ReturnedOnce'
  <2>1. \A c \in Tasks : Owes(c)' <=> Owes(c)
    BY <1>2, <1>3 DEF Owes, TypeOK, Threads
  <2>2. \A c \in Tasks : Owes(c) => kont[c] \in Threads
    BY DEF Owes, TypeOK, Conts, Threads
  <2> QED BY <1>2, <1>3, <2>1, <2>2 DEF ReturnedOnce, TypeOK
<1>10. Handoff'
  BY <1>2 DEF Handoff
<1> QED BY <1>5, <1>6, <1>7, <1>8, <1>9, <1>10

\* The driver loop ends.
LEMMA HostExitIInv ==
  ASSUME IInv, HostExit
  PROVE  IInv'
<1> USE DEF IInv, HostExit
<1>1. TypeOK' /\ Control' /\ FutureStates'
  BY DEF TypeOK, Control, FutureStates
<1>2. OneHome'
  <2>1. /\ \A u \in Threads : Queued(u)' <=> Queued(u)
        /\ \A u \in Threads, g \in Futures : Parked(u, g)' <=> Parked(u, g)
    BY DEF Queued, Parked
  <2> QED BY <2>1 DEF OneHome, HasHome, QueuedOrParked, QueuedOnce, ParkedOnce
<1>3. ReturnedOnce' /\ Handoff'
  BY DEF ReturnedOnce, Handoff, Owes
<1> QED BY <1>1, <1>2, <1>3

\* Every step preserves the invariant.
THEOREM NextIInv == IInv /\ [Next]_vars => IInv'
<1> SUFFICES ASSUME IInv, [Next]_vars PROVE IInv'
  OBVIOUS
<1>1. ASSUME NEW t \in Threads, User(t)
      PROVE  IInv'
  <2>1. CASE Pause(t)
    BY <2>1, PauseIInv
  <2>2. CASE \E c \in Tasks : Spawn(t, c)
    BY <2>2, SpawnIInv
  <2>3. CASE \E p \in Promises : NewFuture(t, p)
    BY <2>3, NewFutureIInv
  <2>4. CASE \E f \in Futures : AwaitSettled(t, f) \/ AwaitOpen(t, f) \/ AwaitGone(t, f)
    BY <2>4, AwaitSettledIInv, AwaitOpenIInv, AwaitGoneIInv
  <2>5. CASE \E f \in Futures : SettleFuture(t, f)
    BY <2>5, SettleFutureIInv
  <2>6. CASE WithTasks(t)
    BY <2>6, WithTasksIInv
  <2>7. CASE FinishTask(t)
    BY <2>7, FinishTaskIInv
  <2> QED BY <1>1, <2>1, <2>2, <2>3, <2>4, <2>5, <2>6, <2>7 DEF User
<1>2. CASE FinishMain
  BY <1>2, FinishMainIInv
<1>3. CASE Scheduler
  BY <1>3, RunNextIInv, YieldToHostIInv DEF Scheduler
<1>4. CASE Host
  BY <1>4, HostResumeIInv, HostExitIInv DEF Host
<1>5. CASE UNCHANGED vars
  BY <1>5 DEF vars, IInv, TypeOK, Control, FutureStates, OneHome, HasHome, QueuedOrParked,
              QueuedOnce, ParkedOnce, Queued, Parked, ReturnedOnce, Owes, Handoff
<1> QED BY <1>1, <1>2, <1>3, <1>4, <1>5 DEF Next

\* The invariant holds of every reachable state.
THEOREM SpecIInv == Spec => []IInv
  BY InitIInv, NextIInv, PTL DEF Spec

-----------------------------------------------------------------------------
(* The results                                                             *)

\* Type correctness, for any tasks, futures and operations of the API in use.
THEOREM TypeCorrect == Spec => []TypeOK
<1>1. IInv => TypeOK
  BY DEF IInv
<1> QED BY <1>1, SpecIInv, PTL

\* No wakeup is lost and none delivered twice: the suspended threads are exactly those in
\* the run queue or parked on a future, each once.
THEOREM NoWakeupLost == Spec => []OneHome
<1>1. IInv => OneHome
  BY DEF IInv
<1> QED BY <1>1, SpecIInv, PTL

\* The continuation of a call to with_tasks or settle_future is never applied twice.
THEOREM CallsReturnOnce == Spec => []ReturnedOnce
<1>1. IInv => ReturnedOnce
  BY DEF IInv
<1> QED BY <1>1, SpecIInv, PTL

\* The context the host holds is never stale when it is restored.
THEOREM HandoffNeverStale == Spec => []Handoff
<1>1. IInv => Handoff
  BY DEF IInv
<1> QED BY <1>1, SpecIInv, PTL

\* No thread stays parked on the future of a task that has ended.
THEOREM EndedTasksHaveNoAwaiters == Spec => []ParkedIsLive
<1>1. IInv => ParkedIsLive
  <2> SUFFICES ASSUME IInv, NEW f \in Tasks, futures[f].awaits # <<>>
               PROVE  futures[f].st = "open" /\ pc[f] \notin {"unborn", "done"}
    BY DEF ParkedIsLive
  <2> QED BY DEF IInv, FutureStates, Futures
<1> QED BY <1>1, SpecIInv, PTL

-----------------------------------------------------------------------------
(* The host gets control when the run queue is empty                       *)

\* What ExitsWhenIdle needs: the queue is empty already when the scheduler hands over.
IdleAtHost == at \in {"driver", "exited"} /\ pc[Main] # "done" => queue = <<>>

\* Control unwinds to the host from yield_to_host, with nothing queued, or because main
\* returned; and the context the host restores has an empty queue.
LEMMA IdleStep == IInv /\ IdleAtHost /\ [Next]_vars => IdleAtHost'
<1> SUFFICES ASSUME IInv, IdleAtHost, [Next]_vars PROVE IdleAtHost'
  OBVIOUS
<1> USE DEF IdleAtHost, YieldUnder, Running
<1>1. ASSUME NEW t \in Threads, User(t)
      PROVE  at' \notin {"driver", "exited"}
  BY <1>1 DEF User, Pause, Spawn, NewFuture, AwaitSettled, AwaitOpen, AwaitGone,
              SettleFuture, WithTasks, FinishTask
<1>2. CASE FinishMain
  <2>1. Main \in Threads
    BY DEF Threads
  <2> QED BY <1>2, <2>1 DEF FinishMain, IInv, TypeOK
<1>3. CASE Scheduler
  BY <1>3 DEF Scheduler, RunNext, YieldToHost
<1>4. CASE HostResume
  <2>1. Head(pending) = pending[1] /\ pending[1].queue = <<>>
    BY <1>4 DEF HostResume, IInv, Handoff, TypeOK
  <2> QED BY <1>4, <2>1 DEF HostResume
<1>5. CASE HostExit
  BY <1>5 DEF HostExit
<1>6. CASE UNCHANGED vars
  BY <1>6 DEF vars
<1> QED BY <1>1, <1>2, <1>3, <1>4, <1>5, <1>6 DEF Next, Host

\* Whenever the host has control and main has not returned, nothing is queued.
THEOREM HostGetsIdle == Spec => []IdleAtHost
<1>1. Init => IdleAtHost
  BY DEF Init, IdleAtHost
<1> QED BY <1>1, IdleStep, SpecIInv, PTL DEF Spec

\* A program whose main has not returned ends only when no thread is ready to run.
THEOREM EndsOnlyIdle == Spec => []ExitsWhenIdle
<1>1. IdleAtHost => ExitsWhenIdle
  BY DEF IdleAtHost, ExitsWhenIdle
<1> QED BY <1>1, HostGetsIdle, PTL

-----------------------------------------------------------------------------
(* The refinement mapping, read as what is known of each thread            *)

\* What the abstract state says of the concrete one: a ready thread is one in the run
\* queue, a waiting one is parked, and it waits for the one future it is parked on.
Mapped ==
  /\ \A t \in Threads :
       /\ Status[t] = "new" <=> pc[t] = "unborn"
       /\ Status[t] = "running" <=> pc[t] = "live"
       /\ Status[t] = "ready" <=> Queued(t)
       /\ Status[t] = "waiting" <=> \E f \in Futures : Parked(t, f)
       /\ Status[t] = "calling" <=> pc[t] = "calling"
       /\ Status[t] = "done" <=> pc[t] = "done"
       /\ Status[t] \in {"new", "running", "ready", "waiting", "calling", "done"}
       /\ \A f \in Futures : Parked(t, f) => Waits[t] = f
       /\ (\A f \in Futures : ~Parked(t, f)) => Waits[t] = Noop
  /\ Status = [t \in Threads |-> Status[t]]
  /\ Waits = [t \in Threads |-> Waits[t]]

LEMMA StatesMap == IInv => Mapped
<1> SUFFICES ASSUME IInv PROVE Mapped
  OBVIOUS
<1>1. /\ Status = [t \in Threads |-> Status[t]]
      /\ Waits = [t \in Threads |-> Waits[t]]
  BY DEF Status, Waits
<1>2. ASSUME NEW t \in Threads
      PROVE  /\ Status[t] = "new" <=> pc[t] = "unborn"
             /\ Status[t] = "running" <=> pc[t] = "live"
             /\ Status[t] = "ready" <=> Queued(t)
             /\ Status[t] = "waiting" <=> \E f \in Futures : Parked(t, f)
             /\ Status[t] = "calling" <=> pc[t] = "calling"
             /\ Status[t] = "done" <=> pc[t] = "done"
             /\ Status[t] \in {"new", "running", "ready", "waiting", "calling", "done"}
  <2>1. pc[t] \in {"unborn", "suspended", "live", "calling", "done"}
    BY DEF IInv, TypeOK
  <2>2. pc[t] = "suspended" <=> Queued(t) \/ \E f \in Futures : Parked(t, f)
    BY DEF IInv, OneHome, HasHome
  <2>3. Queued(t) => ~ \E f \in Futures : Parked(t, f)
    BY DEF IInv, OneHome, QueuedOrParked
  <2>4. Status[t] = CASE pc[t] = "unborn" -> "new"
                      [] pc[t] = "live" -> "running"
                      [] pc[t] = "suspended" -> IF Queued(t) THEN "ready" ELSE "waiting"
                      [] OTHER -> pc[t]
    BY DEF Status
  <2> QED BY <2>1, <2>2, <2>3, <2>4
<1>3. ASSUME NEW t \in Threads
      PROVE  /\ \A f \in Futures : Parked(t, f) => Waits[t] = f
             /\ (\A f \in Futures : ~Parked(t, f)) => Waits[t] = Noop
  <2>1. \A f, g \in Futures : Parked(t, f) /\ Parked(t, g) => f = g
    BY DEF IInv, OneHome, ParkedOnce, Parked
  <2>2. Waits[t] = IF \E f \in Futures : Parked(t, f)
                     THEN CHOOSE f \in Futures : Parked(t, f) ELSE Noop
    BY DEF Waits
  <2> QED BY <2>1, <2>2
<1> QED BY <1>1, <1>2, <1>3 DEF Mapped

\* The mapping is that of the next state as well when the invariant still holds.
LEMMA BothMapped ==
  ASSUME IInv, IInv'
  PROVE  Mapped /\ Mapped'
<1>1. IInv => Mapped
  BY StatesMap
<1>2. IInv' => Mapped'
  BY StatesMap, PTL
<1> QED BY <1>1, <1>2

\* A thread is where the executor has it as long as neither its pc nor its home changes.
Untouched(u) ==
  /\ pc'[u] = pc[u]
  /\ Queued(u)' <=> Queued(u)
  /\ \A f \in Futures : Parked(u, f)' <=> Parked(u, f)

LEMMA Unmoved ==
  ASSUME IInv, IInv', NEW T \in SUBSET Threads, \A u \in Threads \ T : Untouched(u)
  PROVE  \A u \in Threads \ T : Status'[u] = Status[u] /\ Waits'[u] = Waits[u]
BY BothMapped DEF Mapped, Untouched

\* A step that touches no thread is a stutter of the executor.
LEMMA NobodyMoves ==
  ASSUME IInv, IInv', \A u \in Threads : Untouched(u)
  PROVE  UNCHANGED Exec!vars
<1>1. \A u \in Threads \ {} : Status'[u] = Status[u] /\ Waits'[u] = Waits[u]
  BY Unmoved
<1>2. Status' = Status /\ Waits' = Waits
  BY <1>1, BothMapped DEF Mapped
<1> QED BY <1>2 DEF Exec!vars

\* A step that touches only t changes the executor's state of t, or not even that.
LEMMA OneMoves ==
  ASSUME IInv, IInv', NEW t \in Threads, \A u \in Threads \ {t} : Untouched(u)
  PROVE  /\ Status' = [Status EXCEPT ![t] = Status'[t]]
         /\ Waits' = [Waits EXCEPT ![t] = Waits'[t]]
<1>1. \A u \in Threads \ {t} : Status'[u] = Status[u] /\ Waits'[u] = Waits[u]
  BY Unmoved
<1>2. /\ Status = [u \in Threads |-> Status[u]] /\ Status' = [u \in Threads |-> Status'[u]]
      /\ Waits = [u \in Threads |-> Waits[u]] /\ Waits' = [u \in Threads |-> Waits'[u]]
  BY BothMapped DEF Mapped
<1> QED BY <1>1, <1>2

\* Where nobody is parked on anything before or after, waits is left alone.
LEMMA SameWaits ==
  ASSUME IInv, IInv', NEW t \in Threads, \A u \in Threads \ {t} : Untouched(u),
         \A f \in Futures : Parked(t, f)' <=> Parked(t, f)
  PROVE  Status' = [Status EXCEPT ![t] = Status'[t]] /\ Waits' = Waits
<1>1. Waits'[t] = Waits[t]
  BY BothMapped DEF Mapped
<1>2. Waits = [u \in Threads |-> Waits[u]]
  BY BothMapped DEF Mapped
<1> QED BY <1>1, <1>2, OneMoves

-----------------------------------------------------------------------------
(* Every action is a step of the executor, or a stutter                    *)

\* pause gives up the turn.
LEMMA PauseRelinquishes ==
  ASSUME IInv, IInv', NEW t \in Threads, Pause(t)
  PROVE  Exec!Relinquish(t)
<1>1. /\ Running(t) /\ pc[t] = "live" /\ ~Queued(t)
      /\ pc' = [pc EXCEPT ![t] = "suspended"] /\ futures' = futures
      /\ queue' = Append(queue, Resume(t, Noop))
  BY RunningFacts DEF Pause
<1>2. Resume(t, Noop) \in Thunk /\ Resume(t, Noop).thread = t
  BY DEF Resume, Thunk, Conts
<1>3. \A u \in Threads : Queued(u)' <=> Queued(u) \/ u = t
  BY <1>1, <1>2, EnqueueOne DEF IInv, TypeOK
<1>4. \A u \in Threads, f \in Futures : Parked(u, f)' <=> Parked(u, f)
  BY <1>1 DEF Parked
<1>5. \A u \in Threads \ {t} : Untouched(u)
  BY <1>1, <1>3, <1>4 DEF Untouched, IInv, TypeOK
<1>6. Status' = [Status EXCEPT ![t] = Status'[t]] /\ Waits' = Waits
  BY <1>4, <1>5, SameWaits
<1>7. Status[t] = "running" /\ Status'[t] = "ready"
  BY <1>1, <1>3, BothMapped DEF Mapped
<1> QED BY <1>6, <1>7 DEF Exec!Relinquish

\* spawn launches the task.
LEMMA SpawnLaunches ==
  ASSUME IInv, IInv', NEW t \in Threads, NEW c \in Tasks, Spawn(t, c)
  PROVE  Exec!Launch(t, c)
<1>1. /\ Running(t) /\ pc[t] = "live" /\ pc[c] = "unborn" /\ c \in Threads /\ c \in Futures
      /\ pc' = [pc EXCEPT ![c] = "suspended"]
      /\ futures' = [futures EXCEPT ![c] = OpenFuture]
      /\ queue' = Append(queue, Start(c))
  BY RunningFacts DEF Spawn, Threads, Futures
<1>2. /\ Start(c) \in Thunk /\ Start(c).thread = c
      /\ OpenFuture \in FutureRec /\ OpenFuture.awaits = <<>>
  BY <1>1 DEF Start, Thunk, Conts, OpenFuture, FutureRec
<1>3. \A u \in Threads : Queued(u)' <=> Queued(u) \/ u = c
  BY <1>1, <1>2, EnqueueOne DEF IInv, TypeOK
<1>4. \A u \in Threads, f \in Futures : Parked(u, f)' <=> Parked(u, f)
  <2>1. \A u \in Threads, f \in Futures : Parked(u, f)' <=> Parked(u, f) /\ f # c
    BY <1>1, <1>2, UnparkAll DEF IInv, TypeOK
  <2>2. \A u \in Threads : ~Parked(u, c)
    BY <1>1 DEF IInv, FutureStates, Parked
  <2> QED BY <2>1, <2>2
<1>5. \A u \in Threads \ {c} : Untouched(u)
  BY <1>1, <1>3, <1>4 DEF Untouched, IInv, TypeOK
<1>6. Status' = [Status EXCEPT ![c] = Status'[c]] /\ Waits' = Waits
  BY <1>1, <1>4, <1>5, SameWaits
<1>7. Status[t] = "running" /\ Status[c] = "new" /\ Status'[c] = "ready"
  BY <1>1, <1>3, BothMapped DEF Mapped
<1> QED BY <1>6, <1>7 DEF Exec!Launch

\* await of an open future waits for it.
LEMMA AwaitOpenWaits ==
  ASSUME IInv, IInv', NEW t \in Threads, NEW f \in Futures, AwaitOpen(t, f)
  PROVE  Exec!Wait(t, f)
<1>1. /\ Running(t) /\ pc[t] = "live" /\ queue' = queue
      /\ pc' = [pc EXCEPT ![t] = "suspended"]
      /\ futures' = [futures EXCEPT ![f].awaits = Append(@, t)]
  BY RunningFacts DEF AwaitOpen
<1>2. \A u \in Threads : Queued(u)' <=> Queued(u)
  BY <1>1 DEF Queued
<1>3. \A u \in Threads, g \in Futures : Parked(u, g)' <=> Parked(u, g) \/ (u = t /\ g = f)
  BY <1>1, ParkOne DEF IInv, TypeOK
<1>4. \A u \in Threads \ {t} : Untouched(u)
  BY <1>1, <1>2, <1>3 DEF Untouched, IInv, TypeOK
<1>5. /\ Status' = [Status EXCEPT ![t] = Status'[t]]
      /\ Waits' = [Waits EXCEPT ![t] = Waits'[t]]
  BY <1>4, OneMoves
<1>6. Status[t] = "running" /\ Status'[t] = "waiting" /\ Waits'[t] = f
  BY <1>1, <1>3, BothMapped DEF Mapped
<1> QED BY <1>5, <1>6 DEF Exec!Wait

\* Settling f makes those that wait for it ready, whatever the caller goes on to be.
LEMMA SettleReleases ==
  ASSUME IInv, IInv', NEW t \in Threads, Running(t), NEW f \in Futures, Settle(f, t),
         futures[f].st # "unborn", NEW st \in {"calling", "done"},
         pc' = [pc EXCEPT ![t] = st]
  PROVE  Exec!Release(t, st, f)
<1>1. /\ pc[t] = "live" /\ t \in Conts /\ ~Queued(t)
      /\ \A g \in Futures : ~Parked(t, g)
  BY RunningFacts
<1>2. /\ \A u \in Threads : Queued(u)' <=> Queued(u) \/ Parked(u, f)
      /\ \A u \in Threads, g \in Futures : Parked(u, g)' <=> Parked(u, g) /\ g # f
  BY <1>1, SettleFacts
<1> DEFINE woken == {u \in Threads : Status[u] = "waiting" /\ Waits[u] = f}
<1>3. Mapped /\ Mapped'
  BY BothMapped
<1>4. \A u \in Threads : u \in woken <=> Parked(u, f)
  BY <1>3 DEF Mapped
<1>5. t \notin woken /\ Status'[t] = st /\ Waits'[t] = Waits[t]
  BY <1>1, <1>2, <1>3, <1>4 DEF Mapped, IInv, TypeOK
<1>6. \A u \in Threads : u \in woken => Status'[u] = "ready" /\ Waits'[u] = Noop
  <2>1. ASSUME NEW u \in Threads, Parked(u, f)
        PROVE  Queued(u)' /\ \A g \in Futures : ~Parked(u, g)'
    BY <1>2, <2>1 DEF IInv, OneHome, ParkedOnce, Parked
  <2> QED BY <1>3, <1>4, <2>1 DEF Mapped
<1>7. \A u \in Threads : u \notin woken /\ u # t => Status'[u] = Status[u] /\ Waits'[u] = Waits[u]
  <2>1. \A u \in Threads \ (woken \cup {t}) : Untouched(u)
    BY <1>2, <1>4 DEF Untouched, IInv, TypeOK
  <2> HIDE DEF woken
  <2>2. \A T \in SUBSET Threads :
          (\A u \in Threads \ T : Untouched(u)) =>
            \A u \in Threads \ T : Status'[u] = Status[u] /\ Waits'[u] = Waits[u]
    BY Unmoved
  <2>3. woken \cup {t} \in SUBSET Threads
    BY DEF woken
  <2> QED BY <2>1, <2>2, <2>3
<1> HIDE DEF woken
<1>8. /\ Status' = [u \in Threads |-> IF u = t THEN st
                                      ELSE IF u \in woken THEN "ready" ELSE Status[u]]
      /\ Waits' = [u \in Threads |-> IF u \in woken THEN Noop ELSE Waits[u]]
  <2>1. /\ Status' = [u \in Threads |-> Status'[u]] /\ Waits' = [u \in Threads |-> Waits'[u]]
    BY <1>3 DEF Mapped
  <2> QED BY <1>5, <1>6, <1>7, <2>1
<1> QED BY <1>8 DEF Exec!Release, woken

\* settle_future hands control over and releases the awaiters.
LEMMA SettleFutureCalls ==
  ASSUME IInv, IInv', NEW t \in Threads, NEW f \in Futures, SettleFuture(t, f)
  PROVE  Exec!Call(t)
<1>1. /\ Running(t) /\ pc[t] = "live" /\ futures[f].st # "unborn" /\ Settle(f, t)
      /\ pc' = [pc EXCEPT ![t] = "calling"]
  BY RunningFacts DEF SettleFuture
<1>2. Exec!Release(t, "calling", f)
  BY <1>1, SettleReleases
<1>3. Status[t] = "running"
  BY <1>1, BothMapped DEF Mapped
<1> QED BY <1>2, <1>3 DEF Exec!Call

\* The tail of with_tasks hands control over and releases nobody.
LEMMA WithTasksCalls ==
  ASSUME IInv, IInv', NEW t \in Threads, WithTasks(t)
  PROVE  Exec!Call(t)
<1>1. /\ pc[t] = "live" /\ pc' = [pc EXCEPT ![t] = "calling"]
      /\ queue' = queue /\ futures' = futures
  BY RunningFacts DEF WithTasks
<1>2. /\ \A u \in Threads : Queued(u)' <=> Queued(u)
      /\ \A u \in Threads, f \in Futures : Parked(u, f)' <=> Parked(u, f)
  BY <1>1 DEF Queued, Parked
<1>3. \A u \in Threads \ {t} : Untouched(u)
  BY <1>1, <1>2 DEF Untouched, IInv, TypeOK
<1>4. Status' = [Status EXCEPT ![t] = Status'[t]] /\ Waits' = Waits
  BY <1>2, <1>3, SameWaits
<1>5. Status[t] = "running" /\ Status'[t] = "calling"
  BY <1>1, BothMapped DEF Mapped, IInv, TypeOK
<1> QED BY <1>4, <1>5 DEF Exec!Call

\* A task that ends releases those that await it.
LEMMA FinishTaskEnds ==
  ASSUME IInv, IInv', NEW t \in Threads, FinishTask(t)
  PROVE  Exec!End(t)
<1>1. /\ Running(t) /\ pc[t] = "live" /\ t \in Futures /\ Settle(t, t)
      /\ pc' = [pc EXCEPT ![t] = "done"] /\ futures[t].st # "unborn"
  BY RunningFacts DEF FinishTask, Threads, Futures, IInv, FutureStates
<1>2. Exec!Release(t, "done", t)
  BY <1>1, SettleReleases
<1>3. Status[t] = "running"
  BY <1>1, BothMapped DEF Mapped
<1> QED BY <1>1, <1>2, <1>3 DEF Exec!End

\* main ends, and no thread waits for main.
LEMMA FinishMainEnds ==
  ASSUME IInv, IInv', FinishMain
  PROVE  Main \in Threads /\ Exec!End(Main)
<1>1. /\ Main \in Threads /\ Main \notin Futures /\ pc[Main] = "live"
      /\ pc' = [pc EXCEPT ![Main] = "done"] /\ queue' = queue /\ futures' = futures
  BY RunningFacts, NamesAssumption DEF FinishMain, Threads, Futures
<1>2. /\ \A u \in Threads : Queued(u)' <=> Queued(u)
      /\ \A u \in Threads, f \in Futures : Parked(u, f)' <=> Parked(u, f)
  BY <1>1 DEF Queued, Parked
<1>3. \A u \in Threads \ {Main} : Untouched(u)
  BY <1>1, <1>2 DEF Untouched, IInv, TypeOK
<1>4. Status' = [Status EXCEPT ![Main] = Status'[Main]] /\ Waits' = Waits
  BY <1>1, <1>2, <1>3, SameWaits
<1>5. Status[Main] = "running" /\ Status'[Main] = "done"
  BY <1>1, BothMapped DEF Mapped, IInv, TypeOK
<1> DEFINE woken == {u \in Threads : Status[u] = "waiting" /\ Waits[u] = Main}
<1>6. woken = {}
  BY <1>1, BothMapped DEF Mapped
<1>7. /\ Status = [u \in Threads |-> Status[u]]
      /\ Waits = [u \in Threads |-> Waits[u]]
  BY BothMapped DEF Mapped
<1> HIDE DEF woken
<1>8. /\ Status' = [u \in Threads |-> IF u = Main THEN "done"
                                      ELSE IF u \in woken THEN "ready" ELSE Status[u]]
      /\ Waits' = [u \in Threads |-> IF u \in woken THEN Noop ELSE Waits[u]]
  BY <1>4, <1>5, <1>6, <1>7
<1>9. Exec!Release(Main, "done", Main)
  BY <1>8 DEF Exec!Release, woken
<1> QED BY <1>1, <1>5, <1>9 DEF Exec!End

\* The scheduler gives the turn to the thread at the head of the queue.
LEMMA RunNextDispatches ==
  ASSUME IInv, IInv', RunNext
  PROVE  \E t \in Threads : Exec!Dispatch(t)
<1> DEFINE n == Head(queue).thread
<1>1. /\ at = "next" /\ queue # <<>> /\ queue' = Tail(queue) /\ futures' = futures
      /\ pc' = [pc EXCEPT ![n] = "live"]
  BY DEF RunNext
<1>2. /\ Head(queue) \in Thunk /\ Queued(n)
      /\ \A u \in Threads : Queued(u)' <=> Queued(u) /\ u # n
  BY <1>1, DequeueOne DEF IInv, TypeOK, OneHome
<1>3. n \in Threads
  BY <1>2 DEF Thunk
<1> HIDE DEF n
<1>4. \A u \in Threads, f \in Futures : Parked(u, f)' <=> Parked(u, f)
  BY <1>1 DEF Parked
<1>5. \A u \in Threads \ {n} : Untouched(u)
  BY <1>1, <1>2, <1>4 DEF Untouched, IInv, TypeOK
<1>6. Status' = [Status EXCEPT ![n] = Status'[n]] /\ Waits' = Waits
  BY <1>3, <1>4, <1>5, SameWaits
<1>7. Status[n] = "ready" /\ Status'[n] = "running"
  BY <1>1, <1>2, <1>3, BothMapped DEF Mapped, IInv, TypeOK
<1>8. \A u \in Threads : Status[u] # "running"
  BY <1>1, BothMapped DEF Mapped, IInv, Control
<1> QED BY <1>3, <1>6, <1>7, <1>8 DEF Exec!Dispatch, Exec!Nobody

\* The host gives the turn back to a thread that handed it over in a call, if the scheduler
\* was entered by one; then nothing is queued, so nobody is ready.
LEMMA HostResumeDispatches ==
  ASSUME IInv, IInv', HostResume
  PROVE  (\E t \in Threads : Exec!Dispatch(t)) \/ UNCHANGED Exec!vars
<1> DEFINE k == pending[1].k
<1>1. /\ at = "driver" /\ Head(pending) = pending[1] /\ 1 \in DOMAIN pending
      /\ pending[1] \in PendingRec
      /\ pending[1].queue = <<>> /\ queue = <<>> /\ pending[1].futures = futures
  BY DEF HostResume, IInv, Handoff, TypeOK
<1>2. /\ queue' = queue /\ futures' = futures
      /\ pc' = IF k # Noop THEN [pc EXCEPT ![k] = "live"] ELSE pc
  BY <1>1 DEF HostResume
<1>3. k # Noop => k \in Threads /\ pc[k] = "calling"
  BY <1>1 DEF PendingRec, Conts, Threads, IInv, ReturnedOnce
<1> HIDE DEF k
<1>4. /\ \A u \in Threads : Queued(u)' <=> Queued(u)
      /\ \A u \in Threads, f \in Futures : Parked(u, f)' <=> Parked(u, f)
  BY <1>2 DEF Queued, Parked
<1>5. CASE k = Noop
  BY <1>2, <1>4, <1>5, NobodyMoves DEF Untouched
<1>6. CASE k # Noop
  <2>1. \A u \in Threads \ {k} : Untouched(u)
    BY <1>2, <1>3, <1>4, <1>6 DEF Untouched, IInv, TypeOK
  <2>2. Status' = [Status EXCEPT ![k] = Status'[k]] /\ Waits' = Waits
    BY <1>3, <1>4, <1>6, <2>1, SameWaits
  <2>3. Status[k] = "calling" /\ Status'[k] = "running"
    BY <1>2, <1>3, <1>6, BothMapped DEF Mapped, IInv, TypeOK
  <2>4. \A u \in Threads : Status[u] # "running" /\ Status[u] # "ready"
    BY <1>1, BothMapped DEF Mapped, IInv, Control, Queued
  <2> QED BY <1>3, <1>6, <2>2, <2>3, <2>4 DEF Exec!Dispatch, Exec!Nobody
<1> QED BY <1>5, <1>6

\* The other actions move no thread: an await of a settled future goes on, a promise is
\* made, the instance traps, or control passes between the scheduler and the host.
LEMMA OthersStutter ==
  ASSUME IInv, IInv', NEW t \in Threads,
         \/ \E p \in Promises : NewFuture(t, p)
         \/ \E f \in Futures : AwaitSettled(t, f) \/ AwaitGone(t, f)
         \/ YieldToHost \/ HostExit \/ UNCHANGED vars
  PROVE  UNCHANGED Exec!vars
<1>1. pc' = pc /\ queue' = queue
  BY DEF NewFuture, AwaitSettled, AwaitGone, YieldToHost, HostExit, vars
<1>2. \A u \in Threads : Queued(u)' <=> Queued(u)
  BY <1>1 DEF Queued
<1>3. ASSUME NEW f \in Futures, NEW r \in FutureRec, futures' = [futures EXCEPT ![f] = r],
             r.awaits = <<>>, futures[f].st # "open"
      PROVE  \A u \in Threads, g \in Futures : Parked(u, g)' <=> Parked(u, g)
  <2>1. \A u \in Threads, g \in Futures : Parked(u, g)' <=> Parked(u, g) /\ g # f
    BY <1>3, UnparkAll DEF IInv, TypeOK
  <2>2. \A u \in Threads : ~Parked(u, f)
    BY <1>3 DEF IInv, FutureStates, Parked
  <2> QED BY <2>1, <2>2
<1>4. /\ OpenFuture \in FutureRec /\ OpenFuture.awaits = <<>>
      /\ Gone \in FutureRec /\ Gone.awaits = <<>>
  BY DEF OpenFuture, Gone, FutureRec, Conts
<1>5. CASE \E p \in Promises : NewFuture(t, p)
  BY <1>1, <1>2, <1>3, <1>4, <1>5, NobodyMoves DEF NewFuture, Futures, Untouched
<1>6. CASE \E f \in Futures : AwaitSettled(t, f)
  BY <1>1, <1>2, <1>3, <1>4, <1>6, NobodyMoves DEF AwaitSettled, Untouched
<1>7. CASE futures' = futures
  BY <1>1, <1>2, <1>7, NobodyMoves DEF Parked, Untouched
<1> QED BY <1>5, <1>6, <1>7 DEF AwaitGone, YieldToHost, HostExit, vars

-----------------------------------------------------------------------------
(* The refinement                                                          *)

\* Main runs and no task has been made.
LEMMA InitMaps == Init => Exec!Init
<1> SUFFICES ASSUME Init PROVE Exec!Init
  OBVIOUS
<1>1. IInv => Mapped
  BY StatesMap
<1>2. Mapped /\ pc = [t \in Threads |-> IF t = Main THEN "live" ELSE "unborn"]
  BY <1>1, InitIInv DEF Init
<1>3. \A t \in Threads : Status[t] = (IF t = Main THEN "running" ELSE "new")
  BY <1>2 DEF Mapped
<1>4. \A t \in Threads : Waits[t] = Noop
  BY <1>2 DEF Mapped, Init, Parked, Gone
<1> QED BY <1>2, <1>3, <1>4 DEF Mapped, Exec!Init

LEMMA StepMaps == IInv /\ IInv' /\ [Next]_vars => [Exec!Next]_(Exec!vars)
<1> SUFFICES ASSUME IInv, IInv', [Next]_vars PROVE [Exec!Next]_(Exec!vars)
  OBVIOUS
<1>1. ASSUME NEW t \in Threads, User(t)
      PROVE  Exec!Next \/ UNCHANGED Exec!vars
  <2>1. CASE Pause(t)
    BY <2>1, PauseRelinquishes DEF Exec!Next
  <2>2. CASE \E c \in Tasks : Spawn(t, c)
    BY <2>2, SpawnLaunches DEF Exec!Next, Threads
  <2>3. CASE \E p \in Promises : NewFuture(t, p)
    BY <2>3, OthersStutter
  <2>4. CASE \E f \in Futures : AwaitOpen(t, f)
    BY <2>4, AwaitOpenWaits DEF Exec!Next
  <2>5. CASE \E f \in Futures : AwaitSettled(t, f) \/ AwaitGone(t, f)
    BY <2>5, OthersStutter
  <2>6. CASE \E f \in Futures : SettleFuture(t, f)
    BY <2>6, SettleFutureCalls DEF Exec!Next
  <2>7. CASE WithTasks(t)
    BY <2>7, WithTasksCalls DEF Exec!Next
  <2>8. CASE FinishTask(t)
    BY <2>8, FinishTaskEnds DEF Exec!Next
  <2> QED BY <1>1, <2>1, <2>2, <2>3, <2>4, <2>5, <2>6, <2>7, <2>8 DEF User
<1>2. CASE FinishMain
  BY <1>2, FinishMainEnds DEF Exec!Next
<1>3. CASE RunNext
  BY <1>3, RunNextDispatches DEF Exec!Next
<1>4. CASE HostResume
  BY <1>4, HostResumeDispatches DEF Exec!Next
<1>5. CASE YieldToHost \/ HostExit \/ UNCHANGED vars
  <2>1. Main \in Threads
    BY DEF Threads
  <2> QED BY <1>5, <2>1, OthersStutter
<1> QED BY <1>1, <1>2, <1>3, <1>4, <1>5 DEF Next, Scheduler, Host

\* The scheduler of tasks.fnk under the host's driver implements the abstract executor:
\* threads run one at a time, settling wakes exactly the awaiters of that future, and a
\* call that hands control over is returned to only when no thread is ready.
THEOREM SchedulerImplementsExecutor == Spec => ImplementsExecutor
<1>1. IInv /\ IInv' /\ [Next]_vars => [Exec!Next]_(Exec!vars)
  BY StepMaps
<1> QED BY <1>1, InitMaps, SpecIInv, PTL DEF Spec, ImplementsExecutor, Exec!Spec

-----------------------------------------------------------------------------
(* The result of an await                                                  *)

\* What t's last await was given is the result of the task it was for.
Matched(t) == got[t].fut # Noop => got[t].val = got[t].fut

\* A resumption with a value, as settle_future queues them, brings what its thread awaits.
Brings(th) ==
  IF th.kind = "resume" /\ th.val # Noop THEN th.val = got[th.thread].fut
                                         ELSE Matched(th.thread)

\* The strengthening ResultsMatch needs, along the way a result takes: it is in the table
\* as the result of its own task, a parked thread is parked on what it awaits, and what is
\* queued for a thread is what that thread awaited.
ResultInv ==
  /\ \A f \in Futures : futures[f].st = "settled" => futures[f].rslt = f
  /\ \A t \in Threads, f \in Futures : Parked(t, f) => got[t].fut = f
  /\ \A i \in DOMAIN queue : Brings(queue[i])
  /\ \A t \in Threads : pc[t] # "suspended" => Matched(t)

\* Nothing has been awaited.
LEMMA InitResultInv == Init => ResultInv
  BY DEF Init, ResultInv, Brings, Parked, Gone, Matched

\* What is queued is a thunk of a queued thread.
LEMMA QueuedThunks ==
  ASSUME queue \in Seq(Thunk)
  PROVE  \A i \in DOMAIN queue : /\ queue[i] \in Thunk /\ queue[i].thread \in Threads
                                 /\ Queued(queue[i].thread)
<1>1. \A i \in DOMAIN queue : queue[i] \in Thunk
  BY LenProperties, ElementOfSeq
<1> QED BY <1>1 DEF Queued, Thunk

\* The thunks in the queue after one was added behind it, after its head was taken off, and
\* after the awaiters of a future were added.
LEMMA AddedOne ==
  ASSUME queue \in Seq(Thunk), NEW th \in Thunk, queue' = Append(queue, th)
  PROVE  \A i \in DOMAIN queue' : (\E j \in DOMAIN queue : queue'[i] = queue[j]) \/ queue'[i] = th
<1>1. /\ Len(queue) \in Nat
      /\ DOMAIN queue = 1 .. Len(queue) /\ DOMAIN queue' = 1 .. Len(queue) + 1
      /\ \A i \in 1 .. Len(queue) : queue'[i] = queue[i]
      /\ queue'[Len(queue) + 1] = th
  BY AppendProperties, LenProperties
<1>2. ASSUME NEW i \in DOMAIN queue'
      PROVE  (\E j \in DOMAIN queue : queue'[i] = queue[j]) \/ queue'[i] = th
  <2>1. i \in 1 .. Len(queue) \/ i = Len(queue) + 1
    BY <1>1
  <2> QED BY <1>1, <2>1
<1> QED BY <1>2

LEMMA TookHead ==
  ASSUME queue \in Seq(Thunk), queue # <<>>, queue' = Tail(queue)
  PROVE  /\ \A i \in DOMAIN queue' : \E j \in DOMAIN queue : queue'[i] = queue[j]
         /\ \E j \in DOMAIN queue : Head(queue) = queue[j]
<1>1. /\ Len(queue) \in Nat /\ Len(queue) > 0 /\ Head(queue) = queue[1]
      /\ DOMAIN queue = 1 .. Len(queue) /\ DOMAIN queue' = 1 .. Len(queue) - 1
      /\ \A i \in 1 .. Len(queue) - 1 : queue'[i] = queue[i + 1]
  BY HeadTailProperties, LenProperties, EmptySeq
<1>2. \A i \in DOMAIN queue' : i + 1 \in DOMAIN queue /\ queue'[i] = queue[i + 1]
  BY <1>1
<1> QED BY <1>1, <1>2

LEMMA AddedAwaiters ==
  ASSUME queue \in Seq(Thunk), NEW f \in Futures, futures[f].awaits \in Seq(Threads),
         NEW v \in Conts,
         queue' = queue \o [i \in DOMAIN futures[f].awaits |-> Resume(futures[f].awaits[i], v)]
  PROVE  \A i \in DOMAIN queue' :
           \/ \E j \in DOMAIN queue : queue'[i] = queue[j]
           \/ \E u \in Threads : Parked(u, f) /\ queue'[i] = Resume(u, v)
<1> DEFINE aw    == futures[f].awaits
           woken == [i \in DOMAIN aw |-> Resume(aw[i], v)]
<1>1. /\ DOMAIN aw = 1 .. Len(aw) /\ Len(aw) \in Nat
      /\ \A i \in DOMAIN aw : aw[i] \in Threads /\ Resume(aw[i], v) \in Thunk
  BY LenProperties DEF Resume, Thunk
<1>2. woken \in Seq(Thunk) /\ DOMAIN woken = DOMAIN aw
  <2>1. woken = [i \in 1 .. Len(aw) |-> Resume(aw[i], v)]
    BY <1>1
  <2> QED BY <1>1, <2>1
<1> DEFINE c == queue \o woken
<1>3. queue' = c
  OBVIOUS
<1>4. /\ \A i \in DOMAIN queue : i \in DOMAIN c /\ c[i] = queue[i]
      /\ \A i \in DOMAIN woken : Len(queue) + i \in DOMAIN c /\ c[Len(queue) + i] = woken[i]
      /\ \A i \in DOMAIN c : i \in DOMAIN queue \/ \E j \in DOMAIN woken : i = Len(queue) + j
  <2>1. woken \in Seq(Thunk) /\ queue \in Seq(Thunk)
    BY <1>2
  <2> HIDE DEF woken
  <2> QED BY <2>1, ConcatParts
<1>5. \A i \in DOMAIN aw : woken[i] = Resume(aw[i], v)
  OBVIOUS
<1> HIDE DEF woken, c
<1>6. ASSUME NEW i \in DOMAIN c
      PROVE  \/ \E j \in DOMAIN queue : c[i] = queue[j]
             \/ \E u \in Threads : Parked(u, f) /\ c[i] = Resume(u, v)
  <2>1. CASE i \in DOMAIN queue
    BY <1>4, <2>1
  <2>2. CASE \E j \in DOMAIN woken : i = Len(queue) + j
    <3>1. PICK j \in DOMAIN woken : i = Len(queue) + j
      BY <2>2
    <3>2. c[i] = Resume(aw[j], v) /\ aw[j] \in Threads /\ j \in DOMAIN aw
      BY <1>1, <1>2, <1>4, <1>5, <3>1
    <3>3. Parked(aw[j], f)
      BY <3>2 DEF Parked
    <3> QED BY <3>2, <3>3
  <2> QED BY <1>4, <2>1, <2>2
<1> QED BY <1>3, <1>6

\* A thread that pauses, or a task that is spawned, is queued with nothing to be given.
LEMMA QueueingKeepsResults ==
  ASSUME IInv, ResultInv, NEW t \in Threads,
         Pause(t) \/ \E c \in Tasks : Spawn(t, c)
  PROVE  ResultInv'
<1> USE DEF ResultInv, Brings, Matched
<1>1. /\ got' = got /\ \A u \in Threads : pc'[u] # "suspended" => pc[u] # "suspended"
      /\ \E th \in Thunk : /\ queue' = Append(queue, th) /\ th.val = Noop
                           /\ pc[th.thread] # "suspended"
  <2>1. CASE Pause(t)
    <3>1. Resume(t, Noop) \in Thunk /\ Resume(t, Noop).val = Noop /\ Resume(t, Noop).thread = t
      BY DEF Resume, Thunk, Conts
    <3> QED BY <2>1, <3>1, RunningFacts DEF Pause, IInv, TypeOK
  <2>2. CASE \E c \in Tasks : Spawn(t, c)
    <3>1. PICK c \in Tasks : Spawn(t, c)
      BY <2>2
    <3>2. Start(c) \in Thunk /\ Start(c).val = Noop /\ Start(c).thread = c
      BY DEF Start, Thunk, Conts, Threads
    <3>3. c \in Threads
      BY DEF Threads
    <3> QED BY <3>1, <3>2, <3>3 DEF Spawn, IInv, TypeOK
  <2> QED BY <2>1, <2>2
<1>2. PICK th \in Thunk : /\ queue' = Append(queue, th) /\ th.val = Noop
                          /\ pc[th.thread] # "suspended"
  BY <1>1
<1>3. \A i \in DOMAIN queue' : (\E j \in DOMAIN queue : queue'[i] = queue[j]) \/ queue'[i] = th
  BY <1>2, AddedOne DEF IInv, TypeOK
<1>4. th.thread \in Threads
  BY DEF Thunk
<1>5. /\ \A f \in Futures : futures'[f].st = "settled" => futures'[f] = futures[f]
      /\ \A u \in Threads, f \in Futures : Parked(u, f)' => Parked(u, f)
  <2>1. CASE Pause(t)
    BY <2>1 DEF Pause, Parked
  <2>2. CASE \E c \in Tasks : Spawn(t, c)
    <3>1. PICK c \in Tasks : Spawn(t, c)
      BY <2>2
    <3>2. /\ futures' = [futures EXCEPT ![c] = OpenFuture]
          /\ OpenFuture \in FutureRec /\ OpenFuture.awaits = <<>> /\ OpenFuture.st = "open"
          /\ c \in Futures
      BY <3>1 DEF Spawn, OpenFuture, FutureRec, Futures, Conts
    <3>3. \A u \in Threads, f \in Futures : Parked(u, f)' => Parked(u, f)
      BY <3>2, UnparkAll DEF IInv, TypeOK
    <3> QED BY <3>2, <3>3 DEF IInv, TypeOK
  <2> QED BY <2>1, <2>2
<1> QED BY <1>1, <1>2, <1>3, <1>4, <1>5

\* await of a settled future takes the result out of the table, the task's own.
LEMMA AwaitSettledKeepsResults ==
  ASSUME IInv, ResultInv, NEW t \in Threads, NEW f \in Futures, AwaitSettled(t, f)
  PROVE  ResultInv'
<1> USE DEF ResultInv, Brings, Matched
<1>1. /\ futures' = [futures EXCEPT ![f] = Gone] /\ queue' = queue /\ pc' = pc
      /\ got' = [got EXCEPT ![t] = [fut |-> f, val |-> f]]
      /\ ~Queued(t) /\ \A g \in Futures : ~Parked(t, g)
  BY RunningFacts DEF AwaitSettled
<1>2. Gone \in FutureRec /\ Gone.awaits = <<>> /\ Gone.st = "gone"
  BY DEF Gone, FutureRec, Conts
<1>3. /\ \A u \in Threads, g \in Futures : Parked(u, g)' => Parked(u, g) /\ u # t
      /\ \A g \in Futures : futures'[g].st = "settled" => futures'[g] = futures[g]
  <2>1. \A u \in Threads, g \in Futures : Parked(u, g)' <=> Parked(u, g) /\ g # f
    BY <1>1, <1>2, UnparkAll DEF IInv, TypeOK
  <2> QED BY <1>1, <1>2, <2>1 DEF IInv, TypeOK
<1>4. /\ got'[t] = [fut |-> f, val |-> f]
      /\ \A u \in Threads \ {t} : got'[u] = got[u]
  BY <1>1 DEF IInv, TypeOK
<1>5. \A i \in DOMAIN queue : queue[i].thread \in Threads \ {t}
  BY <1>1, QueuedThunks DEF IInv, TypeOK
<1> QED BY <1>1, <1>3, <1>4, <1>5

\* A thread that parks is parked on what it awaits.
LEMMA AwaitOpenKeepsResults ==
  ASSUME IInv, ResultInv, NEW t \in Threads, NEW f \in Futures, AwaitOpen(t, f)
  PROVE  ResultInv'
<1> USE DEF ResultInv, Brings, Matched
<1>1. /\ futures' = [futures EXCEPT ![f].awaits = Append(@, t)] /\ queue' = queue
      /\ pc' = [pc EXCEPT ![t] = "suspended"]
      /\ got' = [got EXCEPT ![t] = [fut |-> f, val |-> Noop]]
      /\ ~Queued(t) /\ \A g \in Futures : ~Parked(t, g)
  BY RunningFacts DEF AwaitOpen
<1>2. \A u \in Threads, g \in Futures : Parked(u, g)' <=> Parked(u, g) \/ (u = t /\ g = f)
  BY <1>1, ParkOne DEF IInv, TypeOK
<1>3. \A g \in Futures : futures'[g].st = futures[g].st /\ futures'[g].rslt = futures[g].rslt
  BY <1>1 DEF IInv, TypeOK, FutureRec
<1>4. /\ got'[t] = [fut |-> f, val |-> Noop]
      /\ \A u \in Threads \ {t} : got'[u] = got[u]
  BY <1>1 DEF IInv, TypeOK
<1>5. \A i \in DOMAIN queue : queue[i].thread \in Threads \ {t}
  BY <1>1, QueuedThunks DEF IInv, TypeOK
<1>6. pc'[t] = "suspended" /\ \A u \in Threads \ {t} : pc'[u] = pc[u]
  BY <1>1 DEF IInv, TypeOK
<1> QED BY <1>1, <1>2, <1>3, <1>4, <1>5, <1>6

\* A task that ends puts its own result in the table, or hands it to those parked on it.
LEMMA FinishTaskKeepsResults ==
  ASSUME IInv, ResultInv, NEW t \in Threads, FinishTask(t)
  PROVE  ResultInv'
<1> USE DEF ResultInv, Brings, Matched
<1>1. /\ Settle(t, t) /\ t \in Futures /\ t \in Conts /\ t # Noop /\ pc[t] = "live"
      /\ pc' = [pc EXCEPT ![t] = "done"] /\ got' = got
      /\ futures[t].st # "unborn" /\ futures[t].awaits \in Seq(Threads)
  BY RunningFacts DEF FinishTask, Threads, Futures, IInv, FutureStates, TypeOK, FutureRec
<1>2. \A u \in Threads, g \in Futures : Parked(u, g)' => Parked(u, g)
  BY <1>1, SettleFacts, RunningFacts DEF FinishTask
<1>3. \A u \in Threads : pc'[u] # "suspended" => pc[u] # "suspended"
  BY <1>1 DEF IInv, TypeOK
<1>4. \A g \in Futures : futures'[g].st = "settled" => futures'[g].rslt = g
  BY <1>1 DEF Settle, Settled, Gone, ctx, IInv, TypeOK
<1>5. \A i \in DOMAIN queue' : Brings(queue[i])'
  <2>1. CASE queue' = queue
    BY <1>1, <2>1
  <2>2. CASE queue' = queue \o [i \in DOMAIN futures[t].awaits |-> Resume(futures[t].awaits[i], t)]
    <3>1. \A i \in DOMAIN queue' :
            \/ \E j \in DOMAIN queue : queue'[i] = queue[j]
            \/ \E u \in Threads : Parked(u, t) /\ queue'[i] = Resume(u, t)
      <4> HIDE DEF ResultInv, Brings, Matched
      <4> QED BY <1>1, <2>2, AddedAwaiters DEF IInv, TypeOK
    <3>2. ASSUME NEW i \in DOMAIN queue', NEW u \in Threads, Parked(u, t), queue'[i] = Resume(u, t)
          PROVE  /\ queue'[i].kind = "resume" /\ queue'[i].val = t
                 /\ t = got'[queue'[i].thread].fut
      BY <1>1, <3>2 DEF Resume
    <3> QED BY <1>1, <3>1, <3>2
  <2> QED BY <1>1, <2>1, <2>2 DEF Settle, ctx
<1> QED BY <1>1, <1>2, <1>3, <1>4, <1>5

\* The thread taken off the queue is given what was queued for it.
LEMMA RunNextKeepsResults ==
  ASSUME IInv, ResultInv, RunNext
  PROVE  ResultInv'
<1> USE DEF ResultInv, Brings, Matched
<1> DEFINE th == Head(queue)
           n  == th.thread
<1>1. /\ queue # <<>> /\ queue' = Tail(queue) /\ futures' = futures
      /\ pc' = [pc EXCEPT ![n] = "live"]
      /\ got' = IF th.kind = "resume" /\ th.val # Noop
                  THEN [got EXCEPT ![n].val = th.val] ELSE got
  BY DEF RunNext
<1>2. /\ th \in Thunk /\ Queued(n) /\ \A u \in Threads : Queued(u)' <=> Queued(u) /\ u # n
  BY <1>1, DequeueOne DEF IInv, TypeOK, OneHome
<1>3. /\ \A i \in DOMAIN queue' : \E j \in DOMAIN queue : queue'[i] = queue[j]
      /\ \E j \in DOMAIN queue : th = queue[j]
  BY <1>1, TookHead DEF IInv, TypeOK
<1>4. Brings(th)
  BY <1>3
<1>5. n \in Threads /\ \A f \in Futures : ~Parked(n, f)
  BY <1>2 DEF Thunk, IInv, OneHome, QueuedOrParked
<1> HIDE DEF th, n
<1>6. /\ \A u \in Threads \ {n} : got'[u] = got[u] /\ pc'[u] = pc[u]
      /\ got'[n].fut = got[n].fut /\ pc'[n] = "live"
      /\ got'[n].val = IF th.kind = "resume" /\ th.val # Noop THEN th.val ELSE got[n].val
  BY <1>1, <1>5 DEF IInv, TypeOK
<1>7. got'[n].fut # Noop => got'[n].val = got'[n].fut
  BY <1>4, <1>6 DEF n
<1>8. ASSUME NEW i \in DOMAIN queue'
      PROVE  Brings(queue[i])'
  <2>1. queue'[i].thread # n /\ queue'[i].thread \in Threads
    <3>1. queue'[i].thread \in Threads
      BY <1>3, QueuedThunks DEF IInv, TypeOK
    <3>2. \A u \in Threads : queue'[i].thread = u => Queued(u)'
      BY DEF Queued
    <3>3. \A u \in Threads : Queued(u)' => u # n
      BY <1>2 DEF n, th
    <3> QED BY <3>1, <3>2, <3>3
  <2> QED BY <1>3, <1>6, <2>1
<1>9. \A u \in Threads, f \in Futures : Parked(u, f)' => got'[u].fut = f
  BY <1>1, <1>5, <1>6 DEF Parked
<1> QED BY <1>1, <1>6, <1>7, <1>8, <1>9

\* Nothing else gives or queues a result: no thread becomes suspended or stops being so,
\* but for one the host gives the turn back to, which was in a call.
LEMMA OthersKeepResults ==
  ASSUME IInv, ResultInv, NEW t \in Threads,
         \/ \E f \in Futures : AwaitGone(t, f)
         \/ WithTasks(t) \/ FinishMain \/ YieldToHost \/ HostResume \/ HostExit \/ UNCHANGED vars
  PROVE  ResultInv'
<1> USE DEF ResultInv, Brings, Matched
<1>1. queue' = queue /\ futures' = futures /\ got' = got
  BY DEF AwaitGone, WithTasks, FinishMain, YieldToHost, HostResume, HostExit, vars,
         IInv, Handoff, TypeOK
<1>2. \A u \in Threads : pc'[u] # "suspended" => pc[u] # "suspended"
  <2>1. CASE WithTasks(t) \/ FinishMain
    BY <2>1, RunningFacts DEF WithTasks, FinishMain, Threads, IInv, TypeOK
  <2>2. CASE HostResume
    <3>1. /\ Head(pending) = pending[1] /\ pending[1].queue = <<>>
          /\ pending[1].k # Noop => pc[pending[1].k] = "calling"
      BY <2>2 DEF HostResume, IInv, Handoff, TypeOK, ReturnedOnce
    <3> QED BY <2>2, <3>1 DEF HostResume, IInv, TypeOK
  <2> QED BY <2>1, <2>2 DEF AwaitGone, YieldToHost, HostExit, vars
<1>3. \A u \in Threads, f \in Futures : Parked(u, f)' <=> Parked(u, f)
  BY <1>1 DEF Parked
<1> QED BY <1>1, <1>2, <1>3

\* Without settle_future no future is made or settled by hand, and every step keeps to it.
LEMMA ResultStep ==
  ASSUME "settle" \notin Ops
  PROVE  IInv /\ ResultInv /\ [Next]_vars => ResultInv'
<1> SUFFICES ASSUME IInv, ResultInv, [Next]_vars PROVE ResultInv'
  OBVIOUS
<1>1. ASSUME NEW t \in Threads, User(t)
      PROVE  ResultInv'
  <2>1. ~ \E p \in Promises : NewFuture(t, p)
    BY DEF NewFuture
  <2>2. ~ \E f \in Futures : SettleFuture(t, f)
    BY DEF SettleFuture
  <2>3. CASE Pause(t) \/ \E c \in Tasks : Spawn(t, c)
    BY <2>3, QueueingKeepsResults
  <2>4. CASE \E f \in Futures : AwaitSettled(t, f) \/ AwaitOpen(t, f) \/ AwaitGone(t, f)
    BY <2>4, AwaitSettledKeepsResults, AwaitOpenKeepsResults, OthersKeepResults
  <2>5. CASE WithTasks(t)
    BY <2>5, OthersKeepResults
  <2>6. CASE FinishTask(t)
    BY <2>6, FinishTaskKeepsResults
  <2> QED BY <1>1, <2>1, <2>2, <2>3, <2>4, <2>5, <2>6 DEF User
<1>2. CASE RunNext
  BY <1>2, RunNextKeepsResults
<1>3. CASE FinishMain \/ YieldToHost \/ HostResume \/ HostExit \/ UNCHANGED vars
  <2>1. Main \in Threads
    BY DEF Threads
  <2> QED BY <1>3, <2>1, OthersKeepResults
<1> QED BY <1>1, <1>2, <1>3 DEF Next, Scheduler, Host

\* A thread goes on from an await of a task with that task's result, whether it parked or
\* found the future settled, when futures are settled by their tasks only.
THEOREM AwaitGivesTheResult ==
  ASSUME "settle" \notin Ops
  PROVE  Spec => []ResultsMatch
<1>1. IInv /\ ResultInv /\ [Next]_vars => ResultInv'
  BY ResultStep
<1>2. ResultInv => ResultsMatch
  BY DEF ResultInv, ResultsMatch, Matched
<1> QED BY <1>1, <1>2, InitResultInv, SpecIInv, PTL DEF Spec

-----------------------------------------------------------------------------
(* What a program is stuck on                                              *)

\* When a program ends and its main has not returned, each suspended thread is parked on a
\* future that is still open: a promise nobody settled, or that of a task which is itself
\* suspended or waits in a call.
StuckOnOpen ==
  at = "exited" /\ pc[Main] # "done" =>
    \A t \in Threads : pc[t] = "suspended" =>
      \E f \in Futures : /\ Parked(t, f) /\ futures[f].st = "open"
                         /\ f \in Tasks => pc[f] \in {"suspended", "calling"}

\* No thread is ready when the host gets control (IdleAtHost), so whoever is suspended is
\* parked, and on a future that is open.
LEMMA IdleIsStuck == IInv /\ IdleAtHost => StuckOnOpen
<1> SUFFICES ASSUME IInv, IdleAtHost, at = "exited", pc[Main] # "done",
                    NEW t \in Threads, pc[t] = "suspended"
             PROVE  \E f \in Futures : /\ Parked(t, f) /\ futures[f].st = "open"
                                       /\ f \in Tasks => pc[f] \in {"suspended", "calling"}
  BY DEF StuckOnOpen
<1>1. ~Queued(t)
  BY DEF IdleAtHost, Queued
<1>2. PICK f \in Futures : Parked(t, f)
  BY <1>1 DEF IInv, OneHome, HasHome
<1>3. futures[f].awaits # <<>> /\ futures[f].st = "open"
  BY <1>2 DEF IInv, FutureStates, Parked
<1>4. ASSUME f \in Tasks
      PROVE  pc[f] \in {"suspended", "calling"}
  <2>1. f \in Threads /\ pc[f] \in {"unborn", "suspended", "live", "calling", "done"}
    BY <1>4 DEF Threads, IInv, TypeOK
  <2>2. pc[f] # "unborn" /\ pc[f] # "done"
    BY <1>3, <1>4 DEF IInv, FutureStates
  <2>3. pc[f] # "live"
    BY <2>1 DEF IInv, Control
  <2> QED BY <2>1, <2>2, <2>3
<1> QED BY <1>2, <1>3, <1>4

\* For any operations of the API: nobody is left suspended on something that could still
\* have happened.
THEOREM EndsStuckOnOpen == Spec => []StuckOnOpen
  BY IdleIsStuck, SpecIInv, HostGetsIdle, PTL

\* With spawn, pause and await no thread is in a call and no promise is made.
PlainInv ==
  /\ \A t \in Threads : pc[t] # "calling"
  /\ \A f \in Futures \ Tasks : futures[f].st = "unborn"

LEMMA PlainStep ==
  ASSUME Ops \subseteq {"pause", "spawn", "await"}
  PROVE  IInv /\ PlainInv /\ [Next]_vars => PlainInv'
<1> SUFFICES ASSUME IInv, PlainInv, [Next]_vars PROVE PlainInv'
  OBVIOUS
<1> USE DEF PlainInv
<1>1. ASSUME NEW t \in Threads, User(t)
      PROVE  PlainInv'
  <2>1. /\ ~ WithTasks(t)
        /\ ~ \E p \in Promises : NewFuture(t, p)
        /\ ~ \E f \in Futures : SettleFuture(t, f)
    BY DEF NewFuture, SettleFuture, WithTasks
  <2>2. CASE Pause(t)
    BY <2>2 DEF Pause, IInv, TypeOK
  <2>3. CASE \E c \in Tasks : Spawn(t, c)
    BY <2>3 DEF Spawn, IInv, TypeOK, Futures
  <2>4. CASE \E f \in Futures : AwaitSettled(t, f)
    BY <2>4 DEF AwaitSettled, IInv, TypeOK
  <2>5. CASE \E f \in Futures : AwaitOpen(t, f)
    BY <2>5 DEF AwaitOpen, IInv, TypeOK
  <2>6. CASE \E f \in Futures : AwaitGone(t, f)
    BY <2>6 DEF AwaitGone
  <2>7. CASE FinishTask(t)
    <3>1. t \in Tasks /\ futures' = [futures EXCEPT ![t] = futures'[t]]
      BY <2>7 DEF FinishTask, Threads, Futures, Settle, ctx, IInv, TypeOK
    <3> QED BY <2>7, <3>1 DEF FinishTask, IInv, TypeOK, Futures
  <2> QED BY <1>1, <2>1, <2>2, <2>3, <2>4, <2>5, <2>6, <2>7 DEF User
<1>2. CASE FinishMain \/ RunNext \/ YieldToHost \/ HostExit \/ UNCHANGED vars
  BY <1>2 DEF FinishMain, RunNext, YieldToHost, HostExit, vars, IInv, TypeOK
<1>3. CASE HostResume
  <2>1. Head(pending) = pending[1] /\ pending[1].queue = <<>> /\ pending[1].futures = futures
    BY <1>3 DEF HostResume, IInv, Handoff, TypeOK
  <2> QED BY <1>3, <2>1 DEF HostResume, IInv, TypeOK
<1> QED BY <1>1, <1>2, <1>3 DEF Next, Scheduler, Host

\* A program of spawn, pause and await ends without its main returning in one way only:
\* every suspended thread awaits the future of another suspended thread.
THEOREM StuckInACircle ==
  ASSUME Ops \subseteq {"pause", "spawn", "await"}
  PROVE  Spec => []StuckIsCircular
<1>1. IInv /\ PlainInv /\ [Next]_vars => PlainInv'
  BY PlainStep
<1>2. Init => PlainInv
  BY DEF Init, PlainInv, Gone
<1>3. IInv /\ PlainInv /\ StuckOnOpen => StuckIsCircular
  <2> SUFFICES ASSUME IInv, PlainInv, StuckOnOpen, at = "exited", pc[Main] # "done",
                      NEW t \in Threads, pc[t] = "suspended"
               PROVE  \E f \in Tasks : Parked(t, f) /\ pc[f] = "suspended"
    BY DEF StuckIsCircular
  <2> QED BY DEF StuckOnOpen, PlainInv, Threads
<1> QED BY <1>1, <1>2, <1>3, SpecIInv, EndsStuckOnOpen, PTL DEF Spec
=============================================================================
