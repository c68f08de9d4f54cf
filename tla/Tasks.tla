-------------------------------- MODULE Tasks --------------------------------
(***************************************************************************)
(* The cooperative scheduler of pkgs/std/tasks.fnk, running on the         *)
(* `suspend' and context primitives of src/runtime/apply.wat, under the    *)
(* host driver of src/runner/wasmtime_runner.rs.                           *)
(*                                                                         *)
(* A fink program is in continuation-passing style: every call hands its   *)
(* callee a continuation, and a call that never applies it never returns.  *)
(* What the model keeps of that is who holds whose continuation: a thread  *)
(* suspended by `suspend' is a closure stored in the run queue or in the   *)
(* `awaits' of a future, while a thread that made an ordinary call to the  *)
(* scheduler (the tail of with_tasks, or settle_future) is a frame that    *)
(* somebody has to return to.                                              *)
(***************************************************************************)
EXTENDS Naturals, Sequences, FiniteSets

CONSTANTS
  Tasks,     \* identities of the tasks a program may spawn
  Main,      \* the program's main function
  Promises,  \* futures made with `future _' and owned by no task
  Ops,       \* the operations of the API the program uses
  Noop       \* the no-op continuation of apply.wat

Threads == Tasks \cup {Main}
Futures == Tasks \cup Promises
Conts   == Threads \cup {Noop}

ASSUME NamesAssumption ==
  /\ Main \notin Tasks
  /\ Noop \notin Tasks \cup {Main}
  /\ Promises \cap (Tasks \cup {Main}) = {}

ASSUME OpsAssumption ==
  Ops \subseteq {"pause", "spawn", "await", "with_tasks", "settle"}

VARIABLES
  queue,    \* ctx slot `tasks': the run queue, a sequence of thunks
  futures,  \* ctx slot `future': state, awaiters and result of each future
  at,       \* where control is: user code, the scheduler (next), the driver, or nowhere
  reg,      \* the running thread, or the continuation the scheduler runs under
  pc,       \* what each thread is doing
  kont,     \* the continuation under which each task was started
  pending,  \* ExitState.pending_resumes of the host
  got       \* what each thread's last await was for, and what it was given

ctx  == <<queue, futures>>
vars == <<queue, futures, at, reg, pc, kont, pending, got>>

-----------------------------------------------------------------------------
(* The values                                                              *)

\* `fn: resume v' of pause, `wrapped' of spawn, `fn: settle result' of settle_future.
Thunk == [kind : {"start", "resume"}, thread : Threads, val : Conts]

Start(t)     == [kind |-> "start",  thread |-> t, val |-> Noop]
Resume(t, v) == [kind |-> "resume", thread |-> t, val |-> v]

\* A future that has left the table (`gone') is told apart from one never made only
\* because a program needs the handle: the code finds no entry for either.
FutureRec == [st : {"unborn", "open", "settled", "gone"},
              awaits : Seq(Threads), rslt : Conts]

OpenFutureBare == [st |-> "open", awaits |-> <<>>]                        \* mutant
OpenFuture == [st |-> "open", awaits |-> <<>>, rslt |-> Noop]
Settled(v) == [st |-> "settled", awaits |-> <<>>, rslt |-> v]
Gone       == [st |-> "gone", awaits |-> <<>>, rslt |-> Noop]

Init ==
  /\ queue = <<>>
  /\ futures = [f \in Futures |-> [Gone EXCEPT !.st = "unborn"]]
  /\ at = "user" /\ reg = Main
  /\ pc = [t \in Threads |-> IF t = Main THEN "live" ELSE "unborn"]
  /\ kont = [t \in Threads |-> Noop]
  /\ pending = <<>>
  /\ got = [t \in Threads |-> [fut |-> Noop, val |-> Noop]]

Running(t) == at = "user" /\ reg = t

\* Enter yield_to_next_resumable with continuation k.
YieldUnder(k) == at' = "next" /\ reg' = k

-----------------------------------------------------------------------------
(* The operations of the API, called by the running thread                 *)

\* mutant: the body of the suspend runs under the caller's continuation.
PauseUnderCaller(t) ==
  /\ "pause" \in Ops /\ Running(t)
  /\ queue' = Append(queue, Resume(t, Noop))
  /\ pc' = [pc EXCEPT ![t] = "suspended"]
  /\ YieldUnder(t)
  /\ UNCHANGED <<futures, kont, pending, got>>

\* mutant: the resumption is put in front of the queue.
PauseInFront(t) ==
  /\ "pause" \in Ops /\ Running(t)
  /\ queue' = <<Resume(t, Noop)>> \o queue
  /\ pc' = [pc EXCEPT ![t] = "suspended"]
  /\ YieldUnder(Noop)
  /\ UNCHANGED <<futures, kont, pending, got>>

\* mutant: the call unwinds to the host without entering the scheduler.
PauseUnwinds(t) ==
  /\ "pause" \in Ops /\ Running(t)
  /\ queue' = Append(queue, Resume(t, Noop))
  /\ pc' = [pc EXCEPT ![t] = "suspended"]
  /\ at' = "driver" /\ reg' = Noop
  /\ UNCHANGED <<futures, kont, pending, got>>

\* pause: suspend, queue the resumption, yield. Nothing returns to the body of a
\* suspend, so the scheduler runs under the no-op continuation.
Pause(t) ==
  /\ "pause" \in Ops /\ Running(t)
  /\ queue' = Append(queue, Resume(t, Noop))
  /\ pc' = [pc EXCEPT ![t] = "suspended"]
  /\ YieldUnder(Noop)
  /\ UNCHANGED <<futures, kont, pending, got>>

\* spawn: a fresh future and the wrapped task queued behind it; the caller goes on.
Spawn(t, c) ==
  /\ "spawn" \in Ops /\ Running(t) /\ pc[c] = "unborn"
  /\ futures' = [futures EXCEPT ![c] = OpenFuture]
  /\ queue' = Append(queue, Start(c))
  /\ pc' = [pc EXCEPT ![c] = "suspended"]
  /\ UNCHANGED <<at, reg, kont, pending, got>>

\* future: a future somebody else will settle.
NewFuture(t, p) ==
  /\ "settle" \in Ops /\ Running(t) /\ futures[p].st = "unborn"
  /\ futures' = [futures EXCEPT ![p] = OpenFuture]
  /\ UNCHANGED <<queue, at, reg, pc, kont, pending, got>>

\* await, first arm: the future is settled. Its entry is matched out of the table (the
\* `..futures' of the pattern is what is left), and the thread goes on with the result.
AwaitSettled(t, f) ==
  /\ "await" \in Ops /\ Running(t) /\ futures[f].st = "settled"
  /\ futures' = [futures EXCEPT ![f] = Gone]
  /\ got' = [got EXCEPT ![t] = [fut |-> f, val |-> futures[f].rslt]]
  /\ UNCHANGED <<queue, at, reg, pc, kont, pending>>

\* mutant: the thread parks and goes on.
AwaitOpenGoesOn(t, f) ==
  /\ "await" \in Ops /\ Running(t) /\ futures[f].st = "open"
  /\ futures' = [futures EXCEPT ![f].awaits = Append(@, t)]
  /\ got' = [got EXCEPT ![t] = [fut |-> f, val |-> Noop]]
  /\ UNCHANGED <<queue, at, reg, pc, kont, pending>>

\* await, second arm: park on the future and yield.
AwaitOpen(t, f) ==
  /\ "await" \in Ops /\ Running(t) /\ futures[f].st = "open"
  /\ futures' = [futures EXCEPT ![f].awaits = Append(@, t)]
  /\ got' = [got EXCEPT ![t] = [fut |-> f, val |-> Noop]]
  /\ pc' = [pc EXCEPT ![t] = "suspended"]
  /\ YieldUnder(Noop)
  /\ UNCHANGED <<queue, kont, pending>>

\* await, last arm: no entry. `resume _' applies the resumption to no argument, and
\* taking the head of the empty argument list traps the instance.
AwaitGone(t, f) ==
  /\ "await" \in Ops /\ Running(t) /\ futures[f].st = "gone"
  /\ at' = "trapped"
  /\ UNCHANGED <<queue, futures, reg, pc, kont, pending, got>>

\* mutant: only the first awaiter is woken.
SettleFirst(f, v) ==
  LET awaits == futures[f].awaits
  IN  CASE futures[f].st \in {"open", "settled"} /\ awaits = <<>> ->
             /\ futures' = [futures EXCEPT ![f] = Settled(v)]
             /\ UNCHANGED queue
        [] futures[f].st = "open" /\ awaits # <<>> ->
             /\ futures' = [futures EXCEPT ![f].awaits = Tail(@)]
             /\ queue' = Append(queue, Resume(Head(awaits), v))
        [] OTHER -> UNCHANGED ctx

\* mutant: the awaiters are resumed with what the future held before.
SettleStale(f, v) ==
  LET awaits == futures[f].awaits
  IN  CASE futures[f].st \in {"open", "settled"} /\ awaits = <<>> ->
             /\ futures' = [futures EXCEPT ![f] = Settled(v)]
             /\ UNCHANGED queue
        [] futures[f].st = "open" /\ awaits # <<>> ->
             /\ futures' = [futures EXCEPT ![f] = Gone]
             /\ queue' = queue \o [i \in DOMAIN awaits |-> Resume(awaits[i], futures[f].rslt)]
        [] OTHER -> UNCHANGED ctx

\* settle_future up to its yield. A future nobody awaits keeps the result; one that is
\* awaited hands its awaiters to the run queue and is matched out of the table.
Settle(f, v) ==
  LET awaits == futures[f].awaits
  IN  CASE futures[f].st \in {"open", "settled"} /\ awaits = <<>> ->
             /\ futures' = [futures EXCEPT ![f] = Settled(v)]
             /\ UNCHANGED queue
        [] futures[f].st = "open" /\ awaits # <<>> ->
             /\ futures' = [futures EXCEPT ![f] = Gone]
             /\ queue' = queue \o [i \in DOMAIN awaits |-> Resume(awaits[i], v)]
        [] OTHER -> UNCHANGED ctx

\* settle_future called by user code: the caller waits in an ordinary call.
SettleFuture(t, f) ==
  /\ "settle" \in Ops /\ Running(t) /\ futures[f].st # "unborn"
  /\ Settle(f, t)
  /\ pc' = [pc EXCEPT ![t] = "calling"]
  /\ YieldUnder(t)
  /\ UNCHANGED <<kont, pending, got>>

\* with_tasks, once its body has returned: yield in an ordinary call.
WithTasks(t) ==
  /\ "with_tasks" \in Ops /\ Running(t)
  /\ pc' = [pc EXCEPT ![t] = "calling"]
  /\ YieldUnder(t)
  /\ UNCHANGED <<queue, futures, kont, pending, got>>

\* mutant: the wrapped task yields without settling its future.
FinishTaskUnsettled(t) ==
  /\ Running(t) /\ t # Main
  /\ pc' = [pc EXCEPT ![t] = "done"]
  /\ YieldUnder(kont[t])
  /\ UNCHANGED <<queue, futures, kont, pending, got>>

\* The tail of `wrapped': the task's result settles its future, and the scheduler is
\* entered under the continuation the task was started with.
FinishTask(t) ==
  /\ Running(t) /\ t # Main
  /\ Settle(t, t)
  /\ pc' = [pc EXCEPT ![t] = "done"]
  /\ YieldUnder(kont[t])
  /\ UNCHANGED <<kont, pending, got>>

\* main returns: host_invoke_cont records the exit code and the call unwinds to the host.
FinishMain ==
  /\ Running(Main)
  /\ pc' = [pc EXCEPT ![Main] = "done"]
  /\ at' = "driver" /\ reg' = Noop
  /\ UNCHANGED <<queue, futures, kont, pending, got>>

-----------------------------------------------------------------------------
(* The scheduler                                                           *)

\* mutant: dequeue reads the head and does not write the rest back.
RunNextPeek ==
  /\ at = "next" /\ queue # <<>>
  /\ LET th == Head(queue)
     IN  /\ kont' = IF th.kind = "start" THEN [kont EXCEPT ![th.thread] = reg] ELSE kont
         /\ pc' = [pc EXCEPT ![th.thread] = "live"]
         /\ at' = "user" /\ reg' = th.thread
  /\ UNCHANGED <<queue, futures, pending, got>>

\* yield_to_next_resumable, queue not empty: dequeue and apply the thunk. A started task
\* takes the scheduler's continuation over; a resumption drops it (_suspend_resume_fn).
RunNext ==
  /\ at = "next" /\ queue # <<>>
  /\ LET th == Head(queue)
     IN  /\ kont' = IF th.kind = "start" THEN [kont EXCEPT ![th.thread] = reg] ELSE kont
         /\ got' = IF th.kind = "resume" /\ th.val # Noop
                     THEN [got EXCEPT ![th.thread].val = th.val] ELSE got
         /\ pc' = [pc EXCEPT ![th.thread] = "live"]
         /\ at' = "user" /\ reg' = th.thread
  /\ queue' = Tail(queue)
  /\ UNCHANGED <<futures, pending>>

\* mutant: the host is yielded to whatever the queue holds.
YieldToHostBusy ==
  /\ at = "next"
  /\ pending' = Append(pending, [k |-> reg, queue |-> queue, futures |-> futures])
  /\ at' = "driver" /\ reg' = Noop
  /\ UNCHANGED <<queue, futures, pc, kont, got>>

\* yield_to_next_resumable, queue empty: yield_to_host hands its continuation and the
\* context to the host, and the call unwinds.
YieldToHost ==
  /\ at = "next" /\ queue = <<>>
  /\ pending' = Append(pending, [k |-> reg, queue |-> queue, futures |-> futures])
  /\ at' = "driver" /\ reg' = Noop
  /\ UNCHANGED <<queue, futures, pc, kont, got>>

\* The driver loop: invoke_resume re-enters yield_to_host under the context stored with
\* the resumption. With something queued the scheduler goes on; otherwise false is
\* returned to the continuation the scheduler was entered with, a thread waiting in a
\* call or the no-op, which unwinds to the driver.
HostResume ==
  /\ at = "driver" /\ pending # <<>>
  /\ LET resumed == Head(pending)
     IN  /\ queue' = resumed.queue
         /\ futures' = resumed.futures
         /\ reg' = resumed.k
         /\ at' = CASE resumed.queue # <<>> -> "next"
                    [] resumed.queue = <<>> /\ resumed.k = Noop -> "driver"
                    [] OTHER -> "user"
         /\ pc' = IF resumed.queue = <<>> /\ resumed.k # Noop
                    THEN [pc EXCEPT ![resumed.k] = "live"] ELSE pc
  /\ pending' = Tail(pending)
  /\ UNCHANGED <<kont, got>>

\* The driver loop ends with nothing pending: run returns the exit code.
HostExit ==
  /\ at = "driver" /\ pending = <<>>
  /\ at' = "exited"
  /\ UNCHANGED <<queue, futures, reg, pc, kont, pending, got>>

-----------------------------------------------------------------------------
User(t) ==
  \/ Pause(t)
  \/ \E c \in Tasks : Spawn(t, c)
  \/ \E p \in Promises : NewFuture(t, p)
  \/ \E f \in Futures : AwaitSettled(t, f) \/ AwaitOpen(t, f) \/ AwaitGone(t, f)
  \/ \E f \in Futures : SettleFuture(t, f)
  \/ WithTasks(t)
  \/ FinishTask(t)

Scheduler == RunNext \/ YieldToHost
Host      == HostResume \/ HostExit

Next == (\E t \in Threads : User(t)) \/ FinishMain \/ Scheduler \/ Host

Spec == Init /\ [][Next]_vars

\* The instance is one machine that keeps executing.
FairSpec == Spec /\ WF_vars(Next)

-----------------------------------------------------------------------------
(* Properties                                                              *)

PendingRec == [k : Conts, queue : Seq(Thunk), futures : [Futures -> FutureRec]]

\* Every variable has its type.
TypeOK ==
  /\ queue \in Seq(Thunk)
  /\ futures \in [Futures -> FutureRec]
  /\ at \in {"user", "next", "driver", "exited", "trapped"}
  /\ reg \in Conts
  /\ pc \in [Threads -> {"unborn", "suspended", "live", "calling", "done"}]
  /\ kont \in [Threads -> Conts]
  /\ pending \in Seq(PendingRec)
  /\ got \in [Threads -> [fut : Futures \cup {Noop}, val : Conts]]

Queued(t)    == \E i \in DOMAIN queue : queue[i].thread = t
Parked(t, f) == \E i \in DOMAIN futures[f].awaits : futures[f].awaits[i] = t

HasHome == \A t \in Threads :
  pc[t] = "suspended" <=> Queued(t) \/ \E f \in Futures : Parked(t, f)

QueuedOrParked == \A t \in Threads : \A f \in Futures : ~(Queued(t) /\ Parked(t, f))

QueuedOnce == \A i, j \in DOMAIN queue : queue[i].thread = queue[j].thread => i = j

ParkedOnce == \A f, g \in Futures :
  \A i \in DOMAIN futures[f].awaits, j \in DOMAIN futures[g].awaits :
    futures[f].awaits[i] = futures[g].awaits[j] => f = g /\ i = j

\* A suspended thread has exactly one pending resumption, in the run queue or with one
\* future, and nobody else has any: no wakeup is lost, and none is delivered twice.
OneHome == HasHome /\ QueuedOrParked /\ QueuedOnce /\ ParkedOnce

\* A started task that has not ended still owes a return to the thread it was started under.
Owes(c) == c \in Tasks /\ pc[c] # "done" /\ kont[c] # Noop

\* A thread waiting in a call (with_tasks, settle_future) is returned to at most once: its
\* continuation is held by one started task, or by the scheduler, or by the host.
ReturnedOnce ==
  /\ \A c \in Tasks : Owes(c) => pc[kont[c]] = "calling"
  /\ \A c, d \in Tasks : Owes(c) /\ Owes(d) /\ kont[c] = kont[d] => c = d
  /\ at = "next" /\ reg # Noop =>
       pc[reg] = "calling" /\ \A c \in Tasks : Owes(c) => kont[c] # reg
  /\ \A i \in DOMAIN pending : pending[i].k # Noop =>
       pc[pending[i].k] = "calling" /\ \A c \in Tasks : Owes(c) => kont[c] # pending[i].k

\* The host holds at most one resumption, only while the driver loop runs, and the context
\* stored with it is the current one: restoring it loses no future and no queued thread
\* (so the first arm of yield_to_host, "there is something to run", is never taken).
Handoff ==
  pending # <<>> =>
    /\ at = "driver" /\ Len(pending) = 1
    /\ pending[1].queue = <<>> /\ queue = <<>>
    /\ pending[1].futures = futures

\* Nobody is left parked on the future of a task that has ended: however spawn, pause,
\* await and the task's end interleave, settling finds every awaiter.
ParkedIsLive ==
  \A f \in Tasks : futures[f].awaits # <<>> =>
    futures[f].st = "open" /\ pc[f] \notin {"unborn", "done"}

\* A program whose main has not returned ends only when no thread is ready to run.
ExitsWhenIdle == at = "exited" /\ pc[Main] # "done" => queue = <<>>

\* With tasks' own futures only, a thread goes on from an await of a task with that
\* task's result, whether it parked or found the future settled.
ResultsMatch ==
  \A t \in Threads :
    pc[t] \in {"live", "done"} /\ got[t].fut # Noop => got[t].val = got[t].fut

\* With spawn, pause and await only, the program can end without main returning in one
\* way: every thread that has not ended awaits the future of another that has not.
StuckIsCircular ==
  at = "exited" /\ pc[Main] # "done" =>
    \A t \in Threads : pc[t] = "suspended" =>
      \E f \in Tasks : Parked(t, f) /\ pc[f] = "suspended"

\* A thread in the run queue gets its turn, unless the program ends or traps: pausing
\* threads cannot starve it (pause and spawn queue behind it).
QueuedRuns ==
  \A t \in Threads :
    Queued(t) ~> (Running(t) \/ at \in {"exited", "trapped"})

\* The test `spawning' goes on after with_tasks, whatever the tasks in it do: a program
\* does not end with its main still waiting in with_tasks.
WithTasksReturns == at = "exited" => pc[Main] # "calling"

-----------------------------------------------------------------------------
(* The scheduler implements the abstract executor                          *)

\* What each thread is doing, and the future it waits for, as the users of the API see it.
Status == [t \in Threads |->
  CASE pc[t] = "unborn" -> "new"
    [] pc[t] = "live" -> "running"
    [] pc[t] = "suspended" -> IF Queued(t) THEN "ready" ELSE "waiting"
    [] OTHER -> pc[t]]

Waits == [t \in Threads |->
  IF \E f \in Futures : Parked(t, f) THEN CHOOSE f \in Futures : Parked(t, f) ELSE Noop]

Exec == INSTANCE Executor WITH None <- Noop, status <- Status, waits <- Waits

\* Every step is one the abstract executor may take: threads run one at a time, settling
\* wakes exactly the awaiters of that future, and a call that hands control over is
\* returned to only when no thread is ready.
ImplementsExecutor == Exec!Spec
=============================================================================
