------------------------------ MODULE Executor ------------------------------
(***************************************************************************)
(* What std/tasks.fnk promises its users, without queues, continuations or *)
(* a host: threads take turns one at a time, a thread that awaits a future *)
(* is ready again when the future is settled, and a thread that handed     *)
(* control over in a call (with_tasks, settle_future) gets it back only    *)
(* when no thread is ready.                                                *)
(***************************************************************************)
CONSTANTS Threads, Main, Futures, None

VARIABLES
  status,  \* what each thread is doing
  waits    \* the future a waiting thread waits for

vars == <<status, waits>>

TypeOK ==
  /\ status \in [Threads -> {"new", "ready", "running", "waiting", "calling", "done"}]
  /\ waits \in [Threads -> Futures \cup {None}]

Init ==
  /\ status = [t \in Threads |-> IF t = Main THEN "running" ELSE "new"]
  /\ waits = [t \in Threads |-> None]

Nobody(st) == \A t \in Threads : status[t] # st

\* The threads that wait for f become ready, and t goes on to be st.
Release(t, st, f) ==
  LET woken == {u \in Threads : status[u] = "waiting" /\ waits[u] = f}
  IN  /\ status' = [u \in Threads |-> IF u = t THEN st
                                      ELSE IF u \in woken THEN "ready" ELSE status[u]]
      /\ waits' = [u \in Threads |-> IF u \in woken THEN None ELSE waits[u]]

\* A running thread starts another, gives up its turn, or waits for a future.
Launch(t, c) ==
  /\ status[t] = "running" /\ status[c] = "new"
  /\ status' = [status EXCEPT ![c] = "ready"]
  /\ UNCHANGED waits

Relinquish(t) ==
  /\ status[t] = "running"
  /\ status' = [status EXCEPT ![t] = "ready"]
  /\ UNCHANGED waits

Wait(t, f) ==
  /\ status[t] = "running"
  /\ status' = [status EXCEPT ![t] = "waiting"]
  /\ waits' = [waits EXCEPT ![t] = f]

\* A running thread hands control over, settling a future or none, or ends.
Call(t) ==
  /\ status[t] = "running"
  /\ \/ status' = [status EXCEPT ![t] = "calling"] /\ UNCHANGED waits
     \/ \E f \in Futures : Release(t, "calling", f)

End(t) == status[t] = "running" /\ \E f \in Futures \cup {Main} : Release(t, "done", f)

\* The turn goes to a ready thread; with none ready, back to a calling one.
Dispatch(t) ==
  /\ Nobody("running")
  /\ status[t] = "ready" \/ (status[t] = "calling" /\ Nobody("ready"))
  /\ status' = [status EXCEPT ![t] = "running"]
  /\ UNCHANGED waits

Next == \E t \in Threads :
  \/ \E c \in Threads : Launch(t, c)
  \/ Relinquish(t)
  \/ \E f \in Futures : Wait(t, f)
  \/ Call(t)
  \/ End(t)
  \/ Dispatch(t)

Spec == Init /\ [][Next]_vars
=============================================================================
