------------------------------ MODULE MCTasks ------------------------------
(* Small instances of Tasks. *)
EXTENDS Tasks

AllOps  == {"pause", "spawn", "await", "with_tasks", "settle"}
JoinOps == {"pause", "spawn", "with_tasks"}
=============================================================================
