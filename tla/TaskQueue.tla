------------------------------- MODULE TaskQueue -------------------------------
(***************************************************************************)
(* What the threads that meet in a ThreadSafeQueue rely on, and what the   *)
(* queues of RequestPipeline take for granted: a push puts its task behind *)
(* every task there is, and the only consumer deals with the tasks one     *)
(* after the other, oldest first.                                          *)
(***************************************************************************)
EXTENDS Sequences

CONSTANT Tasks

VARIABLE tasks   (* pushed and not dealt with yet, oldest first *)

Init == tasks = <<>>

Push(v) == tasks' = Append(tasks, v)

Take == tasks # <<>> /\ tasks' = Tail(tasks)

Next == Take \/ \E v \in Tasks : Push(v)

SafeSpec == Init /\ [][Next]_tasks

\* Every task is dealt with in the end.
Spec == SafeSpec /\ WF_tasks(Take)
===============================================================================
