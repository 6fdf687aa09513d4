---------------------------- MODULE ThreadSafeQueue ----------------------------
(***************************************************************************)
(* ThreadSafeQueue as its threads execute it: several producers push, one  *)
(* consumer takes everything with pop_all and then works through what it   *)
(* got (fetch_new_requests, the sender threads, the two gc threads).  The  *)
(* std::queue itself is not safe to share: whoever changes it reads it     *)
(* first and stores the result in a later step, and only the mutex keeps   *)
(* the others out in between.                                              *)
(***************************************************************************)
EXTENDS Naturals, Sequences

CONSTANTS
  Producers,   (* threads that push                          *)
  Consumer,    (* the thread that calls pop_all              *)
  Free,        (* nobody: the mutex is not held              *)
  MaxPushes    (* bound: tasks each producer pushes          *)

Threads == Producers \union {Consumer}

ASSUME QueueThreads ==
  /\ Consumer \notin Producers
  /\ Free \notin Threads
  /\ MaxPushes \in [Producers -> Nat]

Task(p, k) == [from |-> p, number |-> k]
Tasks == UNION {{Task(p, k) : k \in 1..MaxPushes[p]} : p \in Producers}

VARIABLES
  mutex,    (* the thread that holds the lock, or Free                 *)
  at,       (* where each thread is: outside, inside, about to store   *)
  changed,  (* the queue as a thread is about to leave it              *)
  queue,
  pushed,   (* tasks each producer has pushed                          *)
  result,   (* the vector pop_all fills                                *)
  batch     (* what the consumer still has to work through             *)

vars == <<mutex, at, changed, queue, pushed, result, batch>>

Init ==
  /\ mutex = Free
  /\ at = [t \in Threads |-> "outside"]
  /\ changed = [t \in Threads |-> <<>>]
  /\ queue = <<>>
  /\ pushed = [p \in Producers |-> 0]
  /\ result = <<>>
  /\ batch = <<>>

\* A thread that takes no notice of the others.
Lock_Unguarded(t) ==
  /\ at[t] = "outside"
  /\ mutex' = t
  /\ at' = [at EXCEPT ![t] = "inside"]

\* lock_guard and unique_lock: entered alone, left at the end of the scope.
Lock(t) ==
  /\ at[t] = "outside"
  /\ mutex = Free
  /\ mutex' = t
  /\ at' = [at EXCEPT ![t] = "inside"]

Unlock(t) ==
  /\ mutex' = Free
  /\ at' = [at EXCEPT ![t] = "outside"]

-------------------------------------------------------------------------------
(* push.                                                                   *)

BeginPush(p) ==
  /\ pushed[p] < MaxPushes[p]
  /\ Lock(p)
  /\ UNCHANGED <<changed, queue, pushed, result, batch>>

ReadEnd(p) ==
  /\ at[p] = "inside"
  /\ changed' = [changed EXCEPT ![p] = Append(queue, Task(p, pushed[p] + 1))]
  /\ at' = [at EXCEPT ![p] = "storing"]
  /\ UNCHANGED <<mutex, queue, pushed, result, batch>>

EndPush(p) ==
  /\ at[p] = "storing"
  /\ queue' = changed[p]
  /\ pushed' = [pushed EXCEPT ![p] = @ + 1]
  /\ Unlock(p)
  /\ UNCHANGED <<changed, result, batch>>

-------------------------------------------------------------------------------
(* pop_all, called again once the last batch has been worked through.      *)

BeginPop ==
  /\ batch = <<>>
  /\ Lock(Consumer)
  /\ UNCHANGED <<changed, queue, pushed, result, batch>>

\* emplace_back(move(front())): the task is in both for a moment.
MoveFront ==
  /\ at[Consumer] = "inside"
  /\ queue # <<>>
  /\ result' = Append(result, Head(queue))
  /\ changed' = [changed EXCEPT ![Consumer] = Tail(queue)]
  /\ at' = [at EXCEPT ![Consumer] = "storing"]
  /\ UNCHANGED <<mutex, queue, pushed, batch>>

PopFront ==
  /\ at[Consumer] = "storing"
  /\ queue' = changed[Consumer]
  /\ at' = [at EXCEPT ![Consumer] = "inside"]
  /\ UNCHANGED <<mutex, changed, pushed, result, batch>>

\* The vector is returned with one task left in the queue.
EndPop_OneLeft ==
  /\ at[Consumer] = "inside"
  /\ Len(queue) <= 1
  /\ batch' = result
  /\ result' = <<>>
  /\ Unlock(Consumer)
  /\ UNCHANGED <<changed, queue, pushed>>

EndPop ==
  /\ at[Consumer] = "inside"
  /\ queue = <<>>
  /\ batch' = result
  /\ result' = <<>>
  /\ Unlock(Consumer)
  /\ UNCHANGED <<changed, queue, pushed>>

\* One round of the consumer's loop over the batch.
Handle ==
  /\ batch # <<>>
  /\ batch' = Tail(batch)
  /\ UNCHANGED <<mutex, at, changed, queue, pushed, result>>

-------------------------------------------------------------------------------

PushStep(p) == BeginPush(p) \/ ReadEnd(p) \/ EndPush(p)
PopStep     == BeginPop \/ MoveFront \/ PopFront \/ EndPop \/ Handle

Next == PopStep \/ \E p \in Producers : PushStep(p)

Spec == Init /\ [][Next]_vars

\* Every thread keeps running.  The mutex is not fair: a thread that waits for
\* it is only sure to get it once it stays free.
Fairness ==
  /\ WF_vars(PopStep)
  /\ \A p \in Producers : WF_vars(PushStep(p))

FairSpec == Spec /\ Fairness

-------------------------------------------------------------------------------
(* Properties.                                                             *)

\* Types of the variables; no push is begun beyond the bound.
TypeOK ==
  /\ mutex \in Threads \union {Free}
  /\ at \in [Threads -> {"outside", "inside", "storing"}]
  /\ changed \in [Threads -> Seq(Tasks)]
  /\ queue \in Seq(Tasks) /\ result \in Seq(Tasks) /\ batch \in Seq(Tasks)
  /\ pushed \in [Producers -> Nat]
  /\ \A p \in Producers : pushed[p] \in 0..MaxPushes[p]
  /\ \A p \in Producers : at[p] # "outside" => pushed[p] < MaxPushes[p]

\* The thread inside holds the lock, and what it is about to store is what the
\* queue still is, but for its own task: nobody changed the queue meanwhile.
LockInv ==
  /\ \A t \in Threads : at[t] # "outside" <=> mutex = t
  /\ \A p \in Producers : at[p] = "storing" =>
       changed[p] = Append(queue, Task(p, pushed[p] + 1))
  /\ at[Consumer] = "storing" => queue # <<>> /\ changed[Consumer] = Tail(queue)
  /\ at[Consumer] # "outside" => batch = <<>>
  /\ at[Consumer] = "outside" => result = <<>>

QueueInv == TypeOK /\ LockInv

\* The queue implements the task queue: a push happens when it is stored, and
\* what the consumer moved out or was given still waits in front of the rest.
Waiting == batch \o result \o (IF at[Consumer] = "storing" THEN changed[Consumer] ELSE queue)

Abstract == INSTANCE TaskQueue WITH tasks <- Waiting

QueueSafety == Abstract!SafeSpec

\* With its progress: whatever is pushed is dealt with in the end.
QueueImplemented == Abstract!Spec
===============================================================================
