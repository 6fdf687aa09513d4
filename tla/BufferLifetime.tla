---------------------------- MODULE BufferLifetime ----------------------------
(***************************************************************************)
(* The memory a worker's outgoing messages point into.  submit_requests    *)
(* builds messages without a copy, with a custom_free that does nothing:   *)
(* nobody tells tensor_gc when libzmq is done with a buffer.  It keeps     *)
(* each result tensor for Hold (ten seconds) on the system clock and lets  *)
(* go of it then.                                                          *)
(*                                                                         *)
(* Time passes in ticks.  get_time shows the true time plus `clock', which *)
(* an adjustment of the system clock changes at any moment.  Only           *)
(* differences of get_time matter: an entry of the hold queue carries the  *)
(* ticks its tensor has been held and what `clock' was at the start.       *)
(* How long a message may stay in compute_send_queue and in libzmq is not  *)
(* bounded by the code: MaxDelay is the environment's bound, counted from  *)
(* the submission.                                                         *)
(***************************************************************************)
EXTENDS Integers, Sequences, FiniteSets

CONSTANTS
  Tensors,      (* result tensors, one for each call of submit_requests    *)
  Requests,     (* requests of a batch: each message points into the tensor*)
  Nobody,       (* no call is under way                                    *)
  Hold,
  MaxDelay,     (* ticks from a submission to the last of its messages     *)
  MaxJump       (* how far the system clock is ever off the true time      *)

ASSUME BufferConstants ==
  /\ Nobody \notin Tensors
  /\ Hold \in Nat \ {0} /\ MaxDelay \in Nat /\ MaxJump \in Nat
  /\ IsFiniteSet(Requests)

\* The hold is long enough for the slowest message and for a clock that is
\* first too slow and then too fast.
ASSUME HoldSuffices == MaxDelay + 2 * MaxJump <= Hold

VARIABLES
  submitted,               (* tensors passed to submit_requests            *)
  caller,                  (* the tensor of the call under way             *)
  to_build,                (* requests the call has still to send          *)
  unsent,                  (* messages of a tensor libzmq has not sent     *)
  tensors_to_release,      (* ThreadSafeQueue: compute -> gc               *)
  output_tensors_on_hold,  (* with hold_time: the gc thread's two deques   *)
  age,                     (* ticks since the submission of a tensor       *)
  clock                    (* how far the system clock is ahead            *)

vars == <<submitted, caller, to_build, unsent, tensors_to_release,
          output_tensors_on_hold, age, clock>>

Init ==
  /\ submitted = {}
  /\ caller = Nobody
  /\ to_build = {}
  /\ unsent = [k \in Tensors |-> {}]
  /\ tensors_to_release = <<>>
  /\ output_tensors_on_hold = <<>>
  /\ age = [k \in Tensors |-> 0]
  /\ clock = 0

-------------------------------------------------------------------------------
(* The compute thread.                                                     *)

\* submit_requests: the tensor goes to the gc thread first.  The program keeps
\* its own reference until the call returns.
Submit(k) ==
  /\ caller = Nobody
  /\ k \notin submitted
  /\ submitted' = submitted \union {k}
  /\ caller' = k
  /\ to_build' = Requests
  /\ tensors_to_release' = Append(tensors_to_release, k)
  /\ UNCHANGED <<unsent, output_tensors_on_hold, age, clock>>

\* A message that points into the tensor is pushed to compute_send_queue.
Build(r) ==
  /\ caller # Nobody
  /\ r \in to_build
  /\ to_build' = to_build \ {r}
  /\ unsent' = [unsent EXCEPT ![caller] = @ \union {r}]
  /\ UNCHANGED <<submitted, caller, tensors_to_release, output_tensors_on_hold, age, clock>>

Return ==
  /\ caller # Nobody
  /\ to_build = {}
  /\ caller' = Nobody
  /\ UNCHANGED <<submitted, to_build, unsent, tensors_to_release, output_tensors_on_hold, age, clock>>

-------------------------------------------------------------------------------
(* The sender thread and libzmq's I/O thread: a message is on the wire, or *)
(* dropped.                                                                *)

Transmit(k, r) ==
  /\ r \in unsent[k]
  /\ unsent' = [unsent EXCEPT ![k] = @ \ {r}]
  /\ UNCHANGED <<submitted, caller, to_build, tensors_to_release, output_tensors_on_hold, age, clock>>

-------------------------------------------------------------------------------
(* tensor_gc.                                                              *)

\* The comparison includes the limit.
Expired_AtHold(entry) == entry.held + clock - entry.stamp >= Hold

\* current_time - hold_time.front() > 10 s, both read from the system clock.
Expired(entry) == entry.held + clock - entry.stamp > Hold

\* The last entry of the deques is never looked at.
FirstKept_NotLast(i, entries) ==
  /\ \A j \in 1..(i - 1) : Expired(entries[j]) /\ j < Len(entries)
  /\ i <= Len(entries) => ~Expired(entries[i]) \/ i = Len(entries)

\* Entries are let go from the front as long as they have expired.
FirstKept(i, entries) ==
  /\ \A j \in 1..(i - 1) : Expired(entries[j])
  /\ i <= Len(entries) => ~Expired(entries[i])

NewEntry(k) == [tensor |-> k, held |-> 0, stamp |-> clock]

\* One round of the loop: new tensors are given the time, old ones let go.
TensorGc ==
  LET entries == output_tensors_on_hold
                   \o [i \in DOMAIN tensors_to_release |-> NewEntry(tensors_to_release[i])]
  IN  /\ \E i \in 1..(Len(entries) + 1) :
           /\ FirstKept(i, entries)
           /\ output_tensors_on_hold' = SubSeq(entries, i, Len(entries))
      /\ tensors_to_release' = <<>>
      /\ UNCHANGED <<submitted, caller, to_build, unsent, age, clock>>

-------------------------------------------------------------------------------
(* Time.                                                                   *)

\* A message waits at most MaxDelay ticks.
InUse(k) == caller = k \/ unsent[k] # {}

\* An entry held for LongHeld ticks has expired whatever the clock shows:
\* ticks are counted no further (bound).
LongHeld == Hold + 2 * MaxJump + 1

Older(entry) == [entry EXCEPT !.held = IF @ < LongHeld THEN @ + 1 ELSE @]

Tick ==
  /\ \A k \in Tensors : InUse(k) => age[k] < MaxDelay
  /\ age' = [k \in Tensors |-> IF InUse(k) THEN age[k] + 1 ELSE age[k]]
  /\ output_tensors_on_hold' =
       [i \in DOMAIN output_tensors_on_hold |-> Older(output_tensors_on_hold[i])]
  /\ UNCHANGED <<submitted, caller, to_build, unsent, tensors_to_release, clock>>

\* The system clock is adjusted, forwards or backwards.
AdjustClock ==
  /\ clock' \in -MaxJump..MaxJump \ {clock}
  /\ UNCHANGED <<submitted, caller, to_build, unsent, tensors_to_release,
                 output_tensors_on_hold, age>>

Next ==
  \/ \E k \in Tensors : Submit(k)
  \/ \E r \in Requests : Build(r)
  \/ Return
  \/ \E k \in Tensors, r \in Requests : Transmit(k, r)
  \/ TensorGc
  \/ Tick
  \/ AdjustClock

Spec == Init /\ [][Next]_vars

\* The threads keep running and time passes; nothing makes the program submit
\* or the clock jump.
Fairness ==
  /\ WF_vars(Return) /\ WF_vars(TensorGc) /\ WF_vars(Tick)
  /\ \A r \in Requests : WF_vars(Build(r))
  /\ \A k \in Tensors, r \in Requests : WF_vars(Transmit(k, r))

FairSpec == Spec /\ Fairness

-------------------------------------------------------------------------------
(* Properties.                                                             *)

Queued(k) == \E i \in DOMAIN tensors_to_release : tensors_to_release[i] = k
OnHold(k) == \E i \in DOMAIN output_tensors_on_hold : output_tensors_on_hold[i].tensor = k

Clocks == -MaxJump..MaxJump

Entry(S) == [tensor : S, held : Nat, stamp : Clocks]

TypeOK ==
  /\ submitted \subseteq Tensors
  /\ caller \in Tensors \union {Nobody}
  /\ to_build \subseteq Requests
  /\ unsent \in [Tensors -> SUBSET Requests]
  /\ tensors_to_release \in Seq(submitted)
  /\ output_tensors_on_hold \in Seq(Entry(submitted))
  /\ age \in [Tensors -> Nat]
  /\ clock \in Clocks

\* A tensor that libzmq may still read is known to the gc thread, and the gc
\* thread counts no more time for it than has passed since its submission.
HoldInv ==
  /\ \A k \in Tensors : InUse(k) =>
       /\ k \in submitted
       /\ Queued(k) \/ OnHold(k)
  /\ \A k \in Tensors : age[k] <= MaxDelay
  /\ \A i \in DOMAIN output_tensors_on_hold :
       LET entry == output_tensors_on_hold[i]
       IN  InUse(entry.tensor) => entry.held <= age[entry.tensor]

\* The types, and the inductive invariant behind UnsentIsAlive: it relates the
\* loop of tensor_gc (compute_worker.h:482-496) to the messages submit_requests
\* has pushed.
LifetimeInv == TypeOK /\ HoldInv

\* The memory of a result tensor is there as long as anyone refers to it.
Alive(k) == caller = k \/ Queued(k) \/ OnHold(k)

\* "memory managed elsewhere" (utils.h:32): libzmq never reads a message out of
\* a tensor that has been let go.
UnsentIsAlive == \A k \in Tensors : unsent[k] # {} => Alive(k)

\* Every result tensor is let go in the end, whatever the clock does: the
\* worker does not run out of memory.
TensorsReleased == \A k \in Tensors : k \in submitted ~> ~Alive(k)
===============================================================================
