------------------------------ MODULE SwarmTiming ------------------------------
(***************************************************************************)
(* How long a stage took, as swarm_delta measures it.  Each sender on the  *)
(* way of a request reads its own system clock: the time the one before it *)
(* stored in a cell becomes the difference of two clocks, and the next     *)
(* cell receives a time again.  RequestPipeline says which cell holds a    *)
(* time and which a duration; here are the values, for one request on one  *)
(* route.  Requests share nothing but the clocks.                          *)
(*                                                                         *)
(* get_time is the true time plus an offset of the machine's own.  Nothing *)
(* in the code synchronises the clocks: Skew, the largest offset, and      *)
(* MinHop, the least time from one send to the next, are the environment's.*)
(***************************************************************************)
EXTENDS Integers

CONSTANTS
  Last,      (* the stage of the last worker; stage 0 is the host's        *)
  Skew,
  MinHop,
  MaxTime    (* bound on the true time                                     *)

ASSUME TimingConstants ==
  /\ Last \in Nat \ {0}
  /\ Skew \in Nat /\ MinHop \in Nat /\ MaxTime \in Nat

\* The sender of stage i is the i-th machine of the route.
Stages == 0..Last

VARIABLES
  now,           (* the true time                                          *)
  offset,        (* of each machine's system clock                         *)
  current_stage, (* the header's                                           *)
  at,            (* where the request is: "hop", or "sender" between the
                    two readings of the clock                              *)
  swarm_delta,
  sent,          (* history: when the time in a cell was read              *)
  measured       (* history: when it became a duration                     *)

vars == <<now, offset, current_stage, at, swarm_delta, sent, measured>>

get_time(i) == now + offset[i]

\* launch_request, and the host's sender: the first cell receives the time.
Init ==
  /\ now = 0
  /\ offset \in [Stages -> -Skew..Skew]
  /\ current_stage = 1
  /\ at = "hop"
  /\ swarm_delta = [i \in Stages |-> IF i = 0 THEN get_time(0) ELSE 0]
  /\ sent = [i \in Stages |-> 0]
  /\ measured = [i \in Stages |-> 0]

\* The operands in the other order.
Difference_Swapped(stage_end, last_stage_start) == last_stage_start - stage_end

Difference(stage_end, last_stage_start) == stage_end - last_stage_start

\* The worker's sender has the request: the last stage's cell is closed.
EndStage ==
  /\ at = "hop" /\ current_stage <= Last
  /\ now >= sent[current_stage - 1] + MinHop
  /\ swarm_delta' = [swarm_delta EXCEPT
       ![current_stage - 1] = Difference(get_time(current_stage), @)]
  /\ measured' = [measured EXCEPT ![current_stage - 1] = now]
  /\ at' = "sender"
  /\ UNCHANGED <<now, offset, current_stage, sent>>

\* The next cell is left as it came.
Stamp_Missing == swarm_delta

Stamp == [swarm_delta EXCEPT ![current_stage] = get_time(current_stage)]

\* The next cell receives the time, and the request is sent; the next worker's
\* submit_requests counts the stage.
SendOn ==
  /\ at = "sender"
  /\ swarm_delta' = Stamp
  /\ sent' = [sent EXCEPT ![current_stage] = now]
  /\ current_stage' = current_stage + 1
  /\ at' = "hop"
  /\ UNCHANGED <<now, offset, measured>>

Tick ==
  /\ now < MaxTime
  /\ now' = now + 1
  /\ UNCHANGED <<offset, current_stage, at, swarm_delta, sent, measured>>

\* A system clock is adjusted, forwards or backwards.
AdjustClock(i) ==
  /\ \E o \in -Skew..Skew : offset' = [offset EXCEPT ![i] = o]
  /\ UNCHANGED <<now, current_stage, at, swarm_delta, sent, measured>>

Next ==
  \/ EndStage
  \/ SendOn
  \/ Tick
  \/ \E i \in Stages : AdjustClock(i)

Spec == Init /\ [][Next]_vars

-------------------------------------------------------------------------------
(* Properties.                                                             *)

\* The stages whose cells hold a duration.
Measured(i) == i < current_stage - 1 \/ (at = "sender" /\ i = current_stage - 1)

\* The stage whose cell holds a time.
Open(i) == at = "hop" /\ i = current_stage - 1

TypeOK ==
  /\ now \in Nat
  /\ offset \in [Stages -> -Skew..Skew]
  /\ current_stage \in 1..(Last + 1)
  /\ at \in {"hop", "sender"} /\ (at = "sender" => current_stage <= Last)
  /\ swarm_delta \in [Stages -> Int]
  /\ sent \in [Stages -> Nat]
  /\ measured \in [Stages -> Nat]

\* A duration is off by no more than two clocks are, at any stage of a route of
\* any length: the errors of the stages do not add up (compute_worker.h:622).
DurationsMeasured ==
  \A i \in Stages : Measured(i) =>
    LET took == measured[i] - sent[i]
    IN  /\ MinHop <= took
        /\ swarm_delta[i] \in (took - 2 * Skew)..(took + 2 * Skew)

\* "Bad delta time!" (compute_worker.h:625, :641).
DeltaNotNegative == \A i \in Stages : Measured(i) => swarm_delta[i] >= 0

\* The types, and the inductive invariant behind both: the open cell holds the
\* time of its sender's clock.
TimingInv ==
  /\ TypeOK
  /\ DurationsMeasured
  /\ \A i \in Stages : Open(i) => swarm_delta[i] \in (sent[i] - Skew)..(sent[i] + Skew)

\* What the Assert needs of the cluster.
HopsOutlastSkew == 2 * Skew <= MinHop
===============================================================================
