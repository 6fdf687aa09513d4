--------------------------- MODULE SwarmTimingProofs ---------------------------
(***************************************************************************)
(* What swarm_delta measures, for routes and skews of any size.            *)
(***************************************************************************)
EXTENDS SwarmTiming, TLAPS

LEMMA InvInit == Init => TimingInv
<1> SUFFICES ASSUME Init PROVE TimingInv
  OBVIOUS
<1>1. offset[0] \in Int /\ offset[0] <= Skew /\ -Skew <= offset[0]
  BY TimingConstants DEF Init, Stages
<1>2. TypeOK
  BY <1>1, TimingConstants DEF Init, TypeOK, Stages, get_time
<1>3. \A i \in Stages : ~Measured(i)
  BY DEF Init, Stages, Measured
<1>4. \A i \in Stages : Open(i) => i = 0
  BY DEF Init, Stages, Open
<1>5. swarm_delta[0] \in (sent[0] - Skew)..(sent[0] + Skew)
  BY <1>1, TimingConstants DEF Init, Stages, get_time
<1> QED BY <1>2, <1>3, <1>4, <1>5 DEF TimingInv, DurationsMeasured

LEMMA InvStep == TimingInv /\ [Next]_vars => TimingInv'
<1> SUFFICES ASSUME TimingInv, [Next]_vars PROVE TimingInv'
  OBVIOUS
<1> USE TimingConstants
<1>1. CASE EndStage
  <2> DEFINE last == current_stage - 1
             took == now - sent[last]
  <2>1. /\ last \in Stages /\ current_stage \in Stages /\ last + 1 = current_stage
        /\ at = "hop" /\ now \in Nat /\ sent[last] \in Nat
        /\ offset[current_stage] \in -Skew..Skew
        /\ now >= sent[last] + MinHop
    BY <1>1 DEF EndStage, TypeOK, TimingInv, Stages
  <2>2. swarm_delta[last] \in (sent[last] - Skew)..(sent[last] + Skew)
    BY <2>1 DEF Open, TimingInv
  <2> DEFINE ends == (now + offset[current_stage]) - swarm_delta[last]
  <2>3. /\ swarm_delta' = [swarm_delta EXCEPT ![last] = ends]
        /\ measured' = [measured EXCEPT ![last] = now] /\ at' = "sender"
        /\ now' = now /\ offset' = offset /\ current_stage' = current_stage /\ sent' = sent
    <3>1. ends = Difference(get_time(current_stage), swarm_delta[current_stage - 1])
      BY Zenon DEF Difference, get_time
    <3> HIDE DEF ends
    <3> QED BY <1>1, <3>1, Zenon DEF EndStage
  <2> HIDE DEF last
  <2>4. ends \in (took - 2 * Skew)..(took + 2 * Skew)
    BY <2>1, <2>2
  <2> HIDE DEF ends
  <2>5. TypeOK'
    <3>1. ends \in Int /\ now \in Nat /\ last \in Stages
      BY <2>1, <2>4
    <3>2. swarm_delta' \in [Stages -> Int] /\ measured' \in [Stages -> Nat]
      BY <2>3, <3>1 DEF TypeOK, TimingInv
    <3>3. now' \in Nat /\ offset' \in [Stages -> -Skew..Skew] /\ sent' \in [Stages -> Nat]
      BY <2>3 DEF TypeOK, TimingInv
    <3>4. current_stage' \in 1..(Last + 1) /\ current_stage' <= Last
      BY <2>1, <2>3 DEF TypeOK, TimingInv, Stages
    <3> QED BY <2>3, <3>2, <3>3, <3>4 DEF TypeOK
  <2>6. /\ swarm_delta'[last] \in (took - 2 * Skew)..(took + 2 * Skew)
        /\ measured'[last] = now
        /\ \A i \in Stages \ {last} :
             swarm_delta'[i] = swarm_delta[i] /\ measured'[i] = measured[i]
    BY <2>1, <2>3, <2>4 DEF TypeOK, TimingInv
  <2>7. \A i \in Stages : Measured(i)' => i = last \/ Measured(i)
    BY <2>1, <2>3 DEF Measured, last
  <2>8. DurationsMeasured'
    BY <2>1, <2>3, <2>6, <2>7 DEF DurationsMeasured, TimingInv
  <2> QED BY <2>3, <2>5, <2>8 DEF Open, TimingInv
<1>2. CASE SendOn
  <2>1. /\ current_stage \in Stages /\ at = "sender" /\ current_stage <= Last
        /\ offset[current_stage] \in -Skew..Skew /\ now \in Nat
    BY <1>2 DEF SendOn, TypeOK, TimingInv, Stages
  <2>2. /\ swarm_delta' = [swarm_delta EXCEPT ![current_stage] = now + offset[current_stage]]
        /\ sent' = [sent EXCEPT ![current_stage] = now]
        /\ current_stage' = current_stage + 1 /\ at' = "hop"
        /\ now' = now /\ offset' = offset /\ measured' = measured
    BY <1>2 DEF SendOn, Stamp, get_time
  <2>3. TypeOK'
    <3>1. now + offset[current_stage] \in Int /\ current_stage + 1 \in 1..(Last + 1)
      BY <2>1 DEF Stages, TimingInv, TypeOK
    <3> QED BY <2>1, <2>2, <3>1 DEF TypeOK, TimingInv
  <2>4. /\ swarm_delta'[current_stage] = now + offset[current_stage]
        /\ sent'[current_stage] = now
        /\ \A i \in Stages \ {current_stage} :
             swarm_delta'[i] = swarm_delta[i] /\ sent'[i] = sent[i]
    BY <2>1, <2>2 DEF TypeOK, TimingInv
  <2>5. \A i \in Stages : Measured(i)' => Measured(i) /\ i # current_stage
    BY <2>1, <2>2 DEF Measured, Stages
  <2>6. DurationsMeasured'
    BY <2>2, <2>4, <2>5 DEF DurationsMeasured, TimingInv
  <2>7. \A i \in Stages : Open(i)' => i = current_stage
    BY <2>1, <2>2 DEF Open, Stages
  <2>8. swarm_delta'[current_stage]
          \in (sent'[current_stage] - Skew)..(sent'[current_stage] + Skew)
    BY <2>1, <2>4
  <2> QED BY <2>3, <2>6, <2>7, <2>8 DEF TimingInv
<1>3. CASE Tick
  BY <1>3 DEF Tick, TimingInv, TypeOK, DurationsMeasured, Measured, Open
<1>4. ASSUME NEW i \in Stages, AdjustClock(i) PROVE TimingInv'
  BY <1>4 DEF AdjustClock, TimingInv, TypeOK, DurationsMeasured, Measured, Open
<1>5. CASE UNCHANGED vars
  BY <1>5 DEF vars, TimingInv, TypeOK, DurationsMeasured, Measured, Open
<1> QED BY <1>1, <1>2, <1>3, <1>4, <1>5 DEF Next

\* The invariant of the cells: a time within the skew of its sender's clock, or
\* a duration.
THEOREM TimingCorrect == Spec => []TimingInv
  BY InvInit, InvStep, PTL DEF Spec

\* Each duration is off by at most twice the skew of the clocks, on routes of
\* any length.
THEOREM StagesMeasured == Spec => []DurationsMeasured
<1>1. TimingInv => DurationsMeasured
  BY DEF TimingInv
<1> QED BY <1>1, TimingCorrect, PTL

\* The Asserts on delta_time (compute_worker.h:625, :641) hold as long as no hop
\* is shorter than the clocks of two machines can be apart.
THEOREM AssertHolds == HopsOutlastSkew => (Spec => []DeltaNotNegative)
<1> SUFFICES ASSUME HopsOutlastSkew PROVE Spec => []DeltaNotNegative
  OBVIOUS
<1>1. TimingInv => DeltaNotNegative
  <2> SUFFICES ASSUME TimingInv, NEW i \in Stages, Measured(i) PROVE swarm_delta[i] >= 0
    BY DEF DeltaNotNegative
  <2> DEFINE took == measured[i] - sent[i]
  <2>1. took \in Int /\ MinHop <= took /\ swarm_delta[i] \in (took - 2 * Skew)..(took + 2 * Skew)
    BY DEF TimingInv, TypeOK, DurationsMeasured
  <2> HIDE DEF took
  <2> QED BY <2>1, TimingConstants, HopsOutlastSkew DEF HopsOutlastSkew
<1> QED BY <1>1, TimingCorrect, PTL
===============================================================================
