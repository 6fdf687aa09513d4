------------------------- MODULE BufferLifetimeProofs -------------------------
(***************************************************************************)
(* The hold of tensor_gc is long enough: whatever the system clock does    *)
(* within MaxJump, no message is read out of a tensor that was let go, for *)
(* any number of tensors and requests.                                     *)
(***************************************************************************)
EXTENDS BufferLifetime, SequenceTheorems, TLAPS

\* What the gc thread holds once it has taken the new tensors.
Entries ==
  output_tensors_on_hold
    \o [i \in DOMAIN tensors_to_release |-> NewEntry(tensors_to_release[i])]

-------------------------------------------------------------------------------
(* The deques of tensor_gc.                                                *)

LEMMA HeldEntry ==
  ASSUME TypeOK, NEW i \in DOMAIN output_tensors_on_hold
  PROVE  /\ output_tensors_on_hold[i] \in Entry(submitted)
         /\ output_tensors_on_hold[i].tensor \in submitted
         /\ output_tensors_on_hold[i].tensor \in Tensors
         /\ output_tensors_on_hold[i].held \in Nat
<1>1. output_tensors_on_hold[i] \in Entry(submitted)
  BY DEF TypeOK
<1>2. submitted \subseteq Tensors
  BY DEF TypeOK
<1> QED BY <1>1, <1>2 DEF Entry

LEMMA EntriesType ==
  ASSUME TypeOK
  PROVE  /\ Entries \in Seq(Entry(submitted))
         /\ Len(Entries) = Len(output_tensors_on_hold) + Len(tensors_to_release)
         /\ \A i \in 1..Len(output_tensors_on_hold) : Entries[i] = output_tensors_on_hold[i]
         /\ \A i \in 1..Len(tensors_to_release) :
              Entries[Len(output_tensors_on_hold) + i] = NewEntry(tensors_to_release[i])
<1> DEFINE new == [i \in DOMAIN tensors_to_release |-> NewEntry(tensors_to_release[i])]
<1>1. new \in Seq(Entry(submitted))
  <2>1. DOMAIN tensors_to_release = 1..Len(tensors_to_release) /\ Len(tensors_to_release) \in Nat
    BY DEF TypeOK
  <2>2. \A i \in DOMAIN tensors_to_release : NewEntry(tensors_to_release[i]) \in Entry(submitted)
    BY <2>1 DEF TypeOK, NewEntry, Entry
  <2> QED BY <2>1, <2>2
<1>2. Len(new) = Len(tensors_to_release) /\ DOMAIN tensors_to_release = 1..Len(tensors_to_release)
  BY <1>1 DEF TypeOK
<1>3. output_tensors_on_hold \in Seq(Entry(submitted))
  BY DEF TypeOK
<1> HIDE DEF new
<1>4. Entries = output_tensors_on_hold \o new
  BY DEF Entries, new
<1>5. \A i \in 1..Len(tensors_to_release) : new[i] = NewEntry(tensors_to_release[i])
  BY <1>2 DEF new
<1>6. Len(output_tensors_on_hold) \in Nat /\ Len(tensors_to_release) \in Nat
  BY DEF TypeOK
<1>7. Entries \in Seq(Entry(submitted))
  BY <1>1, <1>3, <1>4, ConcatProperties
<1>8. Len(Entries) = Len(output_tensors_on_hold) + Len(tensors_to_release)
  <2>1. Len(output_tensors_on_hold \o new) = Len(output_tensors_on_hold) + Len(new)
    BY <1>1, <1>3
  <2> QED BY <2>1, <1>2, <1>4
<1>9. \A i \in 1..Len(output_tensors_on_hold) : Entries[i] = output_tensors_on_hold[i]
  BY <1>1, <1>2, <1>3, <1>4, <1>6
<1>10. \A i \in 1..Len(tensors_to_release) :
         Entries[Len(output_tensors_on_hold) + i] = NewEntry(tensors_to_release[i])
  BY <1>1, <1>2, <1>3, <1>4, <1>5, <1>6
<1> QED BY <1>7, <1>8, <1>9, <1>10

\* An entry of a tensor in use has not expired.
LEMMA InUseKept ==
  ASSUME LifetimeInv, NEW i \in 1..Len(Entries), InUse(Entries[i].tensor)
  PROVE  /\ ~Expired(Entries[i])
         /\ Entries[i].held <= age[Entries[i].tensor]
<1> DEFINE e == Entries[i]
<1>1. e \in Entry(submitted)
  BY EntriesType DEF LifetimeInv
<1>2. e.tensor \in Tensors /\ e.held \in Nat /\ e.stamp \in Clocks /\ clock \in Clocks
  BY <1>1 DEF LifetimeInv, TypeOK, Entry
<1>3. age[e.tensor] <= MaxDelay /\ age[e.tensor] \in Nat
  BY <1>2 DEF LifetimeInv, HoldInv, TypeOK
<1>4. e.held <= age[e.tensor]
  <2>1. CASE i \in 1..Len(output_tensors_on_hold)
    <3>1. e = output_tensors_on_hold[i] /\ i \in DOMAIN output_tensors_on_hold
      BY <2>1, EntriesType DEF LifetimeInv, TypeOK
    <3> QED BY <3>1 DEF LifetimeInv, HoldInv
  <2>2. CASE i \notin 1..Len(output_tensors_on_hold)
    <3>1. PICK j \in 1..Len(tensors_to_release) : i = Len(output_tensors_on_hold) + j
      <4>1. Len(output_tensors_on_hold) \in Nat /\ Len(tensors_to_release) \in Nat
        BY DEF LifetimeInv, TypeOK
      <4>2. i - Len(output_tensors_on_hold) \in 1..Len(tensors_to_release)
        BY <2>2, <4>1, EntriesType DEF LifetimeInv
      <4> QED BY <4>1, <4>2
    <3>2. e = NewEntry(tensors_to_release[j])
      BY <3>1, EntriesType DEF LifetimeInv
    <3> QED BY <3>2, <1>3 DEF NewEntry
  <2> QED BY <2>1, <2>2
<1>5. ~(e.held + clock - e.stamp > Hold)
  BY <1>2, <1>3, <1>4, BufferConstants, HoldSuffices DEF Clocks
<1> QED BY <1>4, <1>5 DEF Expired

\* Each tensor the gc thread knows has an entry once the new ones are taken.
LEMMA KnownHasEntry ==
  ASSUME TypeOK, NEW k \in Tensors, Queued(k) \/ OnHold(k)
  PROVE  \E i \in 1..Len(Entries) : Entries[i].tensor = k
<1>1. Len(output_tensors_on_hold) \in Nat /\ Len(tensors_to_release) \in Nat
      /\ DOMAIN output_tensors_on_hold = 1..Len(output_tensors_on_hold)
      /\ DOMAIN tensors_to_release = 1..Len(tensors_to_release)
  BY DEF TypeOK
<1>2. CASE OnHold(k)
  <2>1. PICK i \in 1..Len(output_tensors_on_hold) : output_tensors_on_hold[i].tensor = k
    BY <1>1, <1>2 DEF OnHold
  <2>2. Entries[i].tensor = k /\ i \in 1..Len(Entries)
    BY <1>1, <2>1, EntriesType
  <2> QED BY <2>2
<1>3. CASE Queued(k)
  <2>1. PICK i \in 1..Len(tensors_to_release) : tensors_to_release[i] = k
    BY <1>1, <1>3 DEF Queued
  <2> DEFINE j == Len(output_tensors_on_hold) + i
  <2>2. Entries[j] = NewEntry(k) /\ j \in 1..Len(Entries)
    BY <1>1, <2>1, EntriesType
  <2> QED BY <2>2 DEF NewEntry
<1> QED BY <1>2, <1>3

\* What one round of tensor_gc leaves.
LEMMA GcKeeps ==
  ASSUME TypeOK, TensorGc
  PROVE  \E n \in 1..(Len(Entries) + 1) :
           /\ \A j \in 1..(n - 1) : Expired(Entries[j])
           /\ output_tensors_on_hold' \in Seq(Entry(submitted))
           /\ Len(output_tensors_on_hold') = Len(Entries) - n + 1
           /\ \A j \in 1..Len(output_tensors_on_hold') :
                output_tensors_on_hold'[j] = Entries[n + j - 1]
<1>1. PICK n \in 1..(Len(Entries) + 1) :
        /\ \A j \in 1..(n - 1) : Expired(Entries[j])
        /\ output_tensors_on_hold' = SubSeq(Entries, n, Len(Entries))
  BY DEF TensorGc, Entries, FirstKept
<1>2. Entries \in Seq(Entry(submitted)) /\ Len(Entries) \in Nat
  BY EntriesType
<1>3. \A j \in n..Len(Entries) : Entries[j] \in Entry(submitted)
  BY <1>2
<1>4. Len(SubSeq(Entries, n, Len(Entries))) = Len(Entries) - n + 1
  BY <1>2
<1>5. \A j \in 1..(Len(Entries) - n + 1) : SubSeq(Entries, n, Len(Entries))[j] = Entries[n + j - 1]
  BY <1>2
<1>6. SubSeq(Entries, n, Len(Entries)) \in Seq(Entry(submitted))
  BY <1>2, <1>3, SubSeqProperties
<1> QED BY <1>1, <1>4, <1>5, <1>6

-------------------------------------------------------------------------------
(* The invariant.                                                          *)

LEMMA TypeInit == Init => TypeOK
  BY BufferConstants DEF Init, TypeOK, Clocks

LEMMA TypeStep == TypeOK /\ [Next]_vars => TypeOK'
<1> SUFFICES ASSUME TypeOK, [Next]_vars PROVE TypeOK'
  OBVIOUS
<1>1. ASSUME NEW k \in Tensors, Submit(k) PROVE TypeOK'
  <2>1. submitted' \subseteq Tensors /\ submitted \subseteq submitted' /\ k \in submitted'
    BY <1>1 DEF Submit, TypeOK
  <2>2. tensors_to_release' \in Seq(submitted')
    <3>1. tensors_to_release \in Seq(submitted')
      BY <2>1 DEF TypeOK
    <3> QED BY <2>1, <3>1, <1>1 DEF Submit
  <2>3. output_tensors_on_hold' \in Seq(Entry(submitted'))
    <3>1. Entry(submitted) \subseteq Entry(submitted')
      BY <2>1 DEF Entry
    <3>2. output_tensors_on_hold' = output_tensors_on_hold
      BY <1>1 DEF Submit
    <3>3. output_tensors_on_hold \in Seq(Entry(submitted))
      BY DEF TypeOK
    <3> QED BY <3>1, <3>2, <3>3
  <2>4. age' = age /\ clock' = clock /\ unsent' = unsent /\ caller' = k /\ to_build' = Requests
    BY <1>1 DEF Submit
  <2> QED BY <2>1, <2>2, <2>3, <2>4 DEF TypeOK, Entry, Clocks
<1>2. ASSUME NEW r \in Requests, Build(r) PROVE TypeOK'
  BY <1>2 DEF Build, TypeOK
<1>3. CASE Return
  BY <1>3 DEF Return, TypeOK
<1>4. ASSUME NEW k \in Tensors, NEW r \in Requests, Transmit(k, r) PROVE TypeOK'
  BY <1>4 DEF Transmit, TypeOK
<1>5. CASE TensorGc
  <2>1. output_tensors_on_hold' \in Seq(Entry(submitted))
    BY <1>5, GcKeeps
  <2>2. tensors_to_release' = <<>> /\ submitted' = submitted /\ caller' = caller
        /\ to_build' = to_build /\ unsent' = unsent /\ age' = age /\ clock' = clock
    BY <1>5 DEF TensorGc
  <2> QED BY <2>1, <2>2 DEF TypeOK, Entry
<1>6. CASE Tick
  <2>1. \A i \in DOMAIN output_tensors_on_hold :
          Older(output_tensors_on_hold[i]) \in Entry(submitted)
    <3> SUFFICES ASSUME NEW i \in DOMAIN output_tensors_on_hold
                 PROVE  Older(output_tensors_on_hold[i]) \in Entry(submitted)
      OBVIOUS
    <3>1. output_tensors_on_hold[i] \in Entry(submitted)
      BY HeldEntry
    <3> QED BY <3>1 DEF Older, Entry
  <2>2. output_tensors_on_hold' \in Seq(Entry(submitted))
    <3>1. DOMAIN output_tensors_on_hold = 1..Len(output_tensors_on_hold)
          /\ Len(output_tensors_on_hold) \in Nat
      BY DEF TypeOK
    <3> QED BY <2>1, <3>1, <1>6 DEF Tick
  <2>3. age' \in [Tensors -> Nat]
    BY <1>6 DEF Tick, TypeOK
  <2>4. tensors_to_release' = tensors_to_release /\ submitted' = submitted /\ caller' = caller
        /\ to_build' = to_build /\ unsent' = unsent /\ clock' = clock
    BY <1>6 DEF Tick
  <2> QED BY <2>2, <2>3, <2>4 DEF TypeOK, Entry
<1>7. CASE AdjustClock
  BY <1>7 DEF AdjustClock, TypeOK, Clocks
<1>8. CASE UNCHANGED vars
  BY <1>8 DEF vars, TypeOK
<1> QED BY <1>1, <1>2, <1>3, <1>4, <1>5, <1>6, <1>7, <1>8 DEF Next

LEMMA HoldInit == Init => HoldInv
  BY BufferConstants DEF Init, HoldInv, InUse

LEMMA HoldStep == LifetimeInv /\ [Next]_vars => HoldInv'
<1> SUFFICES ASSUME LifetimeInv, [Next]_vars PROVE HoldInv'
  OBVIOUS
<1> USE DEF LifetimeInv
<1>1. ASSUME NEW k \in Tensors, Submit(k) PROVE HoldInv'
  <2>1. /\ caller = Nobody /\ k \notin submitted /\ caller' = k
        /\ submitted' = submitted \union {k} /\ unsent' = unsent /\ age' = age
        /\ tensors_to_release' = Append(tensors_to_release, k)
        /\ output_tensors_on_hold' = output_tensors_on_hold
    BY <1>1 DEF Submit
  <2>2. \A j \in Tensors : InUse(j)' => j = k \/ InUse(j)
    BY <2>1 DEF InUse
  <2>3. \A j \in Tensors : Queued(j) \/ OnHold(j) => Queued(j)' \/ OnHold(j)'
    <3>1. \A i \in DOMAIN tensors_to_release :
            i \in DOMAIN Append(tensors_to_release, k)
            /\ Append(tensors_to_release, k)[i] = tensors_to_release[i]
      BY DEF TypeOK
    <3> QED BY <2>1, <3>1 DEF Queued, OnHold
  <2>4. Queued(k)'
    <3>1. /\ Len(tensors_to_release) + 1 \in DOMAIN Append(tensors_to_release, k)
          /\ Append(tensors_to_release, k)[Len(tensors_to_release) + 1] = k
      BY DEF TypeOK
    <3> QED BY <2>1, <3>1 DEF Queued
  <2>5. age[k] <= MaxDelay
    BY DEF HoldInv
  <2>6. \A i \in DOMAIN output_tensors_on_hold :
          output_tensors_on_hold[i].tensor \in Tensors \ {k}
    BY <2>1, HeldEntry
  <2> QED BY <2>1, <2>2, <2>3, <2>4, <2>5, <2>6 DEF HoldInv
<1>2. ASSUME NEW r \in Requests, Build(r) PROVE HoldInv'
  <2>1. /\ caller \in Tensors /\ caller' = caller /\ submitted' = submitted /\ age' = age
        /\ unsent' = [unsent EXCEPT ![caller] = @ \union {r}]
        /\ tensors_to_release' = tensors_to_release
        /\ output_tensors_on_hold' = output_tensors_on_hold
    BY <1>2 DEF Build, TypeOK
  <2>2. \A j \in Tensors : InUse(j)' => InUse(j)
    BY <2>1 DEF InUse, TypeOK
  <2> QED BY <2>1, <2>2, HeldEntry DEF HoldInv, Queued, OnHold
<1>3. CASE Return
  <2>1. /\ caller' = Nobody /\ submitted' = submitted /\ age' = age /\ unsent' = unsent
        /\ tensors_to_release' = tensors_to_release
        /\ output_tensors_on_hold' = output_tensors_on_hold
    BY <1>3 DEF Return
  <2>2. \A j \in Tensors : InUse(j)' => InUse(j)
    BY <2>1, BufferConstants DEF InUse
  <2> QED BY <2>1, <2>2, HeldEntry DEF HoldInv, Queued, OnHold
<1>4. ASSUME NEW k \in Tensors, NEW r \in Requests, Transmit(k, r) PROVE HoldInv'
  <2>1. /\ caller' = caller /\ submitted' = submitted /\ age' = age
        /\ unsent' = [unsent EXCEPT ![k] = @ \ {r}]
        /\ tensors_to_release' = tensors_to_release
        /\ output_tensors_on_hold' = output_tensors_on_hold
    BY <1>4 DEF Transmit
  <2>2. \A j \in Tensors : InUse(j)' => InUse(j)
    BY <2>1 DEF InUse, TypeOK
  <2> QED BY <2>1, <2>2, HeldEntry DEF HoldInv, Queued, OnHold
<1>5. CASE TensorGc
  <2>1. /\ caller' = caller /\ submitted' = submitted /\ age' = age /\ unsent' = unsent
    BY <1>5 DEF TensorGc
  <2>2. PICK n \in 1..(Len(Entries) + 1) :
           /\ \A j \in 1..(n - 1) : Expired(Entries[j])
           /\ output_tensors_on_hold' \in Seq(Entry(submitted))
           /\ Len(output_tensors_on_hold') = Len(Entries) - n + 1
           /\ \A j \in 1..Len(output_tensors_on_hold') :
                output_tensors_on_hold'[j] = Entries[n + j - 1]
    BY <1>5, GcKeeps
  <2>3. Len(Entries) \in Nat
    BY EntriesType
  <2>4. DOMAIN output_tensors_on_hold' = 1..Len(output_tensors_on_hold')
    BY <2>2
  <2>5. \A k \in Tensors : InUse(k)' <=> InUse(k)
    BY <2>1 DEF InUse
  <2>6. ASSUME NEW k \in Tensors, InUse(k) PROVE OnHold(k)'
    <3>1. PICK i \in 1..Len(Entries) : Entries[i].tensor = k
      BY <2>6, KnownHasEntry DEF HoldInv
    <3>2. ~Expired(Entries[i])
      BY <2>6, <3>1, InUseKept
    <3>3. i >= n
      BY <2>2, <2>3, <3>1, <3>2
    <3> DEFINE j == i - n + 1
    <3>4. j \in 1..Len(output_tensors_on_hold') /\ n + j - 1 = i
      BY <2>2, <2>3, <3>1, <3>3
    <3>5. output_tensors_on_hold'[j] = Entries[i]
      BY <2>2, <3>4
    <3> QED BY <2>4, <3>1, <3>4, <3>5 DEF OnHold
  <2>7. ASSUME NEW i \in DOMAIN output_tensors_on_hold', InUse(output_tensors_on_hold'[i].tensor)
        PROVE  output_tensors_on_hold'[i].held <= age[output_tensors_on_hold'[i].tensor]
    <3>1. n + i - 1 \in 1..Len(Entries) /\ output_tensors_on_hold'[i] = Entries[n + i - 1]
      BY <2>2, <2>3, <2>4
    <3> QED BY <2>7, <3>1, InUseKept
  <2>8. \A i \in DOMAIN output_tensors_on_hold' : output_tensors_on_hold'[i].tensor \in Tensors
    <3>1. submitted \subseteq Tensors
      BY DEF TypeOK
    <3>2. \A i \in DOMAIN output_tensors_on_hold' : output_tensors_on_hold'[i] \in Entry(submitted)
      BY <2>2
    <3> QED BY <3>1, <3>2 DEF Entry
  <2> QED BY <2>1, <2>5, <2>6, <2>7, <2>8 DEF HoldInv
<1>6. CASE Tick
  <2>1. /\ caller' = caller /\ submitted' = submitted /\ unsent' = unsent
        /\ tensors_to_release' = tensors_to_release
        /\ DOMAIN output_tensors_on_hold' = DOMAIN output_tensors_on_hold
        /\ \A i \in DOMAIN output_tensors_on_hold :
             output_tensors_on_hold'[i] = Older(output_tensors_on_hold[i])
    BY <1>6 DEF Tick
  <2>2. \A k \in Tensors : InUse(k) => age[k] < MaxDelay /\ age'[k] = age[k] + 1
    BY <1>6 DEF Tick
  <2>3. \A k \in Tensors : InUse(k)' <=> InUse(k)
    BY <2>1 DEF InUse
  <2>4. \A k \in Tensors : age[k] \in Nat
    BY DEF TypeOK
  <2>5. \A i \in DOMAIN output_tensors_on_hold :
          /\ output_tensors_on_hold'[i].tensor = output_tensors_on_hold[i].tensor
          /\ output_tensors_on_hold'[i].held <= output_tensors_on_hold[i].held + 1
          /\ output_tensors_on_hold[i].held \in Nat
          /\ output_tensors_on_hold'[i].held \in Nat
          /\ output_tensors_on_hold[i].tensor \in Tensors
    <3> SUFFICES ASSUME NEW i \in DOMAIN output_tensors_on_hold
                 PROVE  LET e == output_tensors_on_hold[i]
                        IN  /\ Older(e).tensor = e.tensor /\ Older(e).held <= e.held + 1
                            /\ e.held \in Nat /\ Older(e).held \in Nat /\ e.tensor \in Tensors
      BY <2>1
    <3>1. output_tensors_on_hold[i] \in Entry(submitted)
          /\ output_tensors_on_hold[i].tensor \in Tensors
      BY HeldEntry
    <3> QED BY <3>1 DEF Older, Entry
  <2>6. \A k \in Tensors : Queued(k) \/ OnHold(k) => Queued(k)' \/ OnHold(k)'
    BY <2>1, <2>5 DEF Queued, OnHold
  <2>7. ASSUME NEW k \in Tensors, InUse(k)
        PROVE  k \in submitted' /\ (Queued(k)' \/ OnHold(k)') /\ age'[k] <= MaxDelay
    BY <2>1, <2>2, <2>4, <2>6, <2>7, BufferConstants DEF HoldInv
  <2>8. ASSUME NEW i \in DOMAIN output_tensors_on_hold', InUse(output_tensors_on_hold'[i].tensor)
        PROVE  output_tensors_on_hold'[i].held <= age'[output_tensors_on_hold'[i].tensor]
    <3> DEFINE e == output_tensors_on_hold[i]
    <3>1. e.tensor \in Tensors /\ InUse(e.tensor) /\ i \in DOMAIN output_tensors_on_hold
      BY <2>1, <2>5, <2>8
    <3>2. e.held <= age[e.tensor]
      BY <3>1 DEF HoldInv
    <3>3. age'[e.tensor] = age[e.tensor] + 1 /\ age[e.tensor] \in Nat
      BY <2>2, <2>4, <3>1
    <3> QED BY <2>5, <3>1, <3>2, <3>3
  <2>9. \A k \in Tensors : age'[k] <= MaxDelay
    <3> SUFFICES ASSUME NEW k \in Tensors PROVE age'[k] <= MaxDelay
      OBVIOUS
    <3>1. CASE InUse(k)
      BY <2>7, <3>1
    <3>2. CASE ~InUse(k)
      BY <1>6, <3>2 DEF Tick, HoldInv
    <3> QED BY <3>1, <3>2
  <2> QED BY <2>1, <2>3, <2>5, <2>7, <2>8, <2>9 DEF HoldInv
<1>7. CASE AdjustClock
  BY <1>7 DEF AdjustClock, HoldInv, InUse, Queued, OnHold
<1>8. CASE UNCHANGED vars
  BY <1>8 DEF vars, HoldInv, InUse, Queued, OnHold
<1> QED BY <1>1, <1>2, <1>3, <1>4, <1>5, <1>6, <1>7, <1>8 DEF Next

-------------------------------------------------------------------------------
(* The theorems.                                                           *)

\* The gc thread knows every tensor libzmq may still read and has not counted
\* more time for it than has passed: the inductive invariant of tensor_gc.
THEOREM LifetimeCorrect == Spec => []LifetimeInv
<1>1. Init => LifetimeInv
  BY TypeInit, HoldInit DEF LifetimeInv
<1>2. LifetimeInv /\ [Next]_vars => LifetimeInv'
  BY TypeStep, HoldStep DEF LifetimeInv
<1> QED BY <1>1, <1>2, PTL DEF Spec

\* With custom_free doing nothing, the ten seconds of tensor_gc alone keep the
\* memory of an unsent message: no message is read out of a released tensor.
THEOREM HoldIsLongEnough == Spec => []UnsentIsAlive
<1>1. LifetimeInv => UnsentIsAlive
  BY DEF LifetimeInv, HoldInv, UnsentIsAlive, Alive, InUse
<1> QED BY <1>1, LifetimeCorrect, PTL
===============================================================================
