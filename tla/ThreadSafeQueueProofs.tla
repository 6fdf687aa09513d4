------------------------- MODULE ThreadSafeQueueProofs -------------------------
(***************************************************************************)
(* The lock makes push and pop_all atomic: ThreadSafeQueue implements      *)
(* TaskQueue for any number of producers and pushes.                       *)
(***************************************************************************)
EXTENDS ThreadSafeQueue, SequenceTheorems, TLAPS

LEMMA TaskType ==
  ASSUME NEW p \in Producers, NEW k \in Nat, k < MaxPushes[p]
  PROVE  Task(p, k + 1) \in Tasks
<1>1. k + 1 \in 1..MaxPushes[p]
  BY QueueThreads
<1> QED BY <1>1 DEF Tasks

LEMMA TypeInit == Init => TypeOK
  BY QueueThreads DEF Init, TypeOK, Threads

LEMMA TypeStep == TypeOK /\ [Next]_vars => TypeOK'
<1> SUFFICES ASSUME TypeOK, [Next]_vars PROVE TypeOK'
  OBVIOUS
<1> USE QueueThreads DEF TypeOK, Threads, Lock, Unlock
<1>1. ASSUME NEW p \in Producers, BeginPush(p) PROVE TypeOK'
  BY <1>1 DEF BeginPush
<1>2. ASSUME NEW p \in Producers, ReadEnd(p) PROVE TypeOK'
  <2>1. Task(p, pushed[p] + 1) \in Tasks
    BY <1>2, TaskType DEF ReadEnd
  <2> QED BY <1>2, <2>1 DEF ReadEnd
<1>3. ASSUME NEW p \in Producers, EndPush(p) PROVE TypeOK'
  <2>1. pushed[p] \in Nat /\ pushed[p] < MaxPushes[p] /\ MaxPushes[p] \in Nat
    BY <1>3 DEF EndPush
  <2>2. pushed' \in [Producers -> Nat] /\ pushed'[p] \in 0..MaxPushes[p]
    BY <1>3, <2>1 DEF EndPush
  <2>3. \A r \in Producers \ {p} : pushed'[r] = pushed[r] /\ at'[r] = at[r]
    BY <1>3 DEF EndPush
  <2>4. at'[p] = "outside"
    BY <1>3 DEF EndPush
  <2> QED BY <1>3, <2>2, <2>3, <2>4 DEF EndPush
<1>4. CASE BeginPop
  BY <1>4 DEF BeginPop
<1>5. CASE MoveFront
  BY <1>5 DEF MoveFront
<1>6. CASE PopFront
  BY <1>6 DEF PopFront
<1>7. CASE EndPop
  BY <1>7 DEF EndPop
<1>8. CASE Handle
  BY <1>8 DEF Handle
<1>9. CASE UNCHANGED vars
  BY <1>9 DEF vars
<1> QED BY <1>1, <1>2, <1>3, <1>4, <1>5, <1>6, <1>7, <1>8, <1>9 DEF Next, PushStep, PopStep

LEMMA LockInit == Init => LockInv
  BY QueueThreads DEF Init, LockInv, Threads

LEMMA LockStep == TypeOK /\ LockInv /\ [Next]_vars => LockInv'
<1> SUFFICES ASSUME TypeOK, LockInv, [Next]_vars PROVE LockInv'
  OBVIOUS
<1> USE QueueThreads DEF TypeOK, LockInv, Threads, Lock, Unlock
<1>1. ASSUME NEW p \in Producers, BeginPush(p) PROVE LockInv'
  BY <1>1 DEF BeginPush
<1>2. ASSUME NEW p \in Producers, ReadEnd(p) PROVE LockInv'
  BY <1>2 DEF ReadEnd
<1>3. ASSUME NEW p \in Producers, EndPush(p) PROVE LockInv'
  BY <1>3 DEF EndPush
<1>4. CASE BeginPop
  BY <1>4 DEF BeginPop
<1>5. CASE MoveFront
  BY <1>5 DEF MoveFront
<1>6. CASE PopFront
  BY <1>6 DEF PopFront
<1>7. CASE EndPop
  BY <1>7 DEF EndPop
<1>8. CASE Handle
  BY <1>8 DEF Handle
<1>9. CASE UNCHANGED vars
  BY <1>9 DEF vars
<1> QED BY <1>1, <1>2, <1>3, <1>4, <1>5, <1>6, <1>7, <1>8, <1>9 DEF Next, PushStep, PopStep

\* Mutual exclusion, and a queue that stays as the thread inside has read it.
THEOREM LockCorrect == Spec => []QueueInv
  BY TypeInit, TypeStep, LockInit, LockStep, PTL DEF Spec, QueueInv

-------------------------------------------------------------------------------
(* The refinement.                                                          *)

\* A task moved from the front of one sequence to the end of another one before
\* it leaves the whole as it was.
LEMMA MoveAcross ==
  ASSUME NEW T, NEW b \in Seq(T), NEW r \in Seq(T), NEW q \in Seq(T), q # <<>>
  PROVE  (b \o Append(r, Head(q))) \o Tail(q) = (b \o r) \o q
<1>1. Head(q) \in T /\ Tail(q) \in Seq(T) /\ <<Head(q)>> \in Seq(T)
  BY HeadTailProperties
<1>2. <<Head(q)>> \o Tail(q) = q
  BY <1>1, HeadTailProperties
<1>3. Append(r, Head(q)) = r \o <<Head(q)>>
  BY <1>1, AppendIsConcat
<1>4. b \o (r \o <<Head(q)>>) = (b \o r) \o <<Head(q)>> /\ b \o r \in Seq(T)
  BY <1>1, ConcatAssociative, ConcatProperties
<1>5. ((b \o r) \o <<Head(q)>>) \o Tail(q) = (b \o r) \o (<<Head(q)>> \o Tail(q))
  BY <1>1, <1>4, ConcatAssociative
<1> QED BY <1>2, <1>3, <1>4, <1>5

\* A task appended to the queue is appended to the whole.
LEMMA AppendBehind ==
  ASSUME TypeOK, NEW x \in Tasks
  PROVE  (batch \o result) \o Append(queue, x) = Append((batch \o result) \o queue, x)
<1>1. queue \in Seq(Tasks) /\ <<x>> \in Seq(Tasks) /\ batch \o result \in Seq(Tasks)
  BY ConcatProperties DEF TypeOK
<1>2. (batch \o result) \o queue \in Seq(Tasks)
  BY <1>1, ConcatProperties
<1>3. Append(queue, x) = queue \o <<x>>
  BY <1>1, AppendIsConcat
<1>4. Append((batch \o result) \o queue, x) = ((batch \o result) \o queue) \o <<x>>
  BY <1>2, AppendIsConcat
<1>5. ((batch \o result) \o queue) \o <<x>> = (batch \o result) \o (queue \o <<x>>)
  BY <1>1, ConcatAssociative
<1> QED BY <1>3, <1>4, <1>5

\* What is in front is taken from the whole.
LEMMA TakeFront ==
  ASSUME NEW T, NEW b \in Seq(T), NEW q \in Seq(T), b # <<>>
  PROVE  b \o q # <<>> /\ Tail(b \o q) = Tail(b) \o q
<1>1. b \o q # <<>> /\ Len(b) \in Nat \ {0} /\ Tail(b) \in Seq(T) /\ b \o q \in Seq(T)
  BY ConcatProperties, ConcatEqualIffEmpty, HeadTailProperties
<1>2. Tail(b \o q) \in Seq(T) /\ Tail(b) \o q \in Seq(T)
  BY <1>1, ConcatProperties, HeadTailProperties
<1>3. Len(Tail(b \o q)) = Len(Tail(b) \o q)
  BY <1>1, ConcatProperties, HeadTailProperties
<1>4. \A i \in 1..Len(Tail(b) \o q) : Tail(b \o q)[i] = (Tail(b) \o q)[i]
  BY <1>1, <1>2, <1>3, ConcatProperties, HeadTailProperties
<1> QED BY <1>2, <1>3, <1>4, SeqEqual

LEMMA RefinementInit == Init => Abstract!Init
  BY QueueThreads DEF Init, Abstract!Init, Waiting, Threads

LEMMA RefinementStep ==
  ASSUME TypeOK, LockInv, [Next]_vars
  PROVE  [Abstract!Next]_Waiting
<1> USE QueueThreads DEF TypeOK, LockInv, Threads, Lock, Unlock, Waiting
<1>1. ASSUME NEW p \in Producers, BeginPush(p) \/ ReadEnd(p) PROVE UNCHANGED Waiting
  BY <1>1 DEF BeginPush, ReadEnd
<1>2. ASSUME NEW p \in Producers, EndPush(p) PROVE Abstract!Next
  <2>1. Task(p, pushed[p] + 1) \in Tasks
    BY <1>2, TaskType DEF EndPush
  <2>2. at[Consumer] = "outside" /\ at'[Consumer] = "outside"
    BY <1>2 DEF EndPush
  <2>3. queue' = Append(queue, Task(p, pushed[p] + 1)) /\ batch' = batch /\ result' = result
    BY <1>2 DEF EndPush
  <2>4. Waiting = (batch \o result) \o queue /\ Waiting' = (batch \o result) \o queue'
    BY <2>2, <2>3
  <2> HIDE DEF Waiting
  <2>5. \A x \in Tasks :
          (batch \o result) \o Append(queue, x) = Append((batch \o result) \o queue, x)
    BY AppendBehind
  <2>6. Waiting' = Append(Waiting, Task(p, pushed[p] + 1))
    BY <2>1, <2>3, <2>4, <2>5
  <2> QED BY <2>1, <2>6 DEF Abstract!Next, Abstract!Push
<1>3. CASE BeginPop \/ PopFront \/ UNCHANGED vars
  BY <1>3 DEF BeginPop, PopFront, vars
<1>4. CASE MoveFront
  <2>1. Waiting' = batch \o Append(result, Head(queue)) \o Tail(queue)
    BY <1>4 DEF MoveFront
  <2>2. Waiting = batch \o result \o queue
    BY <1>4 DEF MoveFront
  <2> QED BY <1>4, <2>1, <2>2, MoveAcross DEF MoveFront
<1>5. CASE EndPop
  BY <1>5 DEF EndPop
<1>6. CASE Handle
  <2>1. at[Consumer] = "outside" /\ result = <<>>
    BY <1>6 DEF Handle
  <2>2. Waiting = batch \o queue /\ Waiting' = Tail(batch) \o queue
    BY <1>6, <2>1 DEF Handle
  <2> HIDE DEF Waiting
  <2>3. batch \o queue # <<>> /\ Tail(batch \o queue) = Tail(batch) \o queue
    BY <1>6, TakeFront DEF Handle
  <2>4. Waiting # <<>> /\ Waiting' = Tail(Waiting)
    BY <2>2, <2>3
  <2> QED BY <2>4 DEF Abstract!Next, Abstract!Take
<1> QED BY <1>1, <1>2, <1>3, <1>4, <1>5, <1>6 DEF Next, PushStep, PopStep

\* Whatever the threads interleave, a push appears at once behind everything
\* pushed before it, and pop_all loses, repeats and reorders nothing.
THEOREM QueueImplementsTasks == Spec => QueueSafety
  BY RefinementInit, RefinementStep, LockCorrect, PTL
     DEF Spec, QueueInv, QueueSafety, Abstract!SafeSpec
===============================================================================
