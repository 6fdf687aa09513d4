------------------------- MODULE SwarmSchedulerProofs -------------------------
(***************************************************************************)
(* The swarm scheduler stays balanced for any rounding that preserves      *)
(* order, any set of servers and any times measured.                       *)
(***************************************************************************)
EXTENDS SwarmScheduler, FiniteSetTheorems, TLAPS

LEMMA Rounded ==
  ASSUME NEW x \in 0..(Limit + MaxWeight)
  PROVE  /\ Round[x] \in Floats
         /\ Round[x] <= Limit
         /\ x <= MaxWeight => Round[x] <= MaxWeight
<1>1. Round[x] \in 0..(Limit + MaxWeight) /\ Round[Round[x]] = Round[x] /\ Round[x] <= Limit
  BY SwarmConstants, Saturation
<1>2. Round[MaxWeight] = MaxWeight /\ MaxWeight \in 0..(Limit + MaxWeight)
  BY SwarmConstants DEF Floats
<1>3. x <= MaxWeight => Round[x] <= Round[MaxWeight]
  BY <1>2, SwarmConstants
<1> QED BY <1>1, <1>2, <1>3 DEF Floats

\* An average of two weights is a weight.
LEMMA Averaged ==
  ASSUME NEW delta \in 0..MaxWeight, NEW weight \in 0..MaxWeight
  PROVE  Average(delta, weight) \in 0..MaxWeight
<1> DEFINE x == (4 * delta + weight + 2) \div 5
<1>1. MaxWeight \in Nat /\ Limit \in Nat /\ MaxWeight <= Limit
  BY SwarmConstants
<1>2. x \in 0..MaxWeight
  BY <1>1
<1>3. x \in 0..(Limit + MaxWeight) /\ x <= MaxWeight
  BY <1>1, <1>2
<1>4. Round[x] \in Floats /\ Round[x] <= MaxWeight
  BY <1>3, Rounded
<1> QED BY <1>1, <1>4 DEF Average, Floats

LEMMA TypeInit == Init => TypeOK
  BY SwarmConstants DEF Init, TypeOK, Floats

LEMMA TypeStep == TypeOK /\ [Next]_vars => TypeOK'
<1> SUFFICES ASSUME TypeOK, [Next]_vars PROVE TypeOK'
  OBVIOUS
<1>1. ASSUME NEW s \in Servers, Choose(s) PROVE TypeOK'
  <2>1. queue[s] \in 0..Limit /\ ema[s] \in 0..MaxWeight
    BY SwarmConstants DEF TypeOK, Floats
  <2>2. queue[s] + ema[s] \in 0..(Limit + MaxWeight)
    BY <2>1, SwarmConstants
  <2>3. NewPriority(s) \in Floats /\ NewPriority(s) <= Limit
    BY <2>2, Rounded DEF NewPriority
  <2> QED BY <1>1, <2>3 DEF Choose, TypeOK
<1>2. ASSUME NEW s \in Servers, NEW delta \in Deltas, Update(s, delta) PROVE TypeOK'
  <2>1. Average(delta, ema[s]) \in 0..MaxWeight
    BY Averaged, SwarmConstants DEF TypeOK
  <2> QED BY <1>2, <2>1 DEF Update, TypeOK
<1>3. CASE UNCHANGED vars
  BY <1>3 DEF vars, TypeOK
<1> QED BY <1>1, <1>2, <1>3 DEF Next

\* Weights stay within the times measured, and priorities are floats below the
\* point where additions have no effect.
THEOREM WeightsBounded == Spec => []TypeOK
  BY TypeInit, TypeStep, PTL DEF Spec

-------------------------------------------------------------------------------

\* One float is below another one and a weight, and stays so when the other one
\* grows.
LEMMA Shifted ==
  ASSUME NEW p \in Floats, NEW q \in Floats, p <= Limit, q <= Limit, p <= q
  PROVE  p <= Round[q + MaxWeight] /\ Round[p + MaxWeight] <= Round[q + MaxWeight]
<1>1. /\ p \in 0..(Limit + MaxWeight) /\ Round[p] = p
      /\ p + MaxWeight \in 0..(Limit + MaxWeight)
      /\ q + MaxWeight \in 0..(Limit + MaxWeight)
      /\ p <= q + MaxWeight /\ p + MaxWeight <= q + MaxWeight
  BY SwarmConstants DEF Floats
<1>2. Round[p] <= Round[q + MaxWeight] /\ Round[p + MaxWeight] <= Round[q + MaxWeight]
  BY <1>1, SwarmConstants
<1> QED BY <1>1, <1>2

LEMMA BalancedInit == Init => Balanced
<1> SUFFICES ASSUME Init, NEW s \in Servers, NEW t \in Servers
             PROVE  queue[s] <= Round[queue[t] + MaxWeight]
  BY DEF Balanced
<1>1. InitialPriority <= Limit
  BY SwarmConstants DEF Floats
<1> QED BY <1>1, Shifted, SwarmConstants DEF Init, Floats

LEMMA BalancedStep == TypeOK /\ Balanced /\ [Next]_vars => Balanced'
<1> SUFFICES ASSUME TypeOK, Balanced, [Next]_vars PROVE Balanced'
  OBVIOUS
<1>1. ASSUME NEW c \in Servers, Choose(c) PROVE Balanced'
  <2> SUFFICES ASSUME NEW s \in Servers, NEW t \in Servers
               PROVE  queue'[s] <= Round[queue'[t] + MaxWeight]
    BY DEF Balanced
  <2>0. TypeOK'
    BY TypeStep
  <2>1. /\ queue[c] \in Floats /\ queue[t] \in Floats /\ queue[s] \in Floats
        /\ queue[c] <= Limit /\ queue[t] <= Limit /\ queue[s] <= Limit
        /\ queue[c] <= queue[t] /\ queue[c] \in Nat /\ ema[c] \in 0..MaxWeight
        /\ queue'[t] \in Floats /\ queue'[t] <= Limit
    BY <1>1, <2>0 DEF Choose, First, TypeOK, Floats
  <2>2. queue'[c] = Round[queue[c] + ema[c]] /\ \A x \in Servers \ {c} : queue'[x] = queue[x]
    BY <1>1 DEF Choose, NewPriority, TypeOK
  <2>3. queue[c] <= queue'[c]
    <3>1. queue[c] + ema[c] \in 0..(Limit + MaxWeight) /\ queue[c] \in 0..(Limit + MaxWeight)
          /\ queue[c] <= queue[c] + ema[c] /\ Round[queue[c]] = queue[c]
      BY <2>1, SwarmConstants DEF Floats
    <3>2. Round[queue[c]] <= Round[queue[c] + ema[c]]
      BY <3>1, SwarmConstants
    <3> QED BY <2>2, <3>1, <3>2
  <2>4. queue[c] <= queue'[t]
    BY <2>1, <2>2, <2>3
  <2>5. Round[queue[c] + MaxWeight] <= Round[queue'[t] + MaxWeight]
    BY <2>1, <2>4, Shifted
  <2>6. queue'[s] <= Round[queue[c] + MaxWeight]
    <3>1. CASE s = c
      <4>1. MaxWeight \in Nat /\ Limit \in Nat
        BY SwarmConstants
      <4>2. /\ queue[c] + ema[c] \in 0..(Limit + MaxWeight)
            /\ queue[c] + MaxWeight \in 0..(Limit + MaxWeight)
            /\ queue[c] + ema[c] <= queue[c] + MaxWeight
        BY <2>1, <4>1
      <4> QED BY <2>2, <3>1, <4>2, SwarmConstants
    <3>2. CASE s # c
      BY <2>2, <3>2 DEF Balanced
    <3> QED BY <3>1, <3>2
  <2>7. /\ queue'[s] \in Nat
        /\ Round[queue[c] + MaxWeight] \in Nat /\ Round[queue'[t] + MaxWeight] \in Nat
    <3>1. queue'[s] \in Nat
      BY <2>0 DEF TypeOK, Floats
    <3>2. queue[c] + MaxWeight \in 0..(Limit + MaxWeight) /\ queue'[t] + MaxWeight \in 0..(Limit + MaxWeight)
      BY <2>1, SwarmConstants DEF Floats
    <3> QED BY <3>1, <3>2, SwarmConstants
  <2> QED BY <2>5, <2>6, <2>7
<1>2. ASSUME NEW s \in Servers, NEW delta \in Deltas, Update(s, delta) PROVE Balanced'
  BY <1>2 DEF Update, Balanced
<1>3. CASE UNCHANGED vars
  BY <1>3 DEF vars, Balanced
<1> QED BY <1>1, <1>2, <1>3 DEF Next

\* However the weights change, no server is ever more than one largest weight
\* behind another one.
THEOREM SchedulerBalanced == Spec => []Balanced
  BY TypeInit, TypeStep, BalancedInit, BalancedStep, PTL DEF Spec

-------------------------------------------------------------------------------
(* How long a server waits.  What can be chosen before s is counted: the   *)
(* priorities another server has yet to pass through until it is behind s. *)

Ahead(q, s) == {pair \in (Servers \ {s}) \X Floats : q[pair[1]] <= pair[2] /\ pair[2] <= q[s]}

Longest == (Cardinality(Servers) - 1) * (MaxWeight + 1)

WaitInv ==
  /\ waited \in [Servers -> Nat]
  /\ \A s \in Servers : waited[s] + Cardinality(Ahead(queue, s)) <= Longest

\* The floats from one priority to one that is balanced with it are no more than
\* the weights: at most one lies beyond the sum, and then the sum is no float.
LEMMA FloatsBetween ==
  ASSUME NEW q \in Floats, q <= Limit, NEW x \in Floats, NEW y \in Floats,
         q <= x, x <= Round[q + MaxWeight], q <= y, y <= Round[q + MaxWeight],
         (IF x - q <= MaxWeight THEN x - q ELSE MaxWeight) = (IF y - q <= MaxWeight THEN y - q ELSE MaxWeight)
  PROVE  x = y
<1> DEFINE b == q + MaxWeight
<1>1. /\ MaxWeight \in Nat /\ Limit \in Nat /\ q \in Nat /\ x \in Nat /\ y \in Nat
      /\ b \in 0..(Limit + MaxWeight)
      /\ x \in 0..(Limit + MaxWeight) /\ y \in 0..(Limit + MaxWeight)
      /\ Round[x] = x /\ Round[y] = y
  BY SwarmConstants DEF Floats
<1>2. Round[b] \in Nat /\ Round[Round[b]] = Round[b]
  BY <1>1, SwarmConstants
<1>3. \A z \in 0..(Limit + MaxWeight) : b <= z => Round[b] <= Round[z]
  BY <1>1, SwarmConstants
<1>4. b <= x => x = Round[b]
  BY <1>1, <1>2, <1>3
<1>5. b <= y => y = Round[b]
  BY <1>1, <1>2, <1>3
<1>6. b = q + MaxWeight
  OBVIOUS
<1> HIDE DEF b
<1> QED BY <1>1, <1>2, <1>4, <1>5, <1>6

LEMMA AheadFew ==
  ASSUME NEW q \in [Servers -> Floats], NEW s \in Servers, \A t \in Servers : q[t] <= Limit,
         \A t \in Servers : q[s] <= Round[q[t] + MaxWeight]
  PROVE  IsFiniteSet(Ahead(q, s)) /\ Cardinality(Ahead(q, s)) <= Longest
<1> DEFINE Others == Servers \ {s}
           Steps == 0..MaxWeight
           step(pair) == IF pair[2] - q[pair[1]] <= MaxWeight THEN pair[2] - q[pair[1]] ELSE MaxWeight
           f == [pair \in Ahead(q, s) |-> <<pair[1], step(pair)>>]
<1>1. /\ IsFiniteSet(Others) /\ Cardinality(Others) = Cardinality(Servers) - 1
  BY SwarmConstants, FS_RemoveElement
<1>2. IsFiniteSet(Steps) /\ Cardinality(Steps) = MaxWeight + 1
  <2>1. MaxWeight \in Nat
    BY SwarmConstants
  <2> QED BY <2>1, FS_Interval
<1>3. IsFiniteSet(Others \X Steps) /\ Cardinality(Others \X Steps) = Cardinality(Others) * Cardinality(Steps)
  BY <1>1, <1>2, FS_Product
<1>4. ASSUME NEW pair \in Ahead(q, s)
      PROVE  /\ pair = <<pair[1], pair[2]>> /\ pair[1] \in Others /\ pair[2] \in Floats
             /\ q[pair[1]] <= pair[2] /\ pair[2] <= Round[q[pair[1]] + MaxWeight]
             /\ step(pair) \in Steps
  <2>1. /\ pair = <<pair[1], pair[2]>> /\ pair[1] \in Others /\ pair[2] \in Floats
        /\ q[pair[1]] <= pair[2] /\ pair[2] <= q[s]
    BY DEF Ahead
  <2>2. /\ pair[2] \in Nat /\ q[s] \in Nat /\ q[pair[1]] \in Nat /\ MaxWeight \in Nat
        /\ q[pair[1]] + MaxWeight \in 0..(Limit + MaxWeight)
    BY <2>1, SwarmConstants DEF Floats
  <2>3. Round[q[pair[1]] + MaxWeight] \in Nat
    BY <2>2, SwarmConstants
  <2>4. q[s] <= Round[q[pair[1]] + MaxWeight]
    BY <2>1
  <2>5. pair[2] <= Round[q[pair[1]] + MaxWeight]
    BY <2>1, <2>2, <2>3, <2>4
  <2> QED BY <2>1, <2>2, <2>5
<1>5. ASSUME NEW a \in Ahead(q, s), NEW b \in Ahead(q, s), f[a] = f[b]
      PROVE  a = b
  <2>1. a[1] = b[1] /\ step(a) = step(b)
    BY <1>5
  <2>2. a[2] = b[2]
    <3> DEFINE w == q[a[1]]
    <3>1. w \in Floats /\ w <= Limit /\ q[b[1]] = w
      BY <1>4, <2>1
    <3>2. /\ a[2] \in Floats /\ b[2] \in Floats
          /\ w <= a[2] /\ a[2] <= Round[w + MaxWeight] /\ w <= b[2] /\ b[2] <= Round[w + MaxWeight]
      BY <1>4, <3>1
    <3>3. (IF a[2] - w <= MaxWeight THEN a[2] - w ELSE MaxWeight)
            = (IF b[2] - w <= MaxWeight THEN b[2] - w ELSE MaxWeight)
      BY <2>1, <3>1
    <3> HIDE DEF w
    <3> QED BY <3>1, <3>2, <3>3, FloatsBetween
  <2> QED BY <1>4, <2>1, <2>2
<1>6. f \in Injection(Ahead(q, s), Others \X Steps)
  <2>1. \A pair \in Ahead(q, s) : <<pair[1], step(pair)>> \in Others \X Steps
    BY <1>4
  <2>2. f \in [Ahead(q, s) -> Others \X Steps]
    BY <2>1
  <2>3. IsInjective(f)
    BY <1>5 DEF IsInjective
  <2> QED BY <2>2, <2>3 DEF Injection
<1>7. IsFiniteSet(Ahead(q, s)) /\ Cardinality(Ahead(q, s)) <= Cardinality(Others \X Steps)
  <2> HIDE DEF f, Others, Steps
  <2> QED BY <1>3, <1>6, FS_Injection
<1>8. Cardinality(Others \X Steps) = Longest
  BY <1>1, <1>2, <1>3 DEF Longest
<1> QED BY <1>7, <1>8

LEMMA LongestType == Longest \in Int
<1>1. Cardinality(Servers) \in Nat /\ MaxWeight \in Nat
  BY SwarmConstants, FS_CardinalityType
<1> QED BY <1>1 DEF Longest

\* A server that waits less than a choice ago has fewer choices before it.
LEMMA AheadLess ==
  ASSUME NEW q \in [Servers -> Floats], NEW p \in [Servers -> Floats],
         NEW c \in Servers, NEW s \in Servers, s # c, \A t \in Servers \ {c} : p[t] = q[t],
         q[c] < p[c], q[c] <= q[s], IsFiniteSet(Ahead(q, s))
  PROVE  Cardinality(Ahead(p, s)) + 1 <= Cardinality(Ahead(q, s))
<1> DEFINE x == <<c, q[c]>>
           A == Ahead(q, s)
           B == Ahead(p, s)
<1>0. \A t \in Servers : q[t] \in Nat /\ p[t] \in Nat
  BY DEF Floats
<1>1. x \in A
  BY <1>0 DEF Ahead
<1>2. x \notin B
  BY <1>0 DEF Ahead
<1>3. ASSUME NEW pair \in B PROVE pair \in A
  <2>1. /\ pair \in (Servers \ {s}) \X Floats
        /\ p[pair[1]] <= pair[2] /\ pair[2] <= p[s] /\ p[s] = q[s]
    BY DEF Ahead
  <2>2. pair[2] \in Nat /\ pair[1] \in Servers
    BY <2>1 DEF Floats
  <2>3. q[pair[1]] <= p[pair[1]]
    BY <1>0, <2>2
  <2>4. q[pair[1]] <= pair[2]
    BY <1>0, <2>1, <2>2, <2>3
  <2> QED BY <2>1, <2>4 DEF Ahead
<1> HIDE DEF A, B
<1>4. B \subseteq A \ {x}
  BY <1>2, <1>3
<1>5. IsFiniteSet(A)
  BY DEF A
<1>6. IsFiniteSet(A \ {x}) /\ Cardinality(A \ {x}) = Cardinality(A) - 1 /\ Cardinality(A) \in Nat
  BY <1>1, <1>5, FS_RemoveElement, FS_CardinalityType
<1>7. IsFiniteSet(B) /\ Cardinality(B) <= Cardinality(A \ {x}) /\ Cardinality(B) \in Nat
  BY <1>4, <1>6, FS_Subset, FS_CardinalityType
<1> QED BY <1>6, <1>7 DEF A, B

\* Whatever the state, a server that starts to wait waits no longer than that.
LEMMA WaitFresh ==
  ASSUME TypeOK, Balanced, NEW s \in Servers
  PROVE  /\ IsFiniteSet(Ahead(queue, s)) /\ Cardinality(Ahead(queue, s)) <= Longest
         /\ Cardinality(Ahead(queue, s)) \in Nat
<1>1. /\ queue \in [Servers -> Floats] /\ \A t \in Servers : queue[t] <= Limit
      /\ \A t \in Servers : queue[s] <= Round[queue[t] + MaxWeight]
  BY DEF TypeOK, Balanced
<1> QED BY <1>1, AheadFew, FS_CardinalityType

LEMMA WaitInit == Init => WaitInv
<1> SUFFICES ASSUME Init PROVE WaitInv
  OBVIOUS
<1>1. TypeOK /\ Balanced
  BY TypeInit, BalancedInit
<1>2. waited \in [Servers -> Nat] /\ \A s \in Servers : waited[s] = 0
  BY DEF Init
<1> QED BY <1>1, <1>2, WaitFresh, LongestType DEF WaitInv

LEMMA WaitStep == TypeOK /\ Balanced /\ WaitInv /\ [Next]_vars => WaitInv'
<1> SUFFICES ASSUME TypeOK, Balanced, WaitInv, [Next]_vars PROVE WaitInv'
  OBVIOUS
<1>0. TypeOK' /\ Balanced'
  BY TypeStep, BalancedStep
<1>1. ASSUME NEW c \in Servers, Choose(c) PROVE WaitInv'
  <2>1. waited' = [t \in Servers |-> IF t = c \/ Absorbed(c) THEN 0 ELSE waited[t] + 1]
        /\ queue' = [queue EXCEPT ![c] = NewPriority(c)] /\ First(c)
    BY <1>1 DEF Choose
  <2>2. waited' \in [Servers -> Nat]
    BY <2>1 DEF WaitInv
  <2>3. queue \in [Servers -> Floats] /\ queue' \in [Servers -> Floats]
    BY <1>0 DEF TypeOK
  <2>4. ASSUME NEW s \in Servers
        PROVE  waited'[s] + Cardinality(Ahead(queue', s)) <= Longest
    <3> DEFINE n == Cardinality(Ahead(queue, s))
               m == Cardinality(Ahead(queue', s))
    <3>1. m <= Longest /\ m \in Nat
      <4>1. /\ \A t \in Servers : queue'[t] <= Limit
            /\ \A t \in Servers : queue'[s] <= Round[queue'[t] + MaxWeight]
        BY <1>0 DEF TypeOK, Balanced
      <4> QED BY <2>3, <4>1, AheadFew, FS_CardinalityType
    <3>2. CASE s = c \/ Absorbed(c)
      BY <2>1, <3>1, <3>2, LongestType
    <3>3. CASE s # c /\ ~Absorbed(c)
      <4>1. queue[c] < NewPriority(c) /\ queue'[c] = NewPriority(c)
        <5>1. queue[c] + ema[c] \in 0..(Limit + MaxWeight) /\ queue[c] \in 0..(Limit + MaxWeight)
              /\ queue[c] <= queue[c] + ema[c] /\ Round[queue[c]] = queue[c]
          BY SwarmConstants DEF TypeOK, Floats
        <5>2. Round[queue[c]] <= Round[queue[c] + ema[c]] /\ Round[queue[c] + ema[c]] \in Nat
          BY <5>1, SwarmConstants
        <5>3. NewPriority(c) # queue[c]
          BY <3>3 DEF Absorbed
        <5> QED BY <2>1, <2>3, <5>1, <5>2, <5>3 DEF NewPriority
      <4>2. queue[c] <= queue[s] /\ \A t \in Servers \ {c} : queue'[t] = queue[t]
        BY <2>1, <2>3 DEF First
      <4>3. m + 1 <= n /\ n \in Nat
        BY <2>3, <3>3, <4>1, <4>2, WaitFresh, AheadLess
      <4>4. waited[s] + n <= Longest /\ waited[s] \in Nat /\ waited'[s] = waited[s] + 1
        BY <2>1, <3>3 DEF WaitInv
      <4> HIDE DEF m, n
      <4> QED BY <3>1, <4>3, <4>4, LongestType DEF m
    <3> QED BY <3>2, <3>3
  <2> QED BY <2>2, <2>4 DEF WaitInv
<1>2. ASSUME NEW s \in Servers, NEW delta \in Deltas, Update(s, delta) PROVE WaitInv'
  BY <1>2 DEF Update, WaitInv
<1>3. CASE UNCHANGED vars
  BY <1>3 DEF vars, WaitInv
<1> QED BY <1>1, <1>2, <1>3 DEF Next

\* Whatever times were measured, a server is chosen again after a bounded number
\* of choices: each of the others has at most one priority for each weight to
\* pass through before it is behind.
THEOREM WaitBounded == Spec => []BoundedWait
<1>1. TypeOK /\ Balanced /\ WaitInv => BoundedWait
  <2> SUFFICES ASSUME TypeOK, Balanced, WaitInv, NEW s \in Servers PROVE waited[s] <= Longest
    BY DEF BoundedWait, Longest
  <2>1. waited[s] \in Nat /\ waited[s] + Cardinality(Ahead(queue, s)) <= Longest
    BY DEF WaitInv
  <2> QED BY <2>1, WaitFresh, LongestType
<1> QED BY <1>1, TypeInit, TypeStep, BalancedInit, BalancedStep, WaitInit, WaitStep, PTL DEF Spec
===============================================================================
