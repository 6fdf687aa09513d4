----------------------------- MODULE ClusterProofs -----------------------------
(***************************************************************************)
(* The start-up of a cluster, for every machine graph that satisfies the   *)
(* assumptions of Topology.  First the handshake by itself: what its       *)
(* threads know of each other, and that it is a barrier.  Then the cluster *)
(* that starts while its host's program is already free to launch          *)
(* requests: from its main loops the start-up is invisible, because every  *)
(* receiver is in its main loop and every link subscribed once the host    *)
(* has started.                                                            *)
(***************************************************************************)
EXTENDS Cluster, TLAPS


-------------------------------------------------------------------------------
(* Type correctness.                                                       *)

LEMMA TypeInit == Init => Types
  BY DEF Init, Types

LEMMA PublishType ==
  ASSUME Types, NEW m, NEW n, NEW msg \in {"Init", "InitComplete"}, Publish(m, n, msg)
  PROVE  chan' \in [Edges -> Seq({"Init", "InitComplete"})]
  BY DEF Types, Publish

LEMMA PollType ==
  ASSUME Types, NEW m, NEW n, Poll(m, n)
  PROVE  chan' \in [Edges -> Seq({"Init", "InitComplete"})]
  BY DEF Types, Poll

LEMMA TypeStep == Types /\ [Next]_vars => Types'
<1> SUFFICES ASSUME Types, [Next]_vars PROVE Types'
  OBVIOUS
<1> USE DEF vars, config_vars, receiver_vars, sender_vars, flags, net_vars
<1>1. CASE ConfigBroadcast
  BY <1>1 DEF ConfigBroadcast, ReadConfig, ReplyConfig, Types, Machines
<1>2. ASSUME NEW m \in Machines, ReceiverStep(m) PROVE Types'
  <2>1. CASE m \in Workers /\ RequestConfig(m)
    BY <2>1 DEF RequestConfig, Types
  <2>2. CASE m \in Workers /\ ReceiveConfig(m)
    BY <2>2 DEF ReceiveConfig, Types, InNodes
  <2>3. CASE m = Host /\ GatherConnect
    BY <2>3 DEF GatherConnect, Types, InNodes
  <2>4. CASE InputsReady(m)
    BY <2>4 DEF InputsReady, Types, InNodes
  <2>5. CASE InputsComplete(m)
    BY <2>5 DEF InputsComplete, Types, Machines
  <2> QED BY <1>2, <2>1, <2>2, <2>3, <2>4, <2>5 DEF ReceiverStep
<1>3. ASSUME NEW m \in Machines, SenderStep(m) PROVE Types'
  <2>1. CASE BindOutputs(m)
    BY <2>1 DEF BindOutputs, Types
  <2>2. CASE StartSendingInit(m)
    BY <2>2 DEF StartSendingInit, Types
  <2>3. CASE InitRound(m)
    BY <2>3 DEF InitRound, Types, OutNodes
  <2>4. CASE LeaveInitLoop(m)
    BY <2>4 DEF LeaveInitLoop, Types, OutNodes
  <2>5. CASE SenderEntersMain(m)
    BY <2>5 DEF SenderEntersMain, Types
  <2>6. ASSUME NEW n \in Machines, SendInit(m, n) PROVE Types'
    BY <2>6, PublishType DEF SendInit, Types
  <2>7. ASSUME NEW n \in Machines, SendInitComplete(m, n) PROVE Types'
    BY <2>7, PublishType DEF SendInitComplete, Types
  <2> QED BY <1>3, <2>1, <2>2, <2>3, <2>4, <2>5, <2>6, <2>7 DEF SenderStep
<1>4. ASSUME NEW m \in Machines, NEW n \in Machines, LinkStep(m, n) PROVE Types'
  <2>1. CASE Subscribe(m, n)
    BY <2>1 DEF Subscribe, Types
  <2>2. CASE ReceiveInit(m, n)
    BY <2>2, PollType DEF ReceiveInit, Types
  <2>3. CASE ReceiveComplete(m, n)
    BY <2>3, PollType DEF ReceiveComplete, Types
  <2> QED BY <1>4, <2>1, <2>2, <2>3 DEF LinkStep
<1>5. CASE ClusterUp \/ UNCHANGED vars
  BY <1>5 DEF ClusterUp, Types
<1> QED BY <1>1, <1>2, <1>3, <1>4, <1>5 DEF Next


-------------------------------------------------------------------------------
(* The handshake invariant.  One lemma for each kind of step: the steps that *)
(* leave the links alone, the steps of a receiver and the steps of a sender. *)

LEMMA HandshakeInit == Init => HandshakeInv
  BY DEF Init, HandshakeInv, ConfigInv, FlagsInv, LinksInv, WaveInv, CompleteInv, LinkComplete, Sending, Announcing,
         InputsHeard, Heard, SentComplete, HeardComplete, Machines

\* A step that changes none of what the invariant reads preserves it.
LEMMA HandshakeFrame ==
  ASSUME HandshakeInv, ConfigInv',
         UNCHANGED <<receiver_vars, sender_vars, flags, net_vars>>
  PROVE  HandshakeInv'
  BY DEF HandshakeInv, FlagsInv, LinksInv, WaveInv, CompleteInv, LinkComplete, Sending,
         Announcing, InputsHeard, Heard, SentComplete, HeardComplete,
         receiver_vars, sender_vars, flags, net_vars

\* Where no message moves, sending more and hearing less keeps CompleteInv.
LEMMA CompleteFrame ==
  ASSUME CompleteInv, UNCHANGED chan,
         \A m, n \in Machines : <<m, n>> \in Edges =>
           (SentComplete(m, n) => SentComplete(m, n)') /\ (HeardComplete(m, n)' => HeardComplete(m, n))
  PROVE  CompleteInv'
  BY DEF CompleteInv, LinkComplete

\* A step that changes one link, or what is said and heard on it.
LEMMA CompleteOneLink ==
  ASSUME Types, CompleteInv, NEW m \in Machines, NEW n \in Machines, <<m, n>> \in Edges,
         NEW msgs, chan' = chan \/ chan' = [chan EXCEPT ![<<m, n>>] = msgs],
         LinkComplete(m, n)',
         \A p, q \in Machines : <<p, q>> # <<m, n>> =>
           (SentComplete(p, q) => SentComplete(p, q)') /\ (HeardComplete(p, q)' => HeardComplete(p, q))
  PROVE  CompleteInv'
<1> SUFFICES ASSUME NEW p \in Machines, NEW q \in Machines, <<p, q>> \in Edges
             PROVE  LinkComplete(p, q)'
  BY DEF CompleteInv
<1>1. CASE <<p, q>> = <<m, n>>
  BY <1>1
<1>2. CASE <<p, q>> # <<m, n>>
  <2>1. chan'[<<p, q>>] = chan[<<p, q>>]
    BY <1>2 DEF Types
  <2>2. LinkComplete(p, q)
    BY DEF CompleteInv
  <2> QED BY <1>2, <2>1, <2>2 DEF LinkComplete
<1> QED BY <1>1, <1>2

LEMMA TailFacts ==
  ASSUME NEW T, NEW s \in Seq(T), s # <<>>
  PROVE  /\ Len(s) \in Nat \ {0}
         /\ s[1] = Head(s)
         /\ Len(Tail(s)) = Len(s) - 1
         /\ \A i \in 1..Len(Tail(s)) : Tail(s)[i] = s[i + 1]
         /\ Len(s) = 1 => Tail(s) = <<>>
  OBVIOUS

LEMMA AppendFacts ==
  ASSUME NEW T, NEW s \in Seq(T), NEW x \in T
  PROVE  /\ Len(s) \in Nat
         /\ Len(Append(s, x)) = Len(s) + 1
         /\ \A i \in 1..Len(s) : Append(s, x)[i] = s[i]
         /\ Append(s, x)[Len(s) + 1] = x
  OBVIOUS

\* A receiver that has not begun its first wait may move up to it.
LEMMA HandshakeEarlyReceiver ==
  ASSUME Types, HandshakeInv, NEW r \in Machines,
         receiver[r] \in {"start", "config"},
         NEW pos \in {"config", "ready"}, receiver' = [receiver EXCEPT ![r] = pos],
         pos = "ready" =>
           input_machines_not_ready' = [input_machines_not_ready EXCEPT ![r] = InNodes(r)],
         pos = "config" => UNCHANGED input_machines_not_ready,
         UNCHANGED <<input_machines_not_complete, sender_vars, flags, net_vars>>, ConfigInv'
  PROVE  HandshakeInv'
<1> USE DEF Sending, Announcing, InputsHeard, Heard, SentComplete, HeardComplete,
            sender_vars, flags, net_vars, Machines
<1>1. FlagsInv'
  BY DEF HandshakeInv, FlagsInv, Types
<1>2. LinksInv'
  BY DEF HandshakeInv, LinksInv, Types, InNodes
<1>3. WaveInv'
  BY DEF HandshakeInv, WaveInv, Types
<1>4. CompleteInv'
  <2>1. ASSUME NEW p \in Machines, NEW q \in Machines, <<p, q>> \in Edges
        PROVE  /\ SentComplete(p, q) => SentComplete(p, q)'
               /\ HeardComplete(p, q)' => HeardComplete(p, q)
    BY DEF Types
  <2> QED BY <2>1, CompleteFrame DEF HandshakeInv
<1> QED BY <1>1, <1>2, <1>3, <1>4 DEF HandshakeInv

LEMMA HandshakeSubscribe ==
  ASSUME Types, HandshakeInv, ConfigInv', NEW m \in Machines, NEW n \in Machines, Subscribe(m, n)
  PROVE  HandshakeInv'
  BY DEF Subscribe, HandshakeInv, FlagsInv, LinksInv, WaveInv, CompleteInv, LinkComplete,
         Sending, Announcing, InputsHeard, Heard, SentComplete, HeardComplete,
         receiver_vars, sender_vars, flags

LEMMA HandshakeReceiveInit ==
  ASSUME Types, HandshakeInv, ConfigInv', NEW m \in Machines, NEW n \in Machines, ReceiveInit(m, n)
  PROVE  HandshakeInv'
<1> USE DEF ReceiveInit, Poll, Sending, Announcing, InputsHeard, Heard, SentComplete,
            HeardComplete, sender_vars, flags
<1>1. FlagsInv'
  BY DEF HandshakeInv, FlagsInv, Machines
<1>2. LinksInv'
  BY DEF HandshakeInv, LinksInv, Types
<1>3. WaveInv'
  BY DEF HandshakeInv, WaveInv
<1>4. CompleteInv'
  <2> DEFINE q == chan[<<m, n>>]
  <2>1. <<m, n>> \in Edges /\ q # <<>> /\ q \in Seq({"Init", "InitComplete"})
        /\ chan'[<<m, n>>] = Tail(q) /\ chan' = [chan EXCEPT ![<<m, n>>] = Tail(q)]
    BY DEF Types
  <2>2. LinkComplete(m, n) /\ ~HeardComplete(m, n)
    BY <2>1 DEF HandshakeInv, CompleteInv, LinkComplete
  <2>3. SentComplete(m, n) <=> SentComplete(m, n)'
    OBVIOUS
  <2> HIDE DEF q
  <2>4. ~HeardComplete(m, n)'
    OBVIOUS
  <2>5. \A i \in 1..Len(Tail(q)) : Tail(q)[i] = "InitComplete" =>
          i = Len(Tail(q)) /\ SentComplete(m, n)
    <3>1. \A i \in 1..Len(q) : q[i] = "InitComplete" => i = Len(q) /\ SentComplete(m, n)
      BY <2>2 DEF LinkComplete, q
    <3> QED BY <3>1, <2>1, TailFacts
  <2>6. LinkComplete(m, n)'
    BY <2>1, <2>3, <2>4, <2>5 DEF LinkComplete
  <2>7. \A p, r \in Machines : <<p, r>> # <<m, n>> =>
          (SentComplete(p, r) => SentComplete(p, r)') /\ (HeardComplete(p, r)' => HeardComplete(p, r))
    BY DEF Types
  <2>8. chan' = chan \/ chan' = [chan EXCEPT ![<<m, n>>] = Tail(q)]
    BY <2>1
  <2> QED BY <2>1, <2>6, <2>7, <2>8, CompleteOneLink DEF HandshakeInv
<1> QED BY <1>1, <1>2, <1>3, <1>4 DEF HandshakeInv

LEMMA HandshakeInputsReady ==
  ASSUME Types, HandshakeInv, ConfigInv', NEW n \in Machines, InputsReady(n)
  PROVE  HandshakeInv'
<1> USE DEF InputsReady, Sending, Announcing, InputsHeard, Heard, SentComplete,
            HeardComplete, sender_vars, net_vars
<1>1. FlagsInv'
  BY DEF HandshakeInv, FlagsInv, Types, Machines
<1>2. LinksInv'
  BY DEF HandshakeInv, LinksInv, Types
<1>3. WaveInv'
  BY DEF HandshakeInv, WaveInv, Types
<1>4. CompleteInv'
  <2>1. ASSUME NEW p \in Machines, NEW q \in Machines, <<p, q>> \in Edges
        PROVE  /\ SentComplete(p, q) => SentComplete(p, q)'
               /\ HeardComplete(p, q)' => HeardComplete(p, q)
    BY <2>1 DEF Types, InNodes
  <2> QED BY <2>1, CompleteFrame DEF HandshakeInv
<1> QED BY <1>1, <1>2, <1>3, <1>4 DEF HandshakeInv

LEMMA HandshakeReceiveComplete ==
  ASSUME Types, HandshakeInv, ConfigInv', NEW m \in Machines, NEW n \in Machines, ReceiveComplete(m, n)
  PROVE  HandshakeInv'
<1> USE DEF ReceiveComplete, Poll, Sending, Announcing, InputsHeard, Heard, SentComplete,
            HeardComplete, sender_vars, flags
<1>1. FlagsInv'
  BY DEF HandshakeInv, FlagsInv, Machines
<1>2. LinksInv'
  BY DEF HandshakeInv, LinksInv, Types
<1>3. WaveInv'
  BY DEF HandshakeInv, WaveInv
<1>4. CompleteInv'
  <2> DEFINE q == chan[<<m, n>>]
  <2>1. <<m, n>> \in Edges /\ q # <<>> /\ q \in Seq({"Init", "InitComplete"})
        /\ chan'[<<m, n>>] = Tail(q) /\ chan' = [chan EXCEPT ![<<m, n>>] = Tail(q)]
    BY DEF Types
  <2>2. LinkComplete(m, n) /\ ~HeardComplete(m, n)
    BY <2>1 DEF HandshakeInv, CompleteInv, LinkComplete
  <2>3. SentComplete(m, n) <=> SentComplete(m, n)'
    OBVIOUS
  <2> HIDE DEF q
  <2>4. HeardComplete(m, n)' => SentComplete(m, n) /\ Tail(q) = <<>>
    <3>1. HeardComplete(m, n)' => Head(q) = "InitComplete"
      BY <2>2 DEF Types, q
    <3> HIDE DEF ReceiveComplete, SentComplete
    <3>2. Head(q) = "InitComplete" => Len(q) = 1 /\ SentComplete(m, n)
      <4>1. Len(q) \in Nat \ {0} /\ q[1] = Head(q)
        BY <2>1, TailFacts
      <4>2. \A i \in 1..Len(q) : q[i] = "InitComplete" => i = Len(q) /\ SentComplete(m, n)
        BY <2>2 DEF LinkComplete, q
      <4>3. 1 \in 1..Len(q)
        BY <4>1
      <4>4. q[1] = "InitComplete" => 1 = Len(q) /\ SentComplete(m, n)
        BY ONLY <4>2, <4>3
      <4> QED BY ONLY <4>1, <4>4
    <3> QED BY <3>1, <3>2, <2>1, TailFacts
  <2>5. \A i \in 1..Len(Tail(q)) : Tail(q)[i] = "InitComplete" =>
          i = Len(Tail(q)) /\ SentComplete(m, n)
    <3>1. \A i \in 1..Len(q) : q[i] = "InitComplete" => i = Len(q) /\ SentComplete(m, n)
      BY <2>2 DEF LinkComplete, q
    <3> QED BY <3>1, <2>1, TailFacts
  <2>6. LinkComplete(m, n)'
    BY <2>1, <2>3, <2>4, <2>5 DEF LinkComplete
  <2>7. \A p, r \in Machines : <<p, r>> # <<m, n>> =>
          (SentComplete(p, r) => SentComplete(p, r)') /\ (HeardComplete(p, r)' => HeardComplete(p, r))
    BY DEF Types
  <2>8. chan' = chan \/ chan' = [chan EXCEPT ![<<m, n>>] = Tail(q)]
    BY <2>1
  <2> HIDE DEF ReceiveComplete, Poll, SentComplete, HeardComplete
  <2> QED BY <2>1, <2>6, <2>7, <2>8, CompleteOneLink DEF HandshakeInv
<1> QED BY <1>1, <1>2, <1>3, <1>4 DEF HandshakeInv

LEMMA HandshakeInputsComplete ==
  ASSUME Types, HandshakeInv, ConfigInv', NEW n \in Machines, InputsComplete(n)
  PROVE  HandshakeInv'
<1> USE TopologyTypes
    DEF InputsComplete, Sending, Announcing, InputsHeard, Heard, SentComplete,
            HeardComplete, sender_vars, net_vars
<1>1. FlagsInv'
  BY DEF HandshakeInv, FlagsInv, Types, Machines
<1>2. LinksInv'
  BY DEF HandshakeInv, LinksInv, Types
<1>3. WaveInv'
  BY DEF HandshakeInv, WaveInv, Types
<1>4. CompleteInv'
  <2>1. ASSUME NEW p \in Machines, NEW q \in Machines, <<p, q>> \in Edges
        PROVE  /\ SentComplete(p, q) => SentComplete(p, q)'
               /\ HeardComplete(p, q)' => HeardComplete(p, q)
    BY DEF Types
  <2> QED BY <2>1, CompleteFrame DEF HandshakeInv
<1> QED BY <1>1, <1>2, <1>3, <1>4 DEF HandshakeInv

\* A sender that has not announced completion may do anything but announce it
\* or say more than its flags allow.
LEMMA HandshakeEarlySender ==
  ASSUME Types, HandshakeInv, ConfigInv', NEW m \in Machines,
         BindOutputs(m) \/ StartSendingInit(m) \/ InitRound(m)
  PROVE  HandshakeInv'
<1> USE DEF BindOutputs, StartSendingInit, InitRound, Sending, Announcing, InputsHeard, Heard,
            SentComplete, HeardComplete, receiver_vars, flags, net_vars
<1>1. FlagsInv'
  <2>1. \A x \in Machines : Announcing(x)' => Announcing(x)
    BY DEF Types
  <2>2. \A w \in Workers : Sending(w)' => Sending(w) \/ input_port_initialized[w]
    BY TopologyTypes DEF Types, Machines
  <2> QED BY <2>1, <2>2 DEF HandshakeInv, FlagsInv, Machines
<1>2. LinksInv'
  BY DEF HandshakeInv, LinksInv, Types
<1>3. WaveInv'
  BY DEF HandshakeInv, WaveInv, Types
<1>4. CompleteInv'
  <2>1. ASSUME NEW p \in Machines, NEW q \in Machines, <<p, q>> \in Edges
        PROVE  /\ SentComplete(p, q) => SentComplete(p, q)'
               /\ HeardComplete(p, q)' => HeardComplete(p, q)
    BY DEF Types
  <2> QED BY <2>1, CompleteFrame DEF HandshakeInv
<1> QED BY <1>1, <1>2, <1>3, <1>4 DEF HandshakeInv

LEMMA HandshakeSendInit ==
  ASSUME Types, HandshakeInv, ConfigInv', NEW m \in Machines, NEW n \in Machines, SendInit(m, n)
  PROVE  HandshakeInv'
<1> USE DEF SendInit, Publish, Sending, Announcing, InputsHeard, Heard, SentComplete,
            HeardComplete, receiver_vars, flags
<1>1. FlagsInv'
  BY DEF HandshakeInv, FlagsInv
<1>2. LinksInv'
  BY DEF HandshakeInv, LinksInv, Types
<1>3. WaveInv'
  BY DEF HandshakeInv, WaveInv
<1>4. CompleteInv'
  <2> DEFINE q == chan[<<m, n>>]
  <2>1. <<m, n>> \in Edges /\ q \in Seq({"Init", "InitComplete"})
    BY DEF Types, OutNodes
  <2>2. LinkComplete(m, n) /\ ~SentComplete(m, n) /\ ~HeardComplete(m, n)
    BY <2>1 DEF HandshakeInv, CompleteInv, LinkComplete
  <2>3. ~HeardComplete(m, n)' /\ ~SentComplete(m, n)'
    BY <2>2 DEF Types
  <2>4. chan' = chan \/ chan' = [chan EXCEPT ![<<m, n>>] = Append(q, "Init")]
    OBVIOUS
  <2> HIDE DEF q
  <2>5. LinkComplete(m, n)'
    <3>1. CASE chan' = chan
      BY <3>1, <2>2, <2>3 DEF LinkComplete
    <3>2. CASE chan' = [chan EXCEPT ![<<m, n>>] = Append(q, "Init")]
      <4>1. chan'[<<m, n>>] = Append(q, "Init")
        BY <3>2, <2>1 DEF Types
      <4>2. \A i \in 1..Len(q) : q[i] # "InitComplete"
        BY <2>2 DEF LinkComplete, q
      <4>3. \A i \in 1..Len(Append(q, "Init")) : Append(q, "Init")[i] # "InitComplete"
        BY <4>2, <2>1, AppendFacts
      <4> QED BY <4>1, <4>3, <2>3 DEF LinkComplete
    <3> QED BY <2>4, <3>1, <3>2
  <2>6. \A p, r \in Machines : <<p, r>> # <<m, n>> =>
          (SentComplete(p, r) => SentComplete(p, r)') /\ (HeardComplete(p, r)' => HeardComplete(p, r))
    BY DEF Types
  <2> QED BY <2>1, <2>4, <2>5, <2>6, CompleteOneLink DEF HandshakeInv
<1> QED BY <1>1, <1>2, <1>3, <1>4 DEF HandshakeInv

LEMMA HandshakeSendInitComplete ==
  ASSUME Types, HandshakeInv, ConfigInv', NEW m \in Machines, NEW n \in Machines, SendInitComplete(m, n)
  PROVE  HandshakeInv'
<1> USE DEF SendInitComplete, Publish, Sending, Announcing, InputsHeard, Heard, SentComplete,
            HeardComplete, receiver_vars, flags
<1>1. FlagsInv'
  BY DEF HandshakeInv, FlagsInv
<1>2. LinksInv'
  BY DEF HandshakeInv, LinksInv, Types
<1>3. WaveInv'
  BY DEF HandshakeInv, WaveInv
<1>4. CompleteInv'
  <2> DEFINE q == chan[<<m, n>>]
  <2>1. <<m, n>> \in Edges /\ q \in Seq({"Init", "InitComplete"})
    BY DEF Types, OutNodes
  <2>2. LinkComplete(m, n) /\ ~SentComplete(m, n) /\ ~HeardComplete(m, n)
    BY <2>1 DEF HandshakeInv, CompleteInv, LinkComplete
  <2>3. ~HeardComplete(m, n)' /\ SentComplete(m, n)'
    BY <2>2 DEF Types, OutNodes
  <2>4. chan' = chan \/ chan' = [chan EXCEPT ![<<m, n>>] = Append(q, "InitComplete")]
    OBVIOUS
  <2> HIDE DEF q
  <2>5. LinkComplete(m, n)'
    <3>1. CASE chan' = chan
      BY <3>1, <2>2, <2>3 DEF LinkComplete
    <3>2. CASE chan' = [chan EXCEPT ![<<m, n>>] = Append(q, "InitComplete")]
      <4>1. chan'[<<m, n>>] = Append(q, "InitComplete")
        BY <3>2, <2>1 DEF Types
      <4>2. \A i \in 1..Len(q) : q[i] # "InitComplete"
        BY <2>2 DEF LinkComplete, q
      <4>3. \A i \in 1..Len(Append(q, "InitComplete")) : Append(q, "InitComplete")[i] = "InitComplete" =>
              i = Len(Append(q, "InitComplete"))
        BY <4>2, <2>1, AppendFacts
      <4> QED BY <4>1, <4>3, <2>3 DEF LinkComplete
    <3> QED BY <2>4, <3>1, <3>2
  <2>6. \A p, r \in Machines : <<p, r>> # <<m, n>> =>
          (SentComplete(p, r) => SentComplete(p, r)') /\ (HeardComplete(p, r)' => HeardComplete(p, r))
    BY DEF Types
  <2> QED BY <2>1, <2>4, <2>5, <2>6, CompleteOneLink DEF HandshakeInv
<1> QED BY <1>1, <1>2, <1>3, <1>4 DEF HandshakeInv

\* The first announcement of completion proves every receiver past its first
\* wait: the host's inputs were heard, so their inputs were, and so on; or an
\* input of the worker has announced it before.
LEMMA FirstWaitsOver ==
  ASSUME Types, HandshakeInv, NEW m \in Machines, NEW x \in Machines,
         sender[m] = "init", StopSendingInit(m)
  PROVE  InputsHeard(x)
<1>1. CASE m = Host
  <2> DEFINE S == {y \in Machines : InputsHeard(y)}
  <2>1. Host \in S
    BY <1>1 DEF StopSendingInit, HandshakeInv, FlagsInv
  <2>2. ASSUME NEW p \in Machines, NEW q \in Machines, <<p, q>> \in Edges, q \in S
        PROVE  p \in S
    <3>1. Sending(p)
      BY <2>2 DEF HandshakeInv, LinksInv, Heard
    <3> QED BY <2>1, <3>1 DEF HandshakeInv, FlagsInv, Machines
  <2>3. ClosedUnderInputs(S)
    BY <2>2 DEF ClosedUnderInputs
  <2> QED BY <2>1, <2>3, MachinesReachHost
<1>2. CASE m \in Workers
  <2>1. receiver[m] = "main"
    BY <1>2, TopologyTypes DEF StopSendingInit, HandshakeInv, FlagsInv
  <2>2. PICK p \in Machines : <<p, m>> \in Edges
    BY <1>2, WorkersHaveInputs DEF InNodes
  <2>3. Announcing(p)
    BY <2>1, <2>2 DEF HandshakeInv, CompleteInv, LinkComplete, HeardComplete, SentComplete,
       Announcing
  <2> QED BY <2>3 DEF HandshakeInv, WaveInv
<1> QED BY <1>1, <1>2 DEF Machines

LEMMA HandshakeLeaveInitLoop ==
  ASSUME Types, HandshakeInv, ConfigInv', NEW m \in Machines, LeaveInitLoop(m)
  PROVE  HandshakeInv'
<1> USE DEF LeaveInitLoop, Sending, Announcing, InputsHeard, Heard, SentComplete,
            HeardComplete, receiver_vars, flags, net_vars
<1>1. FlagsInv'
  BY TopologyTypes DEF HandshakeInv, FlagsInv, Types, Machines, StopSendingInit
<1>2. LinksInv'
  BY DEF HandshakeInv, LinksInv, Types
<1>3. WaveInv'
  BY FirstWaitsOver DEF HandshakeInv, WaveInv, Types
<1>4. CompleteInv'
  <2>1. ASSUME NEW p \in Machines, NEW q \in Machines, <<p, q>> \in Edges
        PROVE  /\ SentComplete(p, q) => SentComplete(p, q)'
               /\ HeardComplete(p, q)' => HeardComplete(p, q)
    BY DEF Types
  <2> QED BY <2>1, CompleteFrame DEF HandshakeInv
<1> QED BY <1>1, <1>2, <1>3, <1>4 DEF HandshakeInv

LEMMA HandshakeSenderEntersMain ==
  ASSUME Types, HandshakeInv, ConfigInv', NEW m \in Machines, SenderEntersMain(m)
  PROVE  HandshakeInv'
<1> USE DEF SenderEntersMain, Sending, Announcing, InputsHeard, Heard, SentComplete,
            HeardComplete, receiver_vars, flags, net_vars
<1>1. FlagsInv'
  BY DEF HandshakeInv, FlagsInv, Types, Machines
<1>2. LinksInv'
  BY DEF HandshakeInv, LinksInv, Types
<1>3. WaveInv'
  BY DEF HandshakeInv, WaveInv, Types
<1>4. CompleteInv'
  <2>1. ASSUME NEW p \in Machines, NEW q \in Machines, <<p, q>> \in Edges
        PROVE  /\ SentComplete(p, q) => SentComplete(p, q)'
               /\ HeardComplete(p, q)' => HeardComplete(p, q)
    BY DEF Types
  <2> QED BY <2>1, CompleteFrame DEF HandshakeInv
<1> QED BY <1>1, <1>2, <1>3, <1>4 DEF HandshakeInv

LEMMA ConfigStep == Types /\ ConfigInv /\ [Next]_vars => ConfigInv'
<1> SUFFICES ASSUME Types, ConfigInv, [Next]_vars PROVE ConfigInv'
  OBVIOUS
<1> USE TopologyTypes DEF ConfigInv, Types, Machines
<1>1. CASE ConfigBroadcast
  BY <1>1 DEF ConfigBroadcast, ReadConfig, ReplyConfig, receiver_vars
<1>2. ASSUME NEW m \in Machines, ReceiverStep(m) PROVE ConfigInv'
  <2>1. CASE m \in Workers /\ RequestConfig(m)
    BY <2>1 DEF RequestConfig
  <2>2. CASE m \in Workers /\ ReceiveConfig(m)
    BY <2>2 DEF ReceiveConfig
  <2>3. CASE (m = Host /\ GatherConnect) \/ InputsReady(m) \/ InputsComplete(m)
    BY <2>3 DEF GatherConnect, InputsReady, InputsComplete, config_vars
  <2> QED BY <1>2, <2>1, <2>2, <2>3 DEF ReceiverStep
<1>3. ASSUME NEW m \in Machines, SenderStep(m) PROVE ConfigInv'
  BY <1>3 DEF SenderStep, BindOutputs, StartSendingInit, InitRound, LeaveInitLoop,
     SenderEntersMain, SendInit, SendInitComplete, config_vars, receiver_vars
<1>4. ASSUME NEW m \in Machines, NEW n \in Machines, LinkStep(m, n) PROVE ConfigInv'
  BY <1>4 DEF LinkStep, Subscribe, ReceiveInit, ReceiveComplete, config_vars, receiver_vars
<1>5. CASE ClusterUp \/ UNCHANGED vars
  BY <1>5 DEF ClusterUp, vars, config_vars, receiver_vars
<1> QED BY <1>1, <1>2, <1>3, <1>4, <1>5 DEF Next

LEMMA HandshakeStep == Types /\ HandshakeInv /\ [Next]_vars => HandshakeInv'
<1> SUFFICES ASSUME Types, HandshakeInv, [Next]_vars PROVE HandshakeInv'
  OBVIOUS
<1>0. ConfigInv'
  BY ConfigStep DEF HandshakeInv
<1>1. CASE ConfigBroadcast
  BY <1>0, <1>1, HandshakeFrame DEF ConfigBroadcast, ReadConfig, ReplyConfig
<1>2. ASSUME NEW m \in Machines, ReceiverStep(m) PROVE HandshakeInv'
  <2>1. CASE m \in Workers /\ RequestConfig(m)
    BY <1>0, <2>1, HandshakeEarlyReceiver DEF RequestConfig, receiver_vars
  <2>2. CASE m \in Workers /\ ReceiveConfig(m)
    <3>1. receiver[m] = "config"
      BY <2>2 DEF ReceiveConfig, HandshakeInv, ConfigInv
    <3> QED BY <1>0, <2>2, <3>1, HandshakeEarlyReceiver DEF ReceiveConfig
  <2>3. CASE m = Host /\ GatherConnect
    BY <1>0, <2>3, HandshakeEarlyReceiver DEF GatherConnect
  <2>4. CASE InputsReady(m)
    BY <1>0, <2>4, HandshakeInputsReady
  <2>5. CASE InputsComplete(m)
    BY <1>0, <2>5, HandshakeInputsComplete
  <2> QED BY <1>2, <2>1, <2>2, <2>3, <2>4, <2>5 DEF ReceiverStep
<1>3. ASSUME NEW m \in Machines, SenderStep(m) PROVE HandshakeInv'
  BY <1>0, <1>3, HandshakeEarlySender, HandshakeLeaveInitLoop, HandshakeSenderEntersMain,
     HandshakeSendInit, HandshakeSendInitComplete DEF SenderStep
<1>4. ASSUME NEW m \in Machines, NEW n \in Machines, LinkStep(m, n) PROVE HandshakeInv'
  BY <1>0, <1>4, HandshakeSubscribe, HandshakeReceiveInit, HandshakeReceiveComplete DEF LinkStep
<1>5. CASE ClusterUp \/ UNCHANGED vars
  BY <1>0, <1>5, HandshakeFrame DEF ClusterUp, vars
<1> QED BY <1>1, <1>2, <1>3, <1>4, <1>5 DEF Next

\* In every reachable state the threads' positions, the flags and the messages
\* in the links fit together as HandshakeInv says.
THEOREM HandshakeCorrect == Spec => [](Types /\ HandshakeInv)
  BY TypeInit, TypeStep, HandshakeInit, HandshakeStep, PTL DEF Spec

\* The Inits of a link are among its first InitCap messages.
InitsInv == \A e \in Edges : \A i \in 1..Len(chan[e]) : chan[e][i] = "Init" => i <= InitCap

LEMMA InitsPublished ==
  ASSUME Types, InitsInv, NEW m, NEW n, NEW msg \in {"Init", "InitComplete"}, Publish(m, n, msg)
  PROVE  InitsInv'
<1> SUFFICES ASSUME NEW e \in Edges, NEW i \in 1..Len(chan'[e]), chan'[e][i] = "Init"
             PROVE  i <= InitCap
  BY DEF InitsInv
<1>1. chan[e] \in Seq({"Init", "InitComplete"})
  BY DEF Types
<1>2. CASE chan'[e] = chan[e]
  BY <1>2 DEF InitsInv
<1>3. CASE chan'[e] # chan[e]
  <2>1. chan'[e] = Append(chan[e], msg) /\ (msg = "Init" => Len(chan[e]) < InitCap)
    BY <1>3 DEF Publish, Types
  <2>2. CASE i \in 1..Len(chan[e])
    BY <1>1, <2>1, <2>2, AppendFacts DEF InitsInv
  <2>3. CASE i = Len(chan[e]) + 1
    <3>1. msg = "Init" /\ Len(chan[e]) \in Nat
      BY <1>1, <2>1, <2>3, AppendFacts
    <3> QED BY <2>1, <2>3, <3>1, InitCapAssumption
  <2> QED BY <1>1, <2>1, <2>2, <2>3, AppendFacts
<1> QED BY <1>2, <1>3

LEMMA InitsPolled ==
  ASSUME Types, InitsInv, NEW m, NEW n, Poll(m, n)
  PROVE  InitsInv'
<1> SUFFICES ASSUME NEW e \in Edges, NEW i \in 1..Len(chan'[e]), chan'[e][i] = "Init"
             PROVE  i <= InitCap
  BY DEF InitsInv
<1>1. chan[e] \in Seq({"Init", "InitComplete"})
  BY DEF Types
<1>2. CASE chan'[e] = chan[e]
  BY <1>2 DEF InitsInv
<1>3. CASE chan'[e] # chan[e]
  <2>1. chan[e] # <<>> /\ chan'[e] = Tail(chan[e])
    BY <1>3 DEF Poll, Types
  <2>2. i + 1 \in 1..Len(chan[e]) /\ chan[e][i + 1] = "Init"
    BY <1>1, <2>1, TailFacts
  <2> QED BY <2>2, InitCapAssumption DEF InitsInv
<1> QED BY <1>2, <1>3

LEMMA InitsStep == Types /\ InitsInv /\ [Next]_vars => InitsInv'
<1> SUFFICES ASSUME Types, InitsInv, [Next]_vars PROVE InitsInv'
  OBVIOUS
<1>1. CASE chan' = chan
  BY <1>1 DEF InitsInv
<1>2. ASSUME NEW m \in Machines, NEW n \in Machines, SendInit(m, n) \/ SendInitComplete(m, n)
      PROVE  InitsInv'
  BY <1>2, InitsPublished DEF SendInit, SendInitComplete
<1>3. ASSUME NEW m \in Machines, NEW n \in Machines, LinkStep(m, n) PROVE InitsInv'
  BY <1>1, <1>3, InitsPolled DEF LinkStep, Subscribe, ReceiveInit, ReceiveComplete
<1>4. ASSUME NEW m \in Machines, ReceiverStep(m) PROVE chan' = chan
  BY <1>4 DEF ReceiverStep, RequestConfig, ReceiveConfig, GatherConnect, InputsReady,
              InputsComplete, net_vars
<1>5. ASSUME NEW m \in Machines, SenderStep(m) PROVE InitsInv'
  BY <1>1, <1>2, <1>5 DEF SenderStep, BindOutputs, StartSendingInit, InitRound, LeaveInitLoop,
                          SenderEntersMain, net_vars
<1>6. CASE ConfigBroadcast \/ ClusterUp \/ UNCHANGED vars
  BY <1>1, <1>6 DEF ConfigBroadcast, ReadConfig, ReplyConfig, ClusterUp, vars, net_vars
<1> QED BY <1>1, <1>3, <1>4, <1>5, <1>6 DEF Next

\* Every reachable state of the handshake is well typed, and a link never holds
\* more than InitCap Inits with one InitComplete behind them.
THEOREM TypeCorrect == Spec => []TypeOK
<1>1. Init => InitsInv
  BY DEF Init, InitsInv
<1>2. Types /\ HandshakeInv /\ InitsInv => TypeOK
  <2> SUFFICES ASSUME Types, CompleteInv, InitsInv, NEW e \in Edges, NEW i \in DOMAIN chan[e]
               PROVE  IF chan[e][i] = "Init" THEN i <= InitCap ELSE i = Len(chan[e])
    BY DEF TypeOK, HandshakeInv
  <2>1. i \in 1..Len(chan[e]) /\ chan[e][i] \in {"Init", "InitComplete"}
    BY DEF Types
  <2>2. PICK m \in Machines, n \in Machines : e = <<m, n>>
    BY TopologyTypes
  <2>3. LinkComplete(m, n)
    BY <2>2 DEF CompleteInv
  <2> QED BY <2>1, <2>2, <2>3 DEF InitsInv, LinkComplete
<1> QED BY <1>1, <1>2, InitsStep, HandshakeCorrect, PTL DEF Spec

-------------------------------------------------------------------------------
(* What the invariant implies.                                              *)

LEMMA InvInitCompleteNeverLost == Types /\ HandshakeInv => InitCompleteNeverLost
<1> SUFFICES ASSUME Types, HandshakeInv, NEW m \in Machines, sender[m] = "complete",
                    NEW n \in to_send[m]
             PROVE  <<m, n>> \in subscribed
  BY DEF InitCompleteNeverLost
<1>1. n \in Machines /\ <<m, n>> \in Edges
  BY DEF Types, OutNodes
<1>2. Heard(m, n)
  BY <1>1 DEF HandshakeInv, WaveInv, Announcing, Heard
<1> QED BY <1>1, <1>2 DEF HandshakeInv, LinksInv

LEMMA InvFirstWaitSeesOnlyInit == Types /\ HandshakeInv => FirstWaitSeesOnlyInit
<1> SUFFICES ASSUME Types, HandshakeInv, NEW e \in Edges, receiver[e[2]] = "ready",
                    NEW i \in 1..Len(chan[e])
             PROVE  chan[e][i] = "Init"
  BY DEF FirstWaitSeesOnlyInit
<1>1. PICK m \in Machines, n \in Machines : e = <<m, n>>
  BY TopologyTypes
<1>2. chan[e][i] \in {"Init", "InitComplete"}
  BY DEF Types
<1>3. chan[e][i] = "InitComplete" => SentComplete(m, n)
  BY <1>1 DEF HandshakeInv, CompleteInv, LinkComplete
<1>4. ~Announcing(m)
  BY <1>1 DEF HandshakeInv, WaveInv, InputsHeard
<1> QED BY <1>2, <1>3, <1>4 DEF SentComplete, Announcing

LEMMA InvCompleteIsLast == Types /\ HandshakeInv => CompleteIsLast
<1> SUFFICES ASSUME HandshakeInv, NEW e \in Edges, receiver[e[2]] = "complete", chan[e] # <<>>
             PROVE  e[1] \in input_machines_not_complete[e[2]]
  BY DEF CompleteIsLast
<1>1. PICK m \in Machines, n \in Machines : e = <<m, n>>
  BY TopologyTypes
<1> QED BY <1>1 DEF HandshakeInv, CompleteInv, LinkComplete, HeardComplete

LEMMA InvMainLoopSeesNoInit == Types /\ HandshakeInv => MainLoopSeesNoInit
<1> SUFFICES ASSUME HandshakeInv, NEW e \in Edges, receiver[e[2]] = "main"
             PROVE  chan[e] = <<>>
  BY DEF MainLoopSeesNoInit
<1>1. PICK m \in Machines, n \in Machines : e = <<m, n>>
  BY TopologyTypes
<1> QED BY <1>1 DEF HandshakeInv, CompleteInv, LinkComplete, HeardComplete

\* A receiver in its main loop has heard the completion of all its inputs.
LEMMA MainHeardAnnouncement ==
  ASSUME HandshakeInv, NEW m \in Machines, NEW n \in Machines, <<m, n>> \in Edges,
         receiver[n] = "main"
  PROVE  Announcing(m)
  BY DEF HandshakeInv, CompleteInv, LinkComplete, HeardComplete, SentComplete, Announcing

\* A worker that leads nowhere could not reach the host.
LEMMA WorkersHaveOutputs ==
  ASSUME NEW w \in Workers
  PROVE  \E n \in Machines : <<w, n>> \in Edges
<1> SUFFICES ASSUME \A n \in Machines : <<w, n>> \notin Edges PROVE FALSE
  OBVIOUS
<1>1. ClosedUnderInputs(Machines \ {w}) /\ Host \in Machines \ {w}
  BY TopologyTypes DEF ClosedUnderInputs, Machines
<1>2. Machines \ {w} = Machines
  BY <1>1, MachinesReachHost
<1> QED BY <1>2 DEF Machines

LEMMA InvStopNotBeforeInit == Types /\ HandshakeInv => StopNotBeforeInit
<1> SUFFICES ASSUME Types, HandshakeInv, NEW w \in Workers, stop_sending_init[w]
             PROVE  sender[w] \notin {"start", "bound"}
  BY DEF StopNotBeforeInit
<1>1. w \in Machines /\ receiver[w] = "main"
  BY DEF HandshakeInv, FlagsInv, Machines
<1>2. PICK m \in Machines : <<m, w>> \in Edges
  BY WorkersHaveInputs DEF InNodes
<1>3. PICK n \in Machines : <<w, n>> \in Edges
  BY WorkersHaveOutputs
<1>4. InputsHeard(n)
  BY <1>1, <1>2, MainHeardAnnouncement DEF HandshakeInv, WaveInv
<1>5. Sending(w)
  BY <1>1, <1>3, <1>4 DEF HandshakeInv, LinksInv, Heard
<1> QED BY <1>5 DEF Sending

LEMMA InvHostStarted == Types /\ HandshakeInv => HostStartedMeansClusterReady
<1> SUFFICES ASSUME Types, HandshakeInv, receiver[Host] = "main"
             PROVE  receiver = [m \in Machines |-> "main"] /\ subscribed = Edges
  BY DEF HostStartedMeansClusterReady, NetworkStarted
<1> DEFINE S == {m \in Machines : receiver[m] = "main"}
<1>1. ASSUME NEW m \in Machines, NEW n \in Machines, <<m, n>> \in Edges, n \in S
      PROVE  m \in S
  BY <1>1, MainHeardAnnouncement DEF HandshakeInv, FlagsInv, Machines
<1>2. ClosedUnderInputs(S)
  BY <1>1 DEF ClosedUnderInputs
<1>3. S = Machines
  BY <1>2, MachinesReachHost DEF Machines
<1>4. receiver = [m \in Machines |-> "main"]
  BY <1>3 DEF Types
<1>5. \A m, n \in Machines : <<m, n>> \in Edges => <<m, n>> \in subscribed
  <2>1. \A m, n \in Machines : Heard(m, n)
    BY <1>4 DEF Heard, InputsHeard
  <2> QED BY <2>1 DEF HandshakeInv, LinksInv
<1>6. subscribed = Edges
  <2>1. ASSUME NEW e \in Edges PROVE e \in subscribed
    <3>1. PICK m \in Machines, n \in Machines : e = <<m, n>>
      BY TopologyTypes
    <3> QED BY <3>1, <1>5
  <2> QED BY <2>1 DEF Types
<1> QED BY <1>4, <1>6

-------------------------------------------------------------------------------
(* The safety properties, for every machine graph.                          *)

\* No InitComplete is published on a link whose subscription is not yet known:
\* the single InitComplete each sender publishes is never lost.
THEOREM CompletionNeverLost == Spec => []InitCompleteNeverLost
  BY HandshakeCorrect, InvInitCompleteNeverLost, PTL

\* The Assert of the first wait never fails.
THEOREM FirstWaitCorrect == Spec => []FirstWaitSeesOnlyInit
  BY HandshakeCorrect, InvFirstWaitSeesOnlyInit, PTL

\* The Assert of the second wait on a machine already complete never fails.
THEOREM SecondWaitCorrect == Spec => []CompleteIsLast
  BY HandshakeCorrect, InvCompleteIsLast, PTL

\* The sender's Assert on stop_sending_init never fails.
THEOREM StopFlagCorrect == Spec => []StopNotBeforeInit
  BY HandshakeCorrect, InvStopNotBeforeInit, PTL

\* No initialization message is left for a main loop.
THEOREM MainLoopClean == Spec => []MainLoopSeesNoInit
  BY HandshakeCorrect, InvMainLoopSeesNoInit, PTL

\* When the host has started, the whole cluster is ready for requests.
THEOREM HostStartsLast == Spec => []HostStartedMeansClusterReady
  BY HandshakeCorrect, InvHostStarted, PTL

-------------------------------------------------------------------------------
(* The handshake implements the start barrier.                              *)

LEMMA BarrierInit == Init => Barrier!Init
  BY TopologyTypes DEF Init, Barrier!Init, NetworkStarted, Machines

\* The host has started only when every worker's receiver is in its main loop.
LEMMA StartedAllAccept ==
  Types /\ HandshakeInv /\ NetworkStarted(Host) => \A w \in Workers : receiver[w] = "main"
  BY InvHostStarted DEF HostStartedMeansClusterReady, Machines

\* A step that takes no worker's receiver into its main loop opens the barrier
\* if it completes the host's start, and changes nothing otherwise.
LEMMA BarrierQuietStep ==
  ASSUME Types', HandshakeInv',
         \A w \in Workers : receiver'[w] = "main" <=> receiver[w] = "main",
         NetworkStarted(Host) => NetworkStarted(Host)'
  PROVE  [Barrier!Next]_(Barrier!vars)
<1>1. {w \in Workers : receiver'[w] = "main"} = {w \in Workers : receiver[w] = "main"}
  OBVIOUS
<1>2. CASE NetworkStarted(Host) \/ ~NetworkStarted(Host)'
  <2>1. NetworkStarted(Host)' = NetworkStarted(Host)
    BY <1>2 DEF NetworkStarted
  <2> QED BY <1>1, <2>1 DEF Barrier!vars
<1>3. CASE ~NetworkStarted(Host) /\ NetworkStarted(Host)'
  <2>1. \A w \in Workers : receiver'[w] = "main"
    <3>1. (Types /\ HandshakeInv /\ NetworkStarted(Host) =>
             \A w \in Workers : receiver[w] = "main")'
      BY StartedAllAccept, PTL
    <3> QED BY <1>3, <3>1
  <2>2. {w \in Workers : receiver[w] = "main"} = Workers
    BY <2>1
  <2>3. NetworkStarted(Host)' = TRUE
    BY <1>3 DEF NetworkStarted
  <2> QED BY <1>1, <1>3, <2>2, <2>3 DEF Barrier!Next, Barrier!Open
<1> QED BY <1>2, <1>3

LEMMA BarrierStep ==
  ASSUME Types, HandshakeInv, Types', HandshakeInv', [Next]_vars
  PROVE  [Barrier!Next]_(Barrier!vars)
<1> USE DEF vars, config_vars, receiver_vars, sender_vars, flags, net_vars
<1>1. CASE ConfigBroadcast
  BY <1>1, BarrierQuietStep DEF ConfigBroadcast, ReadConfig, ReplyConfig, NetworkStarted
<1>2. ASSUME NEW m \in Machines, ReceiverStep(m) PROVE [Barrier!Next]_(Barrier!vars)
  <2>1. CASE m \in Workers /\ (RequestConfig(m) \/ ReceiveConfig(m))
    <3>1. receiver[m] \in {"start", "config"} /\ m # Host
      BY <2>1, TopologyTypes DEF RequestConfig, ReceiveConfig, HandshakeInv, ConfigInv
    <3>2. receiver'[m] # "main" /\ \A x \in Machines \ {m} : receiver'[x] = receiver[x]
      BY <2>1 DEF RequestConfig, ReceiveConfig, Types
    <3> QED BY <2>1, <3>1, <3>2, BarrierQuietStep
            DEF RequestConfig, ReceiveConfig, NetworkStarted, Machines
  <2>2. CASE (m = Host /\ GatherConnect) \/ InputsReady(m)
    <3>1. receiver[m] # "main" /\ receiver'[m] # "main"
      BY <2>2 DEF GatherConnect, InputsReady, Types
    <3>2. \A x \in Machines \ {m} : receiver'[x] = receiver[x]
      BY <2>2 DEF GatherConnect, InputsReady, Types
    <3> QED BY <2>2, <3>1, <3>2, BarrierQuietStep
            DEF GatherConnect, InputsReady, NetworkStarted, Machines
  <2>3. CASE InputsComplete(m) /\ m = Host
    BY <2>3, BarrierQuietStep, TopologyTypes DEF InputsComplete, NetworkStarted, Types, Machines
  <2>4. CASE InputsComplete(m) /\ m \in Workers
    <3>1. ~NetworkStarted(Host)
      BY <2>4, StartedAllAccept DEF InputsComplete
    <3>2. NetworkStarted(Host)' = NetworkStarted(Host)
      BY <2>4, TopologyTypes DEF InputsComplete, NetworkStarted, Types, Machines
    <3>3. {w \in Workers : receiver'[w] = "main"}
            = {w \in Workers : receiver[w] = "main"} \union {m}
      BY <2>4 DEF InputsComplete, Types, Machines
    <3>4. Barrier!Accept(m)
      BY <2>4, <3>1, <3>2, <3>3 DEF Barrier!Accept, InputsComplete
    <3> QED BY <2>4, <3>4 DEF Barrier!Next
  <2> QED BY <1>2, <2>1, <2>2, <2>3, <2>4 DEF ReceiverStep, Machines
<1>3. ASSUME NEW m \in Machines, SenderStep(m) PROVE [Barrier!Next]_(Barrier!vars)
  <2>1. receiver' = receiver
    BY <1>3 DEF SenderStep, BindOutputs, StartSendingInit, InitRound, LeaveInitLoop,
                SenderEntersMain, SendInit, SendInitComplete
  <2>2. sender[Host] = "main" => sender'[Host] = "main"
    BY <1>3 DEF SenderStep, BindOutputs, StartSendingInit, InitRound, LeaveInitLoop,
                SenderEntersMain, SendInit, SendInitComplete, Types, Machines
  <2> QED BY <2>1, <2>2, BarrierQuietStep DEF NetworkStarted
<1>4. ASSUME NEW m \in Machines, NEW n \in Machines, LinkStep(m, n)
      PROVE  [Barrier!Next]_(Barrier!vars)
  BY <1>4, BarrierQuietStep DEF LinkStep, Subscribe, ReceiveInit, ReceiveComplete, NetworkStarted
<1>5. CASE ClusterUp \/ UNCHANGED vars
  BY <1>5, BarrierQuietStep DEF ClusterUp, NetworkStarted
<1> QED BY <1>1, <1>2, <1>3, <1>4, <1>5 DEF Next

\* Every behaviour of the handshake is one of the start barrier: no host starts
\* before all its workers accept requests, and no worker starts after that.
THEOREM HandshakeImplementsBarrier == Spec => BarrierSafety
  BY BarrierInit, BarrierStep, HandshakeCorrect, PTL DEF Spec, BarrierSafety, Barrier!SafeSpec

-------------------------------------------------------------------------------
(* The cluster: the handshake and the pipeline together.                    *)


\* Until the host's program is let in, the pipeline is as it was created.
ClosedInv == ~NetworkStarted(Host) => PipeEmpty

ClusterInv == Types /\ HandshakeInv /\ ClosedInv

-------------------------------------------------------------------------------
(* The handshake's part of a step.                                          *)

\* Every step of the pipeline leaves the handshake alone.
LEMMA PipelineKeepsStart ==
  ASSUME ClusterNext, ~StartStep
  PROVE  UNCHANGED <<start_vars, subscribed>>
<1> USE DEF Pipe!links, Pipe!Poll, Pipe!Publish
<1>1. ASSUME NEW r \in Requests, NEW type, Pipe!LaunchRequest(r, type)
      PROVE  UNCHANGED subscribed
  BY <1>1 DEF Pipe!LaunchRequest
<1>2. ASSUME NEW m, NEW msg, Pipe!SendFrom(m, msg) PROVE UNCHANGED subscribed
  BY <1>2 DEF Pipe!SendFrom
<1>3. ASSUME NEW w \in Workers, Compute(w) \/ WorkerSends(w)
      PROVE  UNCHANGED <<start_vars, subscribed>>
  BY <1>2, <1>3 DEF Compute, WorkerSends, Pipe!WorkerStep, Pipe!Fetch, Pipe!Submit, Pipe!WorkerSend
<1>4. ASSUME NEW m \in Machines, NEW n \in Machines, TakeRequest(m, n)
      PROVE  UNCHANGED <<start_vars, subscribed>>
  BY <1>4 DEF TakeRequest, Swallow, Pipe!LinkStep, Pipe!ReceiveRequest, Pipe!ReceiveSwarmInfo,
              Pipe!GatherRequest
<1>5. CASE ClientLaunch
  BY <1>1, <1>5 DEF ClientLaunch
<1>6. CASE ClientGather \/ HostPushesInfo
  BY <1>6 DEF ClientGather, HostPushesInfo, Pipe!GatherFinished, Pipe!GatherPushInfo
<1>7. CASE HostSends
  BY <1>2, <1>7 DEF HostSends, Pipe!ScatterSend
<1>8. CASE ClusterServed
  BY <1>8 DEF ClusterServed, Pipe!AllServed, Pipe!vars
<1> QED BY <1>3, <1>4, <1>5, <1>6, <1>7, <1>8 DEF ClusterNext

\* So every step of the cluster is one of the handshake, or stutters there.
LEMMA HandshakeSimulated ==
  ASSUME [ClusterNext]_cluster_vars
  PROVE  [Next]_vars
<1>1. CASE StartStep
  BY <1>1 DEF StartStep, Next
<1>2. CASE UNCHANGED <<start_vars, subscribed>>
  BY <1>2 DEF start_vars, vars, net_vars
<1> QED BY <1>1, <1>2, PipelineKeepsStart DEF cluster_vars

\* A main loop is never left, so a started machine stays started.
LEMMA StartedStays ==
  ASSUME Types, HandshakeInv, [Next]_vars, NEW m \in Machines, NetworkStarted(m)
  PROVE  NetworkStarted(m)'
<1> USE DEF NetworkStarted, Types, vars, config_vars, receiver_vars, sender_vars, flags, net_vars
<1>1. CASE ConfigBroadcast
  BY <1>1 DEF ConfigBroadcast, ReadConfig, ReplyConfig
<1>2. ASSUME NEW x \in Machines, ReceiverStep(x) PROVE NetworkStarted(m)'
  <2>1. ConfigInv
    BY DEF HandshakeInv
  <2> QED BY <1>2, <2>1 DEF ReceiverStep, RequestConfig, ReceiveConfig, GatherConnect, InputsReady,
                            InputsComplete, ConfigInv
<1>3. ASSUME NEW x \in Machines, SenderStep(x) PROVE NetworkStarted(m)'
  BY <1>3 DEF SenderStep, BindOutputs, StartSendingInit, InitRound, LeaveInitLoop,
              SenderEntersMain, SendInit, SendInitComplete
<1>4. ASSUME NEW x \in Machines, NEW y \in Machines, LinkStep(x, y) PROVE NetworkStarted(m)'
  BY <1>4 DEF LinkStep, Subscribe, ReceiveInit, ReceiveComplete
<1> QED BY <1>1, <1>2, <1>3, <1>4 DEF Next, ClusterUp

-------------------------------------------------------------------------------
(* The invariant.                                                           *)

LEMMA ClusterInit0 == ClusterStart => ClusterInv
  BY TypeInit, HandshakeInit DEF ClusterStart, ClusterInv, ClosedInv

\* An empty pipeline, closed to the host's program, can take no step.
LEMMA EmptyStaysEmpty ==
  ASSUME PipeEmpty, ~NetworkStarted(Host), [ClusterNext]_cluster_vars
  PROVE  UNCHANGED pipe_vars
<1> USE TopologyTypes DEF PipeEmpty, Machines
<1>1. CASE StartStep \/ UNCHANGED cluster_vars
  BY <1>1 DEF StartStep, cluster_vars
<1>2. CASE ClientLaunch \/ ClientGather \/ ClusterServed
  BY <1>2 DEF ClientLaunch, ClientGather, ClusterServed
<1>3. CASE HostSends \/ HostPushesInfo
  BY <1>3 DEF HostSends, HostPushesInfo, Pipe!ScatterSend, Pipe!GatherPushInfo
<1>4. ASSUME NEW w \in Workers, Compute(w) \/ WorkerSends(w) PROVE FALSE
  BY <1>4 DEF Compute, WorkerSends, Pipe!WorkerStep, Pipe!Fetch, Pipe!Submit, Pipe!WorkerSend
<1>5. ASSUME NEW m \in Machines, NEW n \in Machines, TakeRequest(m, n) PROVE FALSE
  BY <1>5 DEF TakeRequest, Swallow, Pipe!LinkStep, Pipe!ReceiveRequest, Pipe!ReceiveSwarmInfo,
              Pipe!GatherRequest, Pipe!Poll
<1> QED BY <1>1, <1>2, <1>3, <1>4, <1>5 DEF ClusterNext

LEMMA ClosedStep ==
  ASSUME ClusterInv, [ClusterNext]_cluster_vars
  PROVE  ClosedInv'
<1>1. NetworkStarted(Host) => NetworkStarted(Host)'
  BY HandshakeSimulated, StartedStays DEF ClusterInv, Machines
<1>2. CASE ~NetworkStarted(Host)
  BY <1>2, EmptyStaysEmpty DEF ClusterInv, ClosedInv, PipeEmpty, pipe_vars, queue_vars
<1> QED BY <1>1, <1>2 DEF ClosedInv

LEMMA ClusterInvStep == ClusterInv /\ [ClusterNext]_cluster_vars => ClusterInv'
<1> SUFFICES ASSUME ClusterInv, [ClusterNext]_cluster_vars PROVE ClusterInv'
  OBVIOUS
<1> QED BY HandshakeSimulated, TypeStep, HandshakeStep, ClosedStep DEF ClusterInv

\* What the main loops rely on, as soon as there is something in the pipeline.
LEMMA ReadyWhenUsed ==
  ASSUME ClusterInv, ~PipeEmpty
  PROVE  receiver = [m \in Machines |-> "main"] /\ subscribed = Edges
  BY InvHostStarted DEF ClusterInv, ClosedInv, HostStartedMeansClusterReady

-------------------------------------------------------------------------------
(* The refinement.  The two instances differ only in the subscriptions that *)
(* Publish reads, so their other operators are equal.                       *)

LEMMA SameCreationTime == Pipe!CreationTime = AlwaysUp!CreationTime
<1>1. Pipe!Launches = AlwaysUp!Launches
  BY DEF Pipe!Launches, AlwaysUp!Launches
<1> QED BY <1>1 DEF Pipe!CreationTime, AlwaysUp!CreationTime, Pipe!Cardinality, AlwaysUp!Cardinality

LEMMA SameRouted ==
  ASSUME NEW m, NEW msg
  PROVE  Pipe!Routed(m, msg) = AlwaysUp!Routed(m, msg)
  BY Zenon DEF Pipe!Routed, AlwaysUp!Routed, Pipe!AddStage, AlwaysUp!AddStage, Pipe!Stage, AlwaysUp!Stage,
               Pipe!OutNodes, AlwaysUp!OutNodes, Pipe!Machines, AlwaysUp!Machines,
               Pipe!NoLayer, AlwaysUp!NoLayer

LEMMA SameTimed ==
  ASSUME NEW m, NEW msg
  PROVE  Pipe!Timed(m, msg) = AlwaysUp!Timed(m, msg)
  BY Zenon DEF Pipe!Timed, AlwaysUp!Timed, Pipe!Elapsed, AlwaysUp!Elapsed

LEMMA SameLastMessage ==
  ASSUME NEW batch, NEW r
  PROVE  Pipe!LastMessage(batch, r) = AlwaysUp!LastMessage(batch, r)
  BY Zenon DEF Pipe!LastMessage, AlwaysUp!LastMessage

LEMMA SameSavedRoute ==
  ASSUME NEW msg
  PROVE  Pipe!SavedRoute(msg) = AlwaysUp!SavedRoute(msg)
  BY Zenon DEF Pipe!SavedRoute, AlwaysUp!SavedRoute, Pipe!Stage, AlwaysUp!Stage

LEMMA SameSwarmInfo ==
  ASSUME NEW msg
  PROVE  Pipe!SwarmInfo(msg) = AlwaysUp!SwarmInfo(msg)
  BY Zenon DEF Pipe!SwarmInfo, AlwaysUp!SwarmInfo, Pipe!NoLayer, AlwaysUp!NoLayer

LEMMA SameWithLayers ==
  ASSUME NEW w, NEW msg
  PROVE  Pipe!WithLayers(w, msg) = AlwaysUp!WithLayers(w, msg)
  BY Zenon DEF Pipe!WithLayers, AlwaysUp!WithLayers

LEMMA SameSendFrom ==
  ASSUME subscribed = Edges, NEW m, NEW msg, Pipe!SendFrom(m, msg)
  PROVE  AlwaysUp!SendFrom(m, msg)
<1>1. ASSUME NEW x, Pipe!Publish(m, x) PROVE AlwaysUp!Publish(m, x)
  BY <1>1 DEF Pipe!Publish, AlwaysUp!Publish, Pipe!NextServer, AlwaysUp!NextServer
<1>2. CASE msg.type = "SwarmInfo"
  BY <1>1, <1>2 DEF Pipe!SendFrom, AlwaysUp!SendFrom, Pipe!NextServer, AlwaysUp!NextServer
<1>3. CASE msg.type # "SwarmInfo"
  <2>1. PICK routed \in Pipe!Routed(m, msg) : Pipe!Publish(m, Pipe!Timed(m, routed))
    BY <1>3 DEF Pipe!SendFrom
  <2>2. routed \in AlwaysUp!Routed(m, msg) /\ AlwaysUp!Publish(m, AlwaysUp!Timed(m, routed))
    BY <1>1, <2>1, SameRouted, SameTimed
  <2>3. UNCHANGED ema
    BY <1>3 DEF Pipe!SendFrom
  <2> QED BY <1>3, <2>2, <2>3 DEF AlwaysUp!SendFrom
<1> QED BY <1>2, <1>3

\* A step of the cluster is a step of the pipeline with every link subscribed.
LEMMA RefinementStep ==
  ASSUME ClusterInv, [ClusterNext]_cluster_vars
  PROVE  [AlwaysUp!Next]_(AlwaysUp!vars)
<1> USE DEF AlwaysUp!links, Pipe!links, AlwaysUp!client_vars, Pipe!client_vars, AlwaysUp!host_vars,
            Pipe!host_vars, AlwaysUp!worker_vars, Pipe!worker_vars, Pipe!Push, AlwaysUp!Push,
            Pipe!Poll, AlwaysUp!Poll, Pipe!IsRequest, AlwaysUp!IsRequest,
            Pipe!RequestsIn, AlwaysUp!RequestsIn
<1>1. CASE StartStep \/ UNCHANGED cluster_vars
  BY <1>1 DEF StartStep, cluster_vars, pipe_vars, queue_vars, AlwaysUp!vars
<1>2. CASE ClientLaunch
  <2>1. PICK r \in Requests, type \in {"Prompt", "Decode"} : Pipe!LaunchRequest(r, type)
    BY <1>2 DEF ClientLaunch
  <2>2. AlwaysUp!LaunchRequest(r, type)
    BY <2>1, SameCreationTime DEF Pipe!LaunchRequest, AlwaysUp!LaunchRequest, Pipe!LaunchRoutes,
                                  AlwaysUp!LaunchRoutes
  <2> QED BY <2>2 DEF AlwaysUp!Next
<1>3. CASE ClientGather
  <2>1. AlwaysUp!GatherFinished
    BY <1>3, SameLastMessage, SameSavedRoute
       DEF ClientGather, Pipe!GatherFinished, AlwaysUp!GatherFinished,
           Pipe!FinishedRequests, AlwaysUp!FinishedRequests
  <2> QED BY <2>1 DEF AlwaysUp!Next
<1>4. CASE HostSends
  <2>1. subscribed = Edges
    BY <1>4, ReadyWhenUsed DEF HostSends, Pipe!ScatterSend, PipeEmpty
  <2>2. AlwaysUp!ScatterSend
    BY <1>4, <2>1, SameSendFrom DEF HostSends, Pipe!ScatterSend, AlwaysUp!ScatterSend
  <2> QED BY <2>2 DEF AlwaysUp!Next
<1>5. CASE HostPushesInfo
  BY <1>5 DEF HostPushesInfo, Pipe!GatherPushInfo, AlwaysUp!GatherPushInfo, AlwaysUp!Next
<1>6. ASSUME NEW w \in Workers, Compute(w) PROVE [AlwaysUp!Next]_(AlwaysUp!vars)
  <2>1. CASE Pipe!Fetch(w)
    <3>1. AlwaysUp!Fetch(w)
      BY <2>1, SameLastMessage DEF Pipe!Fetch, AlwaysUp!Fetch
    <3> QED BY <3>1 DEF AlwaysUp!Next, AlwaysUp!WorkerStep
  <2>2. CASE Pipe!Submit(w)
    <3>1. Pipe!Output(w) = AlwaysUp!Output(w) /\ Pipe!NoMessage = AlwaysUp!NoMessage
      BY DEF Pipe!Output, AlwaysUp!Output, Pipe!NoMessage, AlwaysUp!NoMessage,
             Pipe!IsLastLayer, AlwaysUp!IsLastLayer, Pipe!OutNodes, AlwaysUp!OutNodes,
             Pipe!Machines, AlwaysUp!Machines
    <3>2. AlwaysUp!Submit(w)
      BY <2>2, <3>1, Zenon DEF Pipe!Submit, AlwaysUp!Submit
    <3> QED BY <3>2 DEF AlwaysUp!Next, AlwaysUp!WorkerStep
  <2> QED BY <1>6, <2>1, <2>2 DEF Compute, Pipe!WorkerStep
<1>7. ASSUME NEW w \in Workers, WorkerSends(w) PROVE [AlwaysUp!Next]_(AlwaysUp!vars)
  <2>1. subscribed = Edges
    BY <1>7, ReadyWhenUsed DEF WorkerSends, Pipe!WorkerSend, PipeEmpty
  <2>2. Pipe!IsLastLayer(w) = AlwaysUp!IsLastLayer(w)
    BY DEF Pipe!IsLastLayer, AlwaysUp!IsLastLayer, Pipe!OutNodes, AlwaysUp!OutNodes,
           Pipe!Machines, AlwaysUp!Machines
  <2>3. AlwaysUp!WorkerSend(w)
    BY <1>7, <2>1, <2>2, SameSendFrom DEF WorkerSends, Pipe!WorkerSend, AlwaysUp!WorkerSend
  <2> QED BY <2>3 DEF AlwaysUp!Next
<1>8. ASSUME NEW m \in Machines, NEW n \in Machines, TakeRequest(m, n)
      PROVE  [AlwaysUp!Next]_(AlwaysUp!vars)
  <2>1. receiver[n] = "main"
    <3>1. ~PipeEmpty
      BY <1>8 DEF TakeRequest, Swallow, Pipe!LinkStep, Pipe!ReceiveRequest, Pipe!ReceiveSwarmInfo,
                  Pipe!GatherRequest, PipeEmpty
    <3> QED BY <3>1, ReadyWhenUsed
  <2>2. Pipe!LinkStep(m, n)
    BY <1>8, <2>1 DEF TakeRequest
  <2>3. AlwaysUp!LinkStep(m, n)
    BY <2>2, SameWithLayers, SameSwarmInfo
       DEF Pipe!LinkStep, AlwaysUp!LinkStep, Pipe!ReceiveRequest, AlwaysUp!ReceiveRequest,
           Pipe!ReceiveSwarmInfo, AlwaysUp!ReceiveSwarmInfo, Pipe!GatherRequest,
           AlwaysUp!GatherRequest
  <2> QED BY <2>3 DEF AlwaysUp!Next, AlwaysUp!Machines, Machines
<1>9. CASE ClusterServed
  BY <1>9 DEF ClusterServed, Pipe!AllServed, Pipe!vars, AlwaysUp!vars
<1> QED BY <1>1, <1>2, <1>3, <1>4, <1>5, <1>6, <1>7, <1>8, <1>9 DEF ClusterNext

LEMMA RefinementInit == ClusterStart => AlwaysUp!Init
  BY DEF ClusterStart, PipeEmpty, AlwaysUp!Init, Pipe!NoMessage, AlwaysUp!NoMessage

\* Whatever the order in which the threads of the machines start, no request is
\* launched into a link that nobody has subscribed to or that an initialization
\* loop still reads: the cluster implements the pipeline that was always up.
THEOREM StartInvisible == ClusterSpec => PipelineFromStart
  BY ClusterInit0, ClusterInvStep, RefinementInit, RefinementStep, PTL
     DEF ClusterSpec, PipelineFromStart, AlwaysUp!Spec
-------------------------------------------------------------------------------
(* From power-on.  What RequestPipelineProofs proves of the pipeline holds *)
(* for the one the cluster implements, and so for the cluster: the         *)
(* definitions of the two instances are the same.                          *)

Proved == INSTANCE RequestPipelineProofs WITH
  chan <- requests, subscribed <- Edges, Breakable <- {}

LEMMA SameInit == AlwaysUp!Init => Proved!Init
  BY Zenon DEF AlwaysUp!Init, Proved!Init, AlwaysUp!NoMessage, Proved!NoMessage

LEMMA SameSends == AlwaysUp!ScatterSend => Proved!ScatterSend
  BY Zenon
     DEF AlwaysUp!client_vars, Proved!client_vars, AlwaysUp!host_vars, Proved!host_vars,
         AlwaysUp!worker_vars, Proved!worker_vars, AlwaysUp!links, Proved!links,
         AlwaysUp!ScatterSend, Proved!ScatterSend, AlwaysUp!SendFrom, Proved!SendFrom,
         AlwaysUp!NextServer, Proved!NextServer, AlwaysUp!Publish, Proved!Publish,
         AlwaysUp!Routed, Proved!Routed, AlwaysUp!Timed, Proved!Timed, AlwaysUp!Elapsed,
         Proved!Elapsed, AlwaysUp!AddStage, Proved!AddStage, AlwaysUp!Stage, Proved!Stage,
         AlwaysUp!NoLayer, Proved!NoLayer, AlwaysUp!OutNodes, Proved!OutNodes,
         AlwaysUp!Machines, Proved!Machines

LEMMA SameGathers == AlwaysUp!GatherFinished => Proved!GatherFinished
  BY Zenon
     DEF AlwaysUp!client_vars, Proved!client_vars, AlwaysUp!host_vars, Proved!host_vars,
         AlwaysUp!worker_vars, Proved!worker_vars, AlwaysUp!links, Proved!links,
         AlwaysUp!GatherFinished, Proved!GatherFinished, AlwaysUp!FinishedRequests,
         Proved!FinishedRequests, AlwaysUp!RequestsIn, Proved!RequestsIn,
         AlwaysUp!LastMessage, Proved!LastMessage, AlwaysUp!SavedRoute, Proved!SavedRoute,
         AlwaysUp!Stage, Proved!Stage

LEMMA SameLaunches ==
  ASSUME NEW r, NEW type, AlwaysUp!LaunchRequest(r, type)
  PROVE  Proved!LaunchRequest(r, type)
  BY Zenon
     DEF AlwaysUp!client_vars, Proved!client_vars, AlwaysUp!host_vars, Proved!host_vars,
         AlwaysUp!worker_vars, Proved!worker_vars, AlwaysUp!links, Proved!links,
         AlwaysUp!LaunchRequest, Proved!LaunchRequest, AlwaysUp!LaunchRoutes,
         Proved!LaunchRoutes, AlwaysUp!CreationTime, Proved!CreationTime,
         AlwaysUp!Launches, Proved!Launches, AlwaysUp!Cardinality, Proved!Cardinality,
         AlwaysUp!Push, Proved!Push

LEMMA SameComputes ==
  ASSUME NEW w, AlwaysUp!WorkerStep(w)
  PROVE  Proved!WorkerStep(w)
  BY Zenon
     DEF AlwaysUp!client_vars, Proved!client_vars, AlwaysUp!host_vars, Proved!host_vars,
         AlwaysUp!worker_vars, Proved!worker_vars, AlwaysUp!links, Proved!links,
         AlwaysUp!WorkerStep, Proved!WorkerStep, AlwaysUp!Fetch, Proved!Fetch,
         AlwaysUp!RequestsIn, Proved!RequestsIn, AlwaysUp!LastMessage, Proved!LastMessage,
         AlwaysUp!Submit, Proved!Submit, AlwaysUp!Output, Proved!Output,
         AlwaysUp!IsLastLayer, Proved!IsLastLayer, AlwaysUp!OutNodes, Proved!OutNodes,
         AlwaysUp!Machines, Proved!Machines, AlwaysUp!NoMessage, Proved!NoMessage,
         AlwaysUp!Push, Proved!Push

LEMMA SameWorkerSends ==
  ASSUME NEW w, AlwaysUp!WorkerSend(w)
  PROVE  Proved!WorkerSend(w)
  BY Zenon
     DEF AlwaysUp!client_vars, Proved!client_vars, AlwaysUp!host_vars, Proved!host_vars,
         AlwaysUp!worker_vars, Proved!worker_vars, AlwaysUp!links, Proved!links,
         AlwaysUp!WorkerSend, Proved!WorkerSend, AlwaysUp!IsLastLayer, Proved!IsLastLayer,
         AlwaysUp!SendFrom, Proved!SendFrom, AlwaysUp!NextServer, Proved!NextServer,
         AlwaysUp!Publish, Proved!Publish, AlwaysUp!Routed, Proved!Routed, AlwaysUp!Timed,
         Proved!Timed, AlwaysUp!Elapsed, Proved!Elapsed, AlwaysUp!AddStage,
         Proved!AddStage, AlwaysUp!Stage, Proved!Stage, AlwaysUp!NoLayer, Proved!NoLayer,
         AlwaysUp!OutNodes, Proved!OutNodes, AlwaysUp!Machines, Proved!Machines

LEMMA SameReceives ==
  ASSUME NEW m, NEW n, AlwaysUp!LinkStep(m, n)
  PROVE  Proved!LinkStep(m, n)
  BY Zenon
     DEF AlwaysUp!client_vars, Proved!client_vars, AlwaysUp!host_vars, Proved!host_vars,
         AlwaysUp!worker_vars, Proved!worker_vars, AlwaysUp!links, Proved!links,
         AlwaysUp!LinkStep, Proved!LinkStep, AlwaysUp!ReceiveRequest,
         Proved!ReceiveRequest, AlwaysUp!ReceiveSwarmInfo, Proved!ReceiveSwarmInfo,
         AlwaysUp!GatherRequest, Proved!GatherRequest, AlwaysUp!Poll, Proved!Poll,
         AlwaysUp!IsRequest, Proved!IsRequest, AlwaysUp!WithLayers, Proved!WithLayers,
         AlwaysUp!SwarmInfo, Proved!SwarmInfo, AlwaysUp!NoLayer, Proved!NoLayer,
         AlwaysUp!Push, Proved!Push

LEMMA SameBreaks ==
  ASSUME NEW e, AlwaysUp!BreakLink(e) \/ AlwaysUp!RestoreLink(e)
  PROVE  Proved!BreakLink(e) \/ Proved!RestoreLink(e)
  BY Zenon
     DEF AlwaysUp!client_vars, Proved!client_vars, AlwaysUp!host_vars, Proved!host_vars,
         AlwaysUp!worker_vars, Proved!worker_vars, AlwaysUp!links, Proved!links,
         AlwaysUp!BreakLink, Proved!BreakLink, AlwaysUp!RestoreLink, Proved!RestoreLink

LEMMA SameEnds ==
  (AlwaysUp!GatherPushInfo => Proved!GatherPushInfo) /\ (AlwaysUp!AllServed => Proved!AllServed)
  BY Zenon
     DEF AlwaysUp!client_vars, Proved!client_vars, AlwaysUp!host_vars, Proved!host_vars,
         AlwaysUp!worker_vars, Proved!worker_vars, AlwaysUp!links, Proved!links,
         AlwaysUp!GatherPushInfo, Proved!GatherPushInfo, AlwaysUp!AllServed,
         Proved!AllServed, AlwaysUp!vars, Proved!vars, AlwaysUp!Push, Proved!Push

LEMMA SameStep ==
  [AlwaysUp!Next]_(AlwaysUp!vars) => [Proved!Next]_(Proved!vars)
<1>1. AlwaysUp!Next => Proved!Next
  BY SameSends, SameGathers, SameLaunches, SameComputes, SameWorkerSends, SameReceives, SameBreaks,
     SameEnds, Zenon
     DEF AlwaysUp!Next, Proved!Next, AlwaysUp!Machines, Proved!Machines
<1>2. AlwaysUp!vars = Proved!vars
  BY Zenon DEF AlwaysUp!client_vars, Proved!client_vars, AlwaysUp!host_vars,
               Proved!host_vars, AlwaysUp!worker_vars, Proved!worker_vars, AlwaysUp!links,
               Proved!links, AlwaysUp!vars, Proved!vars
<1>3. UNCHANGED AlwaysUp!vars => UNCHANGED Proved!vars
  BY Zenon DEF AlwaysUp!client_vars, Proved!client_vars, AlwaysUp!host_vars,
               Proved!host_vars, AlwaysUp!worker_vars, Proved!worker_vars, AlwaysUp!links,
               Proved!links, AlwaysUp!vars, Proved!vars
<1> QED BY <1>1, <1>3, Zenon

LEMMA PipelineProved == ClusterSpec => Proved!Spec
  BY StartInvisible, SameInit, SameStep, PTL DEF PipelineFromStart, AlwaysUp!Spec, Proved!Spec

\* The assumptions of the proofs about the pipeline.
LEMMA Fits ==
  /\ Proved!TopologyTypes /\ Proved!WorkersHaveInputs /\ Proved!MachinesReachHost
  /\ Proved!PipelineConstants /\ Proved!LayersFit /\ Proved!ClientRoutesFit
<1>1. Proved!TopologyTypes /\ Proved!WorkersHaveInputs /\ Proved!MachinesReachHost
  BY Zenon, TopologyTypes, WorkersHaveInputs, MachinesReachHost
     DEF Proved!TopologyTypes, Proved!WorkersHaveInputs, Proved!MachinesReachHost,
         Proved!Machines, Machines, Proved!InNodes, InNodes, Proved!IsFiniteSet, IsFiniteSet,
         Proved!ClosedUnderInputs, ClosedUnderInputs
<1>2. Proved!PipelineConstants
  BY Zenon, PipelineFits DEF Pipe!PipelineConstants, Proved!PipelineConstants, Pipe!IsFiniteSet, Proved!IsFiniteSet
<1>3. Proved!LayersFit
  BY Zenon, PipelineFits
     DEF Pipe!LayersFit, Proved!LayersFit, Pipe!OutNodes, Proved!OutNodes, Pipe!InNodes,
         Proved!InNodes, Pipe!Machines, Proved!Machines, Pipe!IsLastLayer,
         Proved!IsLastLayer
<1>4. Proved!ClientRoutesFit
  BY Zenon, PipelineFits
     DEF Pipe!ClientRoutesFit, Proved!ClientRoutesFit, Pipe!Stages, Proved!Stages, Pipe!Deltas, Proved!Deltas, Pipe!NoLayer,
         Proved!NoLayer, Pipe!Machines, Proved!Machines, Pipe!FullRoute, Proved!FullRoute,
         Pipe!FollowsLinks, Proved!FollowsLinks, Pipe!Returns, Proved!Returns,
         Pipe!LayersRun, Proved!LayersRun, Pipe!OutNodes, Proved!OutNodes, Pipe!InNodes,
         Proved!InNodes
<1> QED BY <1>1, <1>2, <1>3, <1>4

\* From power-on, whatever the order in which threads and links come up and
\* whatever a full link drops later: each launched request is answered at most
\* once, only while the client waits for it, and gathered in order.
THEOREM ServiceFromPowerOn == ClusterSpec => Pipe!ServiceSafety
<1>1. Proved!Spec => Proved!ServiceSafety
  BY Fits, Proved!Refinement, PTL
<1>2. Proved!Service!Init => Pipe!Service!Init
  BY Zenon DEF Pipe!Service!Init, Proved!Service!Init, Pipe!FinishedRequests,
               Proved!FinishedRequests, Pipe!RequestsIn, Proved!RequestsIn, Pipe!Answers,
               Proved!Answers
<1>3. [Proved!Service!Next]_(Proved!Service!vars) => [Pipe!Service!Next]_(Pipe!Service!vars)
  BY Zenon DEF Pipe!Service!Next, Proved!Service!Next, Pipe!Service!vars,
               Proved!Service!vars, Pipe!Service!Launch, Proved!Service!Launch,
               Pipe!Service!Answer, Proved!Service!Answer, Pipe!Service!Gather,
               Proved!Service!Gather, Pipe!Service!Answered, Proved!Service!Answered,
               Pipe!FinishedRequests, Proved!FinishedRequests, Pipe!RequestsIn,
               Proved!RequestsIn, Pipe!Answers, Proved!Answers
<1> QED BY <1>1, <1>2, <1>3, PipelineProved, PTL
        DEF Proved!ServiceSafety, Pipe!ServiceSafety, Proved!Service!SafeSpec, Pipe!Service!SafeSpec

\* No request overtakes an earlier one on its way, from power-on.
THEOREM OrderFromPowerOn == ClusterSpec => []Pipe!NoOvertaking
<1>1. Proved!Spec => []Proved!NoOvertaking
  BY Fits, Proved!OrderKeeps, PTL
<1>2. Proved!NoOvertaking => Pipe!NoOvertaking
  BY Zenon
     DEF Pipe!NoOvertaking, Proved!NoOvertaking, Pipe!LocatedRequests,
         Proved!LocatedRequests, Pipe!Located, Proved!Located, Pipe!Place, Proved!Place,
         Pipe!OnTheFly, Proved!OnTheFly, Pipe!NoMessage, Proved!NoMessage, Pipe!IsRequest,
         Proved!IsRequest, Pipe!IsPrefix, Proved!IsPrefix
<1> QED BY <1>1, <1>2, PipelineProved, PTL

LEMMA SameCopies == Proved!OneCopyWhileWaiting => Pipe!OneCopyWhileWaiting
  BY Zenon
     DEF Pipe!OneCopyWhileWaiting, Proved!OneCopyWhileWaiting, Pipe!Copies, Proved!Copies,
         Pipe!LocatedRequests, Proved!LocatedRequests, Pipe!Located, Proved!Located,
         Pipe!Place, Proved!Place, Pipe!OnTheFly, Proved!OnTheFly, Pipe!NoMessage,
         Proved!NoMessage, Pipe!IsRequest, Proved!IsRequest, Pipe!Cardinality,
         Proved!Cardinality

\* Whenever a thread is about to send a request, no link is at its high-water
\* mark.
RoomOnLinks ==
  \/ launch_queue # <<>> /\ Pipe!IsRequest(Head(launch_queue))
  \/ \E w \in Workers :
       compute_send_queue[w] # <<>> /\ Pipe!IsRequest(Head(compute_send_queue[w]))
  => \A e \in Edges : Len(requests[e]) < HWM

\* Under each of the three schedulers the high-water mark is all that can cost a
\* request, although a PUB socket drops what it publishes before a subscription
\* and an initialization loop drops what it is not waiting for: where requests
\* meet room on the links, from power-on each one that the client waits for is in
\* exactly one place.
THEOREM NothingLostWithRoom == ClusterSpec /\ []RoomOnLinks => []Pipe!OneCopyWhileWaiting
<1>1. RoomOnLinks => Proved!NoLoss
  BY Zenon DEF RoomOnLinks, Proved!NoLoss, Proved!Sending, Proved!LinksUp, Pipe!IsRequest,
               Proved!IsRequest
<1>2. Proved!Spec /\ []Proved!NoLoss => []Proved!OneCopyWhileWaiting
  BY Fits, Proved!NothingLost, PTL
<1> QED BY <1>1, <1>2, SameCopies, PipelineProved, PTL

\* Without swarm, whose SwarmInfo messages fill links too, there is room for as
\* many requests as the high-water mark admits, however often each of them is
\* launched: none is ever lost.
THEOREM NothingLostFromPowerOn ==
  ASSUME Scheduler # "swarm", Cardinality(Requests) <= HWM
  PROVE  ClusterSpec => []Pipe!OneCopyWhileWaiting
<1>1. Proved!Cardinality(Requests) <= HWM
  BY Zenon DEF Proved!Cardinality, Cardinality
<1>2. {} = {}
  OBVIOUS
<1>3. Proved!Spec => []Proved!OneCopyWhileWaiting
  BY <1>1, <1>2, Fits, Proved!OneCopyInQueues, PTL
<1> QED BY <1>3, SameCopies, PipelineProved, PTL
===============================================================================
