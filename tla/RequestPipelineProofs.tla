------------------------- MODULE RequestPipelineProofs -------------------------
(***************************************************************************)
(* What the pipeline does with each message, for any cluster, any number   *)
(* of requests and launches, and links that drop and break as they like;   *)
(* then what becomes of a request on its way: where its last prompt has    *)
(* run, that it is not lost while no link drops, and that it keeps its     *)
(* place among the requests that take the same way.  Each of these needs   *)
(* an invariant of its own beside PipelineInv; its steps are the movements *)
(* of messages between places that are first derived from the actions.     *)
(***************************************************************************)
EXTENDS RequestPipeline, FiniteSetTheorems, WellFoundedInduction, TLAPS

-------------------------------------------------------------------------------
(* Sequences.                                                              *)

LEMMA HeadTail ==
  ASSUME NEW S, NEW q \in Seq(S), q # <<>>
  PROVE  Head(q) \in S /\ Tail(q) \in Seq(S)
OBVIOUS

LEMMA PrefixIn ==
  ASSUME NEW S, NEW q \in Seq(S), NEW k \in 0..Len(q)
  PROVE  SubSeq(q, 1, k) \in Seq(S)
OBVIOUS

LEMMA ElementIn ==
  ASSUME NEW S, NEW q \in Seq(S), NEW i \in DOMAIN q
  PROVE  q[i] \in S
OBVIOUS

LEMMA NotEmpty ==
  ASSUME NEW S, NEW q \in Seq(S)
  PROVE  q # <<>> <=> Len(q) \in Nat /\ 1 <= Len(q)
OBVIOUS

-------------------------------------------------------------------------------
(* Routes.                                                                 *)

LEMMA MaxStagesType == MaxStages \in Nat /\ NumLayers < MaxStages
BY PipelineConstants DEF MaxStages

LEMMA RouteType ==
  ASSUME NEW route \in Routes
  PROVE  /\ route \in Seq(Stages) /\ Len(route) \in Nat /\ Len(route) <= MaxStages
         /\ DOMAIN route = 1..Len(route)
         /\ \A i \in 1..Len(route) : route[i] \in Stages
BY DEF Routes

LEMMA LeastNumber ==
  ASSUME NEW T, T \subseteq Nat, T # {}
  PROVE  \E x \in T : \A y \in T : x <= y
<1> DEFINE R == OpToRel(<, Nat)
<1>1. IsWellFoundedOn(R, Nat)
  BY NatLessThanWellFounded, Zenon
<1>2. \A x, y \in Nat : y < x => <<y, x>> \in R
  BY DEF OpToRel
<1> HIDE DEF R
<1>3. PICK x \in T : \A y \in T : ~(<<y, x>> \in R)
  BY <1>1, WFMin, Zenon
<1>4. \A y \in T : ~(y < x)
  BY <1>2, <1>3
<1> QED BY <1>3, <1>4, SMT

\* Each stage runs a layer of its own.
LEMMA LayersCount ==
  ASSUME NEW route \in Seq(Stages), NEW k \in Nat, k <= Len(route), LayersRun(route, k)
  PROVE  \A i \in 1..k : i <= route[i].end
<1>1. \A i \in 1..k : route[i].start \in Int /\ route[i].end \in Int /\ route[i].start < route[i].end
  <2>1. \A i \in 1..k : route[i] \in Stages
    OBVIOUS
  <2>2. NoLayer..NumLayers \subseteq Int
    BY PipelineConstants DEF NoLayer
  <2>3. \A i \in 1..k : route[i].start < route[i].end
    BY DEF LayersRun
  <2> QED BY <2>1, <2>2, <2>3 DEF Stages
<1>2. \A i \in 1..k : route[i].start = IF i = 1 THEN 0 ELSE route[i - 1].end
  BY DEF LayersRun
<1> DEFINE T == {i \in 1..k : ~(i <= route[i].end)}
<1>3. ASSUME T # {} PROVE FALSE
  <2>1. PICK x \in T : \A y \in T : x <= y
    <3>1. T \subseteq Nat
      OBVIOUS
    <3> HIDE DEF T
    <3> QED BY <1>3, <3>1, LeastNumber
  <2>2. CASE x = 1
    BY <1>1, <1>2, <2>2
  <2>3. CASE x # 1
    <3>1. x - 1 \in 1..k /\ x - 1 \notin T
      BY <2>1, <2>3
    <3>2. x - 1 <= route[x - 1].end
      BY <3>1
    <3> QED BY <1>1, <1>2, <2>3, <3>1, <3>2
  <2> QED BY <2>2, <2>3
<1> QED BY <1>3

LEMMA FullRouteFits ==
  ASSUME NEW route \in Seq(Stages), FullRoute(route)
  PROVE  route \in Routes
<1>1. Len(route) \in Nat /\ Len(route) >= 2
  BY DEF FullRoute, Returns
<1>2. Len(route) - 1 <= route[Len(route) - 1].end
  BY <1>1, LayersCount DEF FullRoute
<1> QED BY <1>1, <1>2, PipelineConstants DEF FullRoute, Routes, MaxStages

\* Only the times of the two routes differ.
SameWay(route, other) ==
  /\ Len(other) = Len(route)
  /\ \A i \in 1..Len(route) :
       /\ other[i].server = route[i].server
       /\ other[i].start = route[i].start /\ other[i].end = route[i].end

\* The layers of the two routes may differ as well.
SameServers(route, other) ==
  /\ Len(other) = Len(route)
  /\ \A i \in 1..Len(route) : other[i].server = route[i].server

LEMMA SameServersFollow ==
  ASSUME NEW route \in Routes, NEW other \in Routes, SameServers(route, other)
  PROVE  /\ FollowsLinks(route) => FollowsLinks(other)
         /\ Returns(route) => Returns(other)
<1> USE RouteType
<1>1. Len(other) = Len(route) /\ \A i \in 1..Len(route) : other[i].server = route[i].server
  BY DEF SameServers
<1>2. (route = <<>>) <=> (other = <<>>)
  BY <1>1
<1>3. ASSUME FollowsLinks(route) PROVE FollowsLinks(other)
  <2>1. other # <<>> => <<Host, other[1].server>> \in Edges
    <3>1. other # <<>> => 1 \in 1..Len(route)
      BY <1>1, NotEmpty
    <3> QED BY <3>1, <1>1, <1>2, <1>3 DEF FollowsLinks
  <2>2. \A i \in 1..(Len(other) - 1) : i \in 1..Len(route) /\ i + 1 \in 1..Len(route)
    BY <1>1
  <2> QED BY <1>1, <1>3, <2>1, <2>2 DEF FollowsLinks
<1>4. ASSUME Returns(route) PROVE Returns(other)
  BY <1>1, <1>4 DEF Returns
<1> QED BY <1>3, <1>4

LEMMA SameWayFollows ==
  ASSUME NEW route \in Routes, NEW other \in Routes, SameWay(route, other)
  PROVE  /\ FollowsLinks(route) => FollowsLinks(other)
         /\ Returns(route) => Returns(other)
<1>1. SameServers(route, other)
  BY DEF SameWay, SameServers
<1> QED BY <1>1, SameServersFollow

LEMMA SameWayLayers ==
  ASSUME NEW route \in Routes, NEW other \in Routes, SameWay(route, other),
         NEW k \in Nat, k <= Len(route)
  PROVE  /\ LayersRun(route, k) => LayersRun(other, k)
         /\ OwnLayers(route, k) => OwnLayers(other, k)
<1> USE RouteType
<1>1. \A i \in 1..k : /\ other[i].server = route[i].server
                      /\ other[i].start = route[i].start /\ other[i].end = route[i].end
  BY DEF SameWay
<1>2. \A i \in 1..k : i # 1 => i - 1 \in 1..k /\ other[i - 1].end = route[i - 1].end
  BY <1>1
<1>3. LayersRun(route, k) => LayersRun(other, k)
  BY <1>1, <1>2 DEF LayersRun
<1> QED BY <1>1, <1>3 DEF OwnLayers

LEMMA SameWayFull ==
  ASSUME NEW route \in Routes, NEW other \in Routes, SameWay(route, other), FullRoute(route)
  PROVE  FullRoute(other)
<1>1. Len(route) \in Nat /\ Len(route) >= 2 /\ Len(route) - 1 \in Nat /\ Len(route) - 1 <= Len(route)
  BY RouteType DEF FullRoute, Returns
<1>2. LayersRun(other, Len(route) - 1)
  BY <1>1, SameWayLayers DEF FullRoute
<1>3. Len(other) = Len(route) /\ other[Len(route) - 1].end = route[Len(route) - 1].end
  BY <1>1 DEF SameWay
<1> QED BY <1>2, <1>3, SameWayFollows DEF FullRoute

\* One more stage.
LEMMA NextStage ==
  ASSUME NEW route \in Routes, NEW n \in Machines, Len(route) < MaxStages,
         FollowsLinks(route),
         <<IF route = <<>> THEN Host ELSE route[Len(route)].server, n>> \in Edges,
         route # <<>> => route[Len(route)].server \in Workers
  PROVE  LET longer == Append(route, Stage(n, NoLayer, NoLayer))
         IN  /\ longer \in Routes /\ Len(longer) = Len(route) + 1
             /\ longer[Len(route) + 1] = Stage(n, NoLayer, NoLayer)
             /\ \A i \in 1..Len(route) : longer[i] = route[i]
             /\ FollowsLinks(longer)
             /\ \A k \in 0..Len(route) : OwnLayers(route, k) => OwnLayers(longer, k)
<1> DEFINE st == Stage(n, NoLayer, NoLayer)
           longer == Append(route, st)
<1>1. st \in Stages /\ st.server = n
  BY PipelineConstants DEF Stage, Stages, NoLayer, Deltas
<1>2. route \in Seq(Stages) /\ Len(route) \in Nat
  BY RouteType
<1> HIDE DEF st
<1>3. longer \in Seq(Stages) /\ Len(longer) = Len(route) + 1 /\ longer[Len(route) + 1] = st
      /\ \A i \in 1..Len(route) : longer[i] = route[i]
  BY <1>1, <1>2
<1>4. longer \in Routes
  BY <1>2, <1>3, MaxStagesType DEF Routes
<1> HIDE DEF longer
<1>5. FollowsLinks(longer)
  <2>1. <<Host, longer[1].server>> \in Edges
    <3>1. CASE route = <<>>
      <4>1. Len(route) = 0
        BY <3>1
      <4> QED BY <3>1, <4>1, <1>1, <1>3
    <3>2. CASE route # <<>>
      <4>1. 1 \in 1..Len(route)
        BY <3>2, <1>2, NotEmpty
      <4> QED BY <4>1, <3>2, <1>3 DEF FollowsLinks
    <3> QED BY <3>1, <3>2
  <2>2. ASSUME NEW i \in 1..(Len(longer) - 1)
        PROVE  longer[i].server \in Workers /\ <<longer[i].server, longer[i + 1].server>> \in Edges
    <3>1. i \in 1..Len(route) /\ longer[i] = route[i] /\ route # <<>>
      BY <1>2, <1>3
    <3>2. CASE i = Len(route)
      BY <3>1, <3>2, <1>1, <1>3
    <3>3. CASE i # Len(route)
      <4>1. i \in 1..(Len(route) - 1) /\ i + 1 \in 1..Len(route)
        BY <3>1, <3>3, <1>2
      <4> QED BY <3>1, <4>1, <1>3 DEF FollowsLinks
    <3> QED BY <3>2, <3>3
  <2> QED BY <2>1, <2>2 DEF FollowsLinks
<1>6. ASSUME NEW k \in 0..Len(route), OwnLayers(route, k)
      PROVE  OwnLayers(longer, k)
  <2>1. \A i \in 1..k : longer[i] = route[i] /\ (i # 1 => longer[i - 1] = route[i - 1])
    BY <1>2, <1>3
  <2> QED BY <2>1, <1>6 DEF OwnLayers, LayersRun
<1> QED BY <1>3, <1>4, <1>5, <1>6 DEF longer, st

-------------------------------------------------------------------------------
(* Headers.                                                                *)

LEMMA MessageType ==
  ASSUME NEW msg \in Message
  PROVE  /\ msg.type \in {"Prompt", "Decode", "SwarmInfo"} /\ msg.request \in Requests
         /\ msg.creation_time \in Nat /\ msg.stage \in 0..MaxStages /\ msg.stage \in Nat
         /\ msg.route \in Routes
         /\ msg.buf \in {"tokens", "activations", "token_id", "dummy"}
BY MaxStagesType DEF Message

OnRoute(msg, route) == [msg EXCEPT !.route = route]

LEMMA WithRoute ==
  ASSUME NEW msg \in Message, NEW route \in Routes
  PROVE  /\ OnRoute(msg, route) \in Message /\ OnRoute(msg, route).route = route
         /\ OnRoute(msg, route).type = msg.type /\ OnRoute(msg, route).request = msg.request
         /\ OnRoute(msg, route).creation_time = msg.creation_time
         /\ OnRoute(msg, route).stage = msg.stage /\ OnRoute(msg, route).buf = msg.buf
BY DEF Message, OnRoute

\* The first k stages have the same servers and layers.
SameStages(route, other, k) ==
  \A i \in 1..k : /\ other[i].server = route[i].server
                  /\ other[i].start = route[i].start /\ other[i].end = route[i].end

\* The same launch of the same request: the stages behind it, and where the
\* route is fixed all stages, are the same up to their times.
Carried(old, new) ==
  /\ new.type = old.type /\ new.request = old.request /\ new.creation_time = old.creation_time
  /\ SameStages(old.route, new.route, old.stage)
  /\ Fixed(old) => SameWay(old.route, new.route)

LEMMA CarriedSame == \A msg : Carried(msg, msg)
BY DEF Carried, SameStages, SameWay

LEMMA CarriedTwice ==
  ASSUME NEW a, NEW b, NEW c, Carried(a, b), Carried(b, c), b.stage = a.stage
  PROVE  Carried(a, c)
BY DEF Carried, SameStages, SameWay, Fixed

\* A new time in one stage.
SetDelta(route, i, d) == [route EXCEPT ![i].delta = d]

LEMMA WithDelta ==
  ASSUME NEW route \in Routes, NEW i \in 1..Len(route), NEW d \in Deltas
  PROVE  /\ SetDelta(route, i, d) \in Routes /\ SameWay(route, SetDelta(route, i, d))
         /\ SetDelta(route, i, d)[i].delta = d
         /\ \A j \in 1..Len(route) : j # i => SetDelta(route, i, d)[j].delta = route[j].delta
<1> DEFINE st    == [route[i] EXCEPT !.delta = d]
           other == [route EXCEPT ![i] = st]
<1>1. route \in Seq(Stages) /\ Len(route) \in Nat /\ route[i] \in Stages
  BY RouteType
<1>2. /\ st \in Stages /\ st.server = route[i].server /\ st.start = route[i].start
      /\ st.end = route[i].end /\ st.delta = d
  BY <1>1 DEF Stages
<1>3. SetDelta(route, i, d) = other
  BY DEF SetDelta
<1> HIDE DEF st
<1>4. other \in Seq(Stages) /\ Len(other) = Len(route) /\ other[i] = st
      /\ \A j \in 1..Len(route) : j # i => other[j] = route[j]
  BY <1>1, <1>2
<1>5. other \in Routes
  BY <1>4, RouteType DEF Routes
<1> HIDE DEF other
<1>6. SameWay(route, other)
  BY <1>2, <1>4 DEF SameWay
<1> QED BY <1>2, <1>3, <1>4, <1>5, <1>6

LEMMA SameWayTwice ==
  ASSUME NEW a, NEW b, NEW c, SameWay(a, b), SameWay(b, c)
  PROVE  SameWay(a, c)
BY DEF SameWay

\* What a sender does to the times of a message.
LEMMA TimedRoute ==
  ASSUME NEW m \in Machines, NEW msg \in Message, msg.stage < Len(msg.route),
         m # Host => msg.stage > 0
  PROVE  /\ Timed(m, msg) \in Message /\ SameWay(msg.route, Timed(m, msg).route)
         /\ Timed(m, msg).type = msg.type /\ Timed(m, msg).request = msg.request
         /\ Timed(m, msg).creation_time = msg.creation_time
         /\ Timed(m, msg).stage = msg.stage /\ Timed(m, msg).buf = msg.buf
         /\ Scheduler = "swarm" =>
              /\ Timed(m, msg).route[msg.stage + 1].delta = "stamp"
              /\ \A i \in 1..(msg.stage - 1) : Timed(m, msg).route[i].delta = msg.route[i].delta
              /\ m # Host =>
                   Timed(m, msg).route[msg.stage].delta = Elapsed(msg.route[msg.stage].delta)
<1> DEFINE n == msg.stage
<1>1. msg.route \in Routes /\ n \in Nat /\ n + 1 \in 1..Len(msg.route) /\ Len(msg.route) \in Nat
  BY MessageType, RouteType
<1>2. /\ "stamp" \in Deltas /\ Elapsed(msg.route[n].delta) \in Deltas
      /\ \A i \in 1..(n - 1) : i \in 1..Len(msg.route) /\ i # n /\ i # n + 1
  BY <1>1 DEF Deltas, Elapsed
<1>3. CASE Scheduler # "swarm"
  BY <1>3 DEF Timed, SameWay
<1>4. CASE Scheduler = "swarm" /\ m = Host
  <2> DEFINE other == SetDelta(msg.route, n + 1, "stamp")
  <2>1. Timed(m, msg) = OnRoute(msg, other)
    BY <1>4 DEF Timed, SetDelta, OnRoute
  <2>2. /\ other \in Routes /\ SameWay(msg.route, other) /\ other[n + 1].delta = "stamp"
        /\ \A i \in 1..Len(msg.route) : i # n + 1 => other[i].delta = msg.route[i].delta
    BY <1>1, <1>2, WithDelta
  <2> HIDE DEF other
  <2> QED BY <1>2, <1>4, <2>1, <2>2, WithRoute
<1>5. CASE Scheduler = "swarm" /\ m # Host
  <2> DEFINE first == SetDelta(msg.route, n, Elapsed(msg.route[n].delta))
             other == SetDelta(first, n + 1, "stamp")
  <2>1. n \in 1..Len(msg.route) /\ n # n + 1
    BY <1>1, <1>5
  <2>2. Timed(m, msg) = OnRoute(msg, other)
    BY <1>5 DEF Timed, SetDelta, OnRoute
  <2>3. /\ first \in Routes /\ SameWay(msg.route, first)
        /\ first[n].delta = Elapsed(msg.route[n].delta)
        /\ \A i \in 1..Len(msg.route) : i # n => first[i].delta = msg.route[i].delta
    BY <1>1, <1>2, <2>1, WithDelta
  <2> HIDE DEF first
  <2>4. Len(first) = Len(msg.route)
    BY <2>3 DEF SameWay
  <2>5. /\ other \in Routes /\ SameWay(first, other) /\ other[n + 1].delta = "stamp"
        /\ \A i \in 1..Len(msg.route) : i # n + 1 => other[i].delta = first[i].delta
    BY <1>1, <1>2, <2>3, <2>4, WithDelta
  <2> HIDE DEF other
  <2>6. SameWay(msg.route, other)
    BY <2>3, <2>5, SameWayTwice
  <2> QED BY <1>2, <1>5, <2>1, <2>2, <2>3, <2>5, <2>6, WithRoute
<1> QED BY <1>3, <1>4, <1>5

-------------------------------------------------------------------------------
(* Senders.                                                                *)

\* A request about to be sent by m: its next stage is in the route.
Ready(m, msg) ==
  /\ msg \in Message /\ IsRequest(msg) /\ SentBy(m, msg) /\ msg.stage < Len(msg.route)
  /\ <<m, msg.route[msg.stage + 1].server>> \in Edges
  /\ RouteSoFar(msg, msg.stage, msg.stage + 1) /\ Clocked(msg, msg.stage)
  /\ msg.buf = SentBuffer(m)

\* A worker behind the message, if any, is one of the route's.
LEMMA LinkAhead ==
  ASSUME NEW m \in Machines, NEW msg \in Message, SentBy(m, msg), msg.stage < Len(msg.route)
  PROVE  <<m, msg.route[msg.stage + 1].server>> \in Edges
<1>1. msg.route \in Routes /\ msg.stage \in Nat /\ Len(msg.route) \in Nat
  BY MessageType, RouteType
<1>2. CASE msg.stage = 0
  <2>1. msg.route # <<>> /\ m = Host
    BY <1>1, <1>2, RouteType, NotEmpty DEF SentBy
  <2> QED BY <1>2, <2>1 DEF SentBy, FollowsLinks
<1>3. CASE msg.stage # 0
  <2>1. msg.stage \in 1..(Len(msg.route) - 1) /\ msg.stage > 0
    BY <1>1, <1>3
  <2> QED BY <2>1 DEF SentBy, FollowsLinks
<1> QED BY <1>2, <1>3

\* A route that leads back to the host does not end at a worker.
LEMMA NotAtEnd ==
  ASSUME NEW m \in Machines, NEW msg \in Message, SentBy(m, msg), Returns(msg.route)
  PROVE  msg.stage < Len(msg.route)
<1>1. msg.stage \in Nat /\ Len(msg.route) \in Nat /\ Len(msg.route) >= 2
  BY MessageType, RouteType DEF Returns
<1>2. CASE msg.stage = Len(msg.route)
  BY <1>1, <1>2 DEF SentBy, Returns
<1> QED BY <1>1, <1>2 DEF SentBy

LEMMA StagesLeft ==
  ASSUME NEW route \in Routes, OwnLayers(route, Len(route))
  PROVE  Len(route) < MaxStages
<1>1. Len(route) \in Nat
  BY RouteType
<1>2. CASE Len(route) = 0
  BY <1>2, MaxStagesType, PipelineConstants
<1>3. CASE Len(route) > 0
  <2>1. Len(route) \in 1..Len(route) /\ route[Len(route)] \in Stages
    BY <1>1, <1>3, RouteType
  <2>2. Len(route) <= route[Len(route)].end /\ route[Len(route)].end \in NoLayer..NumLayers
    BY <2>1 DEF OwnLayers, Stages
  <2> QED BY <1>1, <2>2, MaxStagesType, PipelineConstants DEF NoLayer
<1> QED BY <1>1, <1>2, <1>3

LEMMA RouteChosen ==
  ASSUME NEW m \in Machines, NEW msg \in AtSender(m), IsRequest(msg), NEW routed \in Routed(m, msg)
  PROVE  /\ Ready(m, routed) /\ routed.request = msg.request
         /\ routed.stage = msg.stage /\ Carried(msg, routed)
<1>1. /\ msg \in Message /\ SentBy(m, msg) /\ RouteSoFar(msg, msg.stage, msg.stage)
      /\ Clocked(msg, msg.stage) /\ msg.buf = SentBuffer(m)
  BY DEF AtSender
<1>2. msg.route \in Routes /\ msg.stage \in Nat /\ Len(msg.route) \in Nat
  BY <1>1, MessageType, RouteType
<1>3. CASE Fixed(msg)
  <2>1. routed = msg /\ FullRoute(msg.route)
    BY <1>1, <1>3 DEF Fixed, Routed, RouteSoFar
  <2>2. msg.stage < Len(msg.route)
    BY <1>1, <2>1, NotAtEnd DEF FullRoute
  <2> QED BY <1>1, <1>3, <2>1, <2>2, LinkAhead, CarriedSame DEF Ready, RouteSoFar
<1>4. CASE ~Fixed(msg)
  <2>1. /\ Len(msg.route) = msg.stage /\ OwnLayers(msg.route, msg.stage)
        /\ FollowsLinks(msg.route)
    BY <1>1, <1>4 DEF RouteSoFar, SentBy
  <2>2. PICK n \in OutNodes(m) : routed = AddStage(msg, n)
    BY <1>4 DEF Fixed, Routed
  <2>3. n \in Machines /\ <<m, n>> \in Edges
    BY DEF OutNodes
  <2> DEFINE longer == Append(msg.route, Stage(n, NoLayer, NoLayer))
  <2>4. routed = OnRoute(msg, longer)
    BY <2>2 DEF AddStage, OnRoute
  <2>5. /\ <<IF msg.route = <<>> THEN Host ELSE msg.route[Len(msg.route)].server, n>> \in Edges
        /\ msg.route # <<>> => msg.route[Len(msg.route)].server \in Workers
    <3>1. CASE msg.route = <<>>
      <4>1. msg.stage = 0
        BY <2>1, <3>1
      <4> QED BY <3>1, <4>1, <1>1, <2>3 DEF SentBy
    <3>2. CASE msg.route # <<>>
      <4>1. msg.stage > 0
        BY <3>2, <1>2, <2>1, RouteType, NotEmpty
      <4>2. msg.route[Len(msg.route)].server = m /\ m # Host
        BY <4>1, <1>1, <1>2, <2>1 DEF SentBy
      <4> QED BY <3>2, <4>2, <2>3 DEF Machines
    <3> QED BY <3>1, <3>2
  <2>6. Len(msg.route) < MaxStages
    BY <1>2, <2>1, StagesLeft
  <2>7. /\ longer \in Routes /\ Len(longer) = Len(msg.route) + 1
        /\ longer[Len(msg.route) + 1] = Stage(n, NoLayer, NoLayer)
        /\ \A i \in 1..Len(msg.route) : longer[i] = msg.route[i]
        /\ FollowsLinks(longer)
        /\ \A k \in 0..Len(msg.route) : OwnLayers(msg.route, k) => OwnLayers(longer, k)
    BY <1>2, <2>1, <2>3, <2>5, <2>6, NextStage
  <2> HIDE DEF longer
  <2>8. /\ routed \in Message /\ routed.route = longer /\ routed.type = msg.type
        /\ routed.request = msg.request /\ routed.stage = msg.stage /\ routed.buf = msg.buf
        /\ routed.creation_time = msg.creation_time
    BY <1>1, <2>4, <2>7, WithRoute
  <2>9. SentBy(m, routed) /\ routed.stage < Len(routed.route)
    <3>1. msg.stage > 0 => longer[msg.stage] = msg.route[msg.stage]
      BY <1>2, <2>1, <2>7
    <3>2. routed.stage > 0 => routed.route[routed.stage].server = m
      BY <1>1, <2>8, <3>1 DEF SentBy
    <3>3. routed.stage = 0 <=> m = Host
      BY <1>1, <2>8 DEF SentBy
    <3>4. routed.stage <= Len(routed.route) /\ routed.stage < Len(routed.route)
      BY <1>2, <2>1, <2>7, <2>8
    <3>5. FollowsLinks(routed.route)
      BY <2>7, <2>8
    <3> QED BY <3>2, <3>3, <3>4, <3>5 DEF SentBy
  <2>10. routed.route[routed.stage + 1].server = n
    BY <2>1, <2>7, <2>8 DEF Stage
  <2>11. RouteSoFar(routed, routed.stage, routed.stage + 1)
    <3>1. ~Fixed(routed)
      BY <1>4, <2>8 DEF Fixed
    <3>2. OwnLayers(longer, msg.stage)
      BY <1>2, <2>1, <2>7
    <3> QED BY <2>1, <2>7, <2>8, <3>1, <3>2 DEF RouteSoFar
  <2>12. Clocked(routed, routed.stage)
    BY <1>1, <1>2, <2>1, <2>7, <2>8 DEF Clocked
  <2>13. SameStages(msg.route, longer, msg.stage)
    BY <2>1, <2>7 DEF SameStages
  <2>14. Carried(msg, routed)
    BY <1>4, <2>8, <2>13 DEF Carried
  <2> QED BY <1>1, <2>3, <2>8, <2>9, <2>10, <2>11, <2>12, <2>14 DEF Ready, IsRequest
<1> QED BY <1>3, <1>4

\* What Publish gets for a request.
LEMMA RequestSent ==
  ASSUME NEW m \in Machines, NEW msg, Ready(m, msg)
  PROVE  /\ Timed(m, msg) \in OnLink(m, NextServer(msg)) /\ IsRequest(Timed(m, msg))
         /\ Timed(m, msg).request = msg.request
         /\ Timed(m, msg).stage = msg.stage /\ Carried(msg, Timed(m, msg))
         /\ NextServer(Timed(m, msg)) = NextServer(msg) /\ <<m, NextServer(msg)>> \in Edges
<1> DEFINE sent == Timed(m, msg)
           n    == msg.stage
<1>1. /\ msg \in Message /\ IsRequest(msg) /\ SentBy(m, msg) /\ n < Len(msg.route)
      /\ RouteSoFar(msg, n, n + 1) /\ Clocked(msg, n) /\ msg.buf = SentBuffer(m)
      /\ <<m, NextServer(msg)>> \in Edges
  BY DEF Ready, NextServer
<1>2. msg.route \in Routes /\ n \in Nat /\ Len(msg.route) \in Nat /\ n + 1 \in 1..Len(msg.route)
  BY <1>1, MessageType, RouteType
<1>3. m # Host => n > 0
  BY <1>1, <1>2 DEF SentBy
<1>4. /\ sent \in Message /\ SameWay(msg.route, sent.route)
      /\ sent.type = msg.type /\ sent.request = msg.request
      /\ sent.creation_time = msg.creation_time
      /\ sent.stage = n /\ sent.buf = msg.buf
      /\ Scheduler = "swarm" =>
           /\ sent.route[n + 1].delta = "stamp"
           /\ \A i \in 1..(n - 1) : sent.route[i].delta = msg.route[i].delta
           /\ m # Host => sent.route[n].delta = Elapsed(msg.route[n].delta)
  BY <1>1, <1>3, TimedRoute
<1>5. /\ sent.route \in Routes /\ Len(sent.route) = Len(msg.route)
      /\ sent.route[n + 1].server = msg.route[n + 1].server
      /\ n > 0 => sent.route[n].server = msg.route[n].server
  BY <1>2, <1>4, MessageType DEF SameWay
<1> HIDE DEF sent
<1>6. SentBy(m, sent)
  <2>1. FollowsLinks(sent.route)
    BY <1>1, <1>2, <1>4, <1>5, SameWayFollows DEF SentBy
  <2>2. sent.stage = 0 <=> m = Host
    BY <1>1, <1>4 DEF SentBy
  <2>3. sent.stage <= Len(sent.route)
    BY <1>1, <1>2, <1>4, <1>5
  <2>4. sent.stage > 0 => sent.route[sent.stage].server = m
    BY <1>1, <1>4, <1>5 DEF SentBy
  <2> QED BY <2>1, <2>2, <2>3, <2>4 DEF SentBy
<1>7. RouteSoFar(sent, n, n + 1)
  <2>1. Fixed(sent) <=> Fixed(msg)
    BY <1>4 DEF Fixed
  <2>2. CASE Fixed(msg)
    BY <1>1, <1>2, <1>4, <1>5, <2>1, <2>2, SameWayFull DEF RouteSoFar
  <2>3. CASE ~Fixed(msg)
    <3>1. Len(msg.route) = n + 1 /\ OwnLayers(msg.route, n)
      BY <1>1, <2>3 DEF RouteSoFar
    <3>2. OwnLayers(sent.route, n)
      BY <1>2, <1>4, <1>5, <3>1, SameWayLayers
    <3> QED BY <1>5, <2>1, <2>3, <3>1, <3>2 DEF RouteSoFar
  <2> QED BY <2>2, <2>3
<1>8. Clocked(sent, n + 1)
  <2> SUFFICES ASSUME Scheduler = "swarm", NEW i \in 1..(n + 1)
               PROVE  sent.route[i].delta = IF i < n + 1 THEN "elapsed" ELSE "stamp"
    BY DEF Clocked
  <2>1. CASE i = n + 1
    BY <1>2, <1>4, <2>1
  <2>2. CASE i = n
    <3>1. n > 0 /\ n \in 1..n /\ n < n + 1 /\ ~(n < n)
      BY <1>2, <2>2
    <3>2. m # Host
      BY <1>1, <3>1 DEF SentBy
    <3>3. msg.route[n].delta = "stamp"
      BY <1>1, <3>1 DEF Clocked
    <3> QED BY <1>4, <2>2, <3>1, <3>2, <3>3 DEF Elapsed
  <2>3. CASE i # n /\ i # n + 1
    <3>1. i \in 1..(n - 1) /\ i \in 1..n /\ i < n /\ i < n + 1
      BY <1>2, <2>3
    <3>2. msg.route[i].delta = "elapsed"
      BY <1>1, <3>1 DEF Clocked
    <3> QED BY <1>4, <3>1, <3>2
  <2> QED BY <2>1, <2>2, <2>3
<1>9. IsRequest(sent) /\ sent.buf = SentBuffer(m)
  BY <1>1, <1>4 DEF IsRequest
<1>10. sent.stage < Len(sent.route) /\ sent.route[sent.stage + 1].server = NextServer(msg)
  BY <1>1, <1>4, <1>5 DEF NextServer
<1>11. SameStages(msg.route, sent.route, msg.stage)
  <2>1. \A i \in 1..n : i \in 1..Len(msg.route)
    BY <1>1, <1>2
  <2> QED BY <1>4, <2>1 DEF SameStages, SameWay
<1>12. Carried(msg, sent)
  BY <1>4, <1>11 DEF Carried
<1> QED BY <1>1, <1>4, <1>6, <1>7, <1>8, <1>9, <1>10, <1>12 DEF OnLink, sent, NextServer

\* What Publish gets for a SwarmInfo, and what the weights are fed with.
LEMMA InfoSent ==
  ASSUME NEW m \in Machines, NEW msg \in AtSender(m), ~IsRequest(msg), ~IsLastLayer(m)
  PROVE  /\ msg \in OnLink(m, NextServer(msg)) /\ <<m, NextServer(msg)>> \in Edges
         /\ msg.type = "SwarmInfo"
         /\ msg.route[msg.stage + 1].delta = "elapsed"
<1> DEFINE n == msg.stage
<1>1. msg \in Message /\ SentBy(m, msg) /\ InfoComplete(msg)
  BY DEF AtSender
<1>2. msg.route \in Routes /\ n \in Nat /\ Len(msg.route) \in Nat
  BY <1>1, MessageType, RouteType
<1>3. n < Len(msg.route)
  BY <1>1, NotAtEnd DEF InfoComplete
<1>4. <<m, msg.route[n + 1].server>> \in Edges
  BY <1>1, <1>3, LinkAhead
<1>5. msg.route[n + 1].server # Host
  <2>1. ASSUME msg.route[n + 1].server = Host PROVE FALSE
    <3>1. m # Host
      BY <1>4, <2>1, LayersFit, TopologyTypes DEF OutNodes, Machines
    <3>2. m \in InNodes(Host)
      BY <1>4, <2>1 DEF InNodes
    <3> QED BY <3>2, LayersFit
  <2> QED BY <2>1
<1>6. n + 1 < Len(msg.route)
  BY <1>1, <1>2, <1>3, <1>5 DEF InfoComplete, Returns
<1>7. n + 1 \in 1..(Len(msg.route) - 1)
  BY <1>2, <1>6
<1> QED BY <1>1, <1>3, <1>4, <1>5, <1>7, MessageType DEF OnLink, NextServer, IsRequest, InfoComplete

-------------------------------------------------------------------------------
(* Receivers.                                                              *)

\* New layers for one stage.
SetLayers(route, i, start, end) == [route EXCEPT ![i].start = start, ![i].end = end]

HasNewLayers(route, other, i, start, end) ==
  /\ Len(other) = Len(route)
  /\ other[i].start = start /\ other[i].end = end
  /\ \A j \in 1..Len(route) :
       /\ other[j].server = route[j].server /\ other[j].delta = route[j].delta
       /\ j # i => other[j] = route[j]

LEMMA WithNewLayers ==
  ASSUME NEW route \in Routes, NEW i \in 1..Len(route),
         NEW start \in NoLayer..NumLayers, NEW end \in NoLayer..NumLayers
  PROVE  /\ SetLayers(route, i, start, end) \in Routes
         /\ HasNewLayers(route, SetLayers(route, i, start, end), i, start, end)
<1> DEFINE st    == [route[i] EXCEPT !.start = start, !.end = end]
           other == [route EXCEPT ![i] = st]
<1>1. route \in Seq(Stages) /\ Len(route) \in Nat /\ route[i] \in Stages
  BY RouteType
<1>2. /\ st \in Stages /\ st.server = route[i].server /\ st.delta = route[i].delta
      /\ st.start = start /\ st.end = end
  BY <1>1 DEF Stages
<1>3. SetLayers(route, i, start, end) = other
  BY DEF SetLayers
<1> HIDE DEF st
<1>4. other \in Seq(Stages) /\ Len(other) = Len(route) /\ other[i] = st
      /\ \A j \in 1..Len(route) : j # i => other[j] = route[j]
  BY <1>1, <1>2
<1>5. other \in Routes
  BY <1>4, RouteType DEF Routes
<1> HIDE DEF other
<1> QED BY <1>2, <1>3, <1>4, <1>5 DEF HasNewLayers

LEMMA OwnLayersOf ==
  ASSUME NEW route, NEW other, NEW k \in Nat, \A i \in 1..k : other[i] = route[i],
         OwnLayers(route, k)
  PROVE  OwnLayers(other, k)
<1>1. \A i \in 1..k : i # 1 => other[i - 1] = route[i - 1]
  OBVIOUS
<1> QED BY <1>1 DEF OwnLayers, LayersRun

LEMMA OneMoreOwn ==
  ASSUME NEW route, NEW k \in Nat, OwnLayers(route, k),
         NEW w, w = route[k + 1].server, EndLayer[w] \in Nat,
         route[k + 1].start = IF k = 0 THEN 0 ELSE route[k].end,
         StartLayer[w] <= route[k + 1].start, route[k + 1].start < route[k + 1].end,
         route[k + 1].end = EndLayer[w], k + 1 <= route[k + 1].end
  PROVE  OwnLayers(route, k + 1)
<1> DEFINE Ran(i) ==
      /\ route[i].start = IF i = 1 THEN 0 ELSE route[i - 1].end
      /\ StartLayer[route[i].server] <= route[i].start
      /\ route[i].start < route[i].end
      /\ route[i].end <= EndLayer[route[i].server]
      /\ i <= route[i].end /\ route[i].end = EndLayer[route[i].server]
<1>1. \A i \in 1..k : Ran(i)
  BY DEF OwnLayers, LayersRun
<1>2. Ran(k + 1)
  <2>1. k + 1 - 1 = k /\ (k + 1 = 1 <=> k = 0)
    OBVIOUS
  <2>2. EndLayer[w] <= EndLayer[w]
    OBVIOUS
  <2> QED BY <2>1, <2>2
<1>3. \A i \in 1..(k + 1) : i = k + 1 \/ i \in 1..k
  OBVIOUS
<1> HIDE DEF Ran
<1>4. \A i \in 1..(k + 1) : Ran(i)
  BY <1>1, <1>2, <1>3
<1> QED BY <1>4 DEF Ran, OwnLayers, LayersRun

LEMMA RequestReceived ==
  ASSUME NEW m \in Machines, NEW w \in Workers, <<m, w>> \in Edges,
         NEW msg \in OnLink(m, w), IsRequest(msg)
  PROVE  /\ WithLayers(w, msg) \in AtWorker(w) /\ WithLayers(w, msg).request = msg.request
         /\ WithLayers(w, msg).stage = msg.stage /\ Carried(msg, WithLayers(w, msg))
         /\ SameServers(msg.route, WithLayers(w, msg).route)
<1> DEFINE n == msg.stage
<1>1. /\ msg \in Message /\ SentBy(m, msg) /\ n < Len(msg.route)
      /\ msg.route[n + 1].server = w
      /\ RouteSoFar(msg, n, n + 1) /\ Clocked(msg, n + 1) /\ msg.buf = SentBuffer(m)
  BY DEF OnLink
<1>2. /\ msg.route \in Routes /\ n \in Nat /\ Len(msg.route) \in Nat
      /\ n + 1 \in 1..Len(msg.route) /\ FollowsLinks(msg.route)
  BY <1>1, MessageType, RouteType DEF SentBy
<1>3. msg.buf = IF n = 0 THEN "tokens" ELSE "activations"
  <2>1. CASE m = Host
    BY <1>1, <2>1 DEF SentBy, SentBuffer
  <2>2. CASE m # Host
    <3>1. w \in OutNodes(m) /\ w # Host
      BY TopologyTypes DEF OutNodes, Machines
    <3>2. ~IsLastLayer(m)
      BY <3>1 DEF IsLastLayer
    <3> QED BY <1>1, <2>2, <3>2 DEF SentBy, SentBuffer, Output
  <2> QED BY <2>1, <2>2
<1>4. CASE Fixed(msg)
  <2>1. WithLayers(w, msg) = msg
    BY <1>4 DEF Fixed, WithLayers
  <2>2. RouteSoFar(msg, n + 1, n + 1)
    BY <1>1, <1>4 DEF RouteSoFar
  <2>3. SameServers(msg.route, msg.route)
    BY DEF SameServers
  <2> QED BY <1>1, <1>2, <1>3, <2>1, <2>2, <2>3, CarriedSame DEF AtWorker
<1>5. CASE ~Fixed(msg)
  <2> DEFINE start == IF n = 0 THEN 0 ELSE msg.route[n].end
             end   == EndLayer[w]
             other == SetLayers(msg.route, n + 1, start, end)
  <2>1. WithLayers(w, msg) = OnRoute(msg, other)
    BY <1>5 DEF Fixed, WithLayers, SetLayers, OnRoute
  <2>2. Len(msg.route) = n + 1 /\ OwnLayers(msg.route, n)
    BY <1>1, <1>5 DEF RouteSoFar
  <2>3. end \in 1..NumLayers /\ StartLayer[w] \in 0..NumLayers
    BY LayersFit
  <2>5. start \in 0..NumLayers /\ StartLayer[w] <= start /\ start < end /\ n + 1 <= end
    <3>1. CASE n = 0
      <4>1. w \in OutNodes(Host)
        BY <1>1, <3>1 DEF SentBy, OutNodes, Machines
      <4> QED BY <2>3, <3>1, <4>1, LayersFit, PipelineConstants
    <3>2. CASE n # 0
      <4>1. n > 0 /\ n \in 1..n
        BY <1>2, <3>2
      <4>2. msg.route[n].server = m /\ m \in Workers
        BY <1>1, <4>1 DEF SentBy, Machines
      <4>3. msg.route[n].end = EndLayer[m] /\ n <= msg.route[n].end
        BY <2>2, <4>1, <4>2 DEF OwnLayers
      <4>4. StartLayer[w] <= EndLayer[m] /\ EndLayer[m] < EndLayer[w] /\ EndLayer[m] \in 1..NumLayers
        BY <4>2, LayersFit
      <4>5. start = EndLayer[m] /\ n <= EndLayer[m]
        BY <3>2, <4>3
      <4>6. n \in Nat /\ NumLayers \in Nat
        BY <1>2, PipelineConstants
      <4> HIDE DEF start, n
      <4> QED BY <2>3, <4>4, <4>5, <4>6
    <3> QED BY <3>1, <3>2
  <2>6. start \in NoLayer..NumLayers /\ end \in NoLayer..NumLayers
    BY <2>3, <2>5, PipelineConstants DEF NoLayer
  <2> HIDE DEF start, end
  <2>7. /\ other \in Routes /\ Len(other) = n + 1
        /\ other[n + 1].start = start /\ other[n + 1].end = end
        /\ \A j \in 1..Len(msg.route) :
             /\ other[j].server = msg.route[j].server /\ other[j].delta = msg.route[j].delta
             /\ j # n + 1 => other[j] = msg.route[j]
    <3>1. other \in Routes /\ HasNewLayers(msg.route, other, n + 1, start, end)
      BY <1>2, <2>6, WithNewLayers
    <3> QED BY <2>2, <3>1 DEF HasNewLayers
  <2> HIDE DEF other
  <2>8. /\ WithLayers(w, msg) \in Message /\ WithLayers(w, msg).route = other
        /\ WithLayers(w, msg).type = msg.type /\ WithLayers(w, msg).request = msg.request
        /\ WithLayers(w, msg).stage = n /\ WithLayers(w, msg).buf = msg.buf
        /\ WithLayers(w, msg).creation_time = msg.creation_time
    BY <1>1, <2>1, <2>7, WithRoute
  <2>9. OwnLayers(other, n + 1)
    <3>1. \A i \in 1..n : i \in 1..Len(msg.route) /\ i # n + 1
      BY <1>2, <2>2
    <3>2. \A i \in 1..n : other[i] = msg.route[i]
      BY <2>7, <3>1
    <3>3. n # 0 => other[n] = msg.route[n]
      BY <1>2, <3>2
    <3>4. other[n + 1].server = w /\ other[n + 1].end = EndLayer[w]
      BY <1>1, <1>2, <2>7 DEF end
    <3>5. other[n + 1].start = IF n = 0 THEN 0 ELSE other[n].end
      BY <2>7, <3>3 DEF start
    <3>6. OwnLayers(other, n)
      BY <2>2, <3>2, <1>2, OwnLayersOf
    <3>7. w = other[n + 1].server /\ EndLayer[w] \in Nat /\ n \in Nat
      BY <1>2, <3>4, LayersFit, PipelineConstants
    <3>8. /\ StartLayer[w] <= other[n + 1].start /\ other[n + 1].start < other[n + 1].end
          /\ n + 1 <= other[n + 1].end
      BY <2>5, <2>7
    <3> QED BY <3>4, <3>5, <3>6, <3>7, <3>8, OneMoreOwn
  <2>10. FollowsLinks(other)
    <3>1. (other # <<>> => msg.route # <<>>) /\ 1 \in 1..Len(msg.route)
      BY <1>2, <2>2
    <3>2. \A i \in 1..(Len(other) - 1) : i \in 1..Len(msg.route) /\ i + 1 \in 1..Len(msg.route)
                                         /\ i \in 1..(Len(msg.route) - 1)
      BY <1>2, <2>2, <2>7
    <3> QED BY <1>2, <2>7, <3>1, <3>2 DEF FollowsLinks
  <2>11. other[n + 1].server = w /\ n < Len(other)
    BY <1>1, <1>2, <2>7
  <2>12. Clocked(WithLayers(w, msg), n + 1)
    BY <1>1, <1>2, <2>2, <2>7, <2>8 DEF Clocked
  <2>13. RouteSoFar(WithLayers(w, msg), n + 1, n + 1)
    BY <1>5, <2>7, <2>8, <2>9 DEF RouteSoFar, Fixed
  <2>14. SameServers(msg.route, other)
    BY <2>2, <2>7 DEF SameServers
  <2>15. SameStages(msg.route, other, n)
    <3>1. \A i \in 1..n : i \in 1..Len(msg.route) /\ i # n + 1
      BY <1>2, <2>2
    <3>2. \A i \in 1..n : other[i] = msg.route[i]
      BY <2>7, <3>1
    <3> QED BY <3>2 DEF SameStages
  <2>16. Carried(msg, WithLayers(w, msg))
    BY <1>5, <2>8, <2>15 DEF Carried
  <2> QED BY <1>1, <1>3, <2>8, <2>10, <2>11, <2>12, <2>13, <2>14, <2>16 DEF AtWorker, IsRequest
<1> QED BY <1>4, <1>5

\* The receiver counts the hop of a SwarmInfo.
OnStage(msg, n) == [msg EXCEPT !.stage = n]

LEMMA InfoReceived ==
  ASSUME NEW m \in Machines, NEW w \in Workers, <<m, w>> \in Edges,
         NEW msg \in OnLink(m, w), ~IsRequest(msg)
  PROVE  OnStage(msg, msg.stage + 1) \in AtSender(w) /\ ~IsRequest(OnStage(msg, msg.stage + 1))
<1> DEFINE n    == msg.stage
           next == OnStage(msg, n + 1)
<1>1. /\ msg \in Message /\ SentBy(m, msg) /\ n < Len(msg.route)
      /\ msg.route[n + 1].server = w /\ InfoComplete(msg)
  BY DEF OnLink
<1>2. msg.route \in Routes /\ n \in Nat /\ Len(msg.route) \in Nat /\ Len(msg.route) <= MaxStages
  BY <1>1, MessageType, RouteType
<1>3. n + 1 \in 0..MaxStages /\ n + 1 <= Len(msg.route) /\ n + 1 > 0 /\ n + 1 # 0
  BY <1>1, <1>2, MaxStagesType
<1>4. /\ next \in Message /\ next.stage = n + 1 /\ next.route = msg.route /\ next.type = msg.type
  BY <1>1, <1>3 DEF Message, OnStage
<1> HIDE DEF next
<1>5. ~IsRequest(next) /\ InfoComplete(next)
  BY <1>1, <1>4 DEF IsRequest, InfoComplete
<1>6. SentBy(w, next)
  <2>1. w # Host
    BY TopologyTypes
  <2>2. FollowsLinks(next.route)
    BY <1>1, <1>4 DEF SentBy
  <2> QED BY <1>1, <1>3, <1>4, <2>1, <2>2 DEF SentBy
<1> QED BY <1>4, <1>5, <1>6 DEF AtSender, next

\* The last hop ends at the host.
LEMMA RequestAnswered ==
  ASSUME NEW m \in Machines, <<m, Host>> \in Edges, NEW msg \in OnLink(m, Host)
  PROVE  IsRequest(msg) /\ msg \in Answered
<1> DEFINE n == msg.stage
<1>1. /\ msg \in Message /\ SentBy(m, msg) /\ n < Len(msg.route)
      /\ msg.route[n + 1].server = Host /\ IsRequest(msg)
      /\ RouteSoFar(msg, n, n + 1) /\ Clocked(msg, n + 1) /\ msg.buf = SentBuffer(m)
  BY DEF OnLink
<1>2. /\ msg.route \in Routes /\ n \in Nat /\ Len(msg.route) \in Nat
      /\ n + 1 \in 1..Len(msg.route) /\ FollowsLinks(msg.route)
  BY <1>1, MessageType, RouteType DEF SentBy
<1>3. m \in Workers /\ m # Host
  <2>1. m # Host
    BY LayersFit, TopologyTypes DEF OutNodes, Machines
  <2> QED BY <2>1 DEF Machines
<1>4. n > 0 /\ n \in 1..n /\ n \in Nat /\ n <= Len(msg.route)
  BY <1>1, <1>2, <1>3 DEF SentBy
<1>5. msg.route[n].server = m
  BY <1>1, <1>4 DEF SentBy
<1>6. IsLastLayer(m) /\ EndLayer[m] = NumLayers
  BY <1>3, LayersFit DEF InNodes
<1>7. Host \notin Workers
  BY TopologyTypes
<1>8. n + 1 = Len(msg.route)
  <2>1. CASE n + 1 < Len(msg.route)
    <3>1. n + 1 \in 1..(Len(msg.route) - 1)
      BY <1>2, <2>1
    <3> QED BY <1>1, <1>2, <1>7, <3>1 DEF FollowsLinks
  <2> QED BY <1>2, <2>1
<1>9. FullRoute(msg.route)
  <2>1. CASE Fixed(msg)
    BY <1>1, <2>1 DEF RouteSoFar
  <2>2. CASE ~Fixed(msg)
    <3>1. OwnLayers(msg.route, n)
      BY <1>1, <2>2 DEF RouteSoFar
    <3>2. LayersRun(msg.route, n) /\ msg.route[n].end = NumLayers
      BY <1>4, <1>5, <1>6, <3>1 DEF OwnLayers
    <3>3. Len(msg.route) - 1 = n /\ Len(msg.route) >= 2
      BY <1>2, <1>4, <1>8
    <3>4. Returns(msg.route)
      BY <1>1, <1>8, <3>3 DEF Returns
    <3> QED BY <1>2, <3>2, <3>3, <3>4 DEF FullRoute
  <2> QED BY <2>1, <2>2
<1>10. msg.buf = "token_id"
  BY <1>1, <1>3, <1>6 DEF SentBuffer, Output
<1> QED BY <1>1, <1>8, <1>9, <1>10 DEF Answered

\* The SwarmInfo of an answer has the answer's servers and times.
LEMMA InfoMade ==
  ASSUME NEW msg \in Answered, Scheduler = "swarm"
  PROVE  SwarmInfo(msg) \in AtSender(Host) /\ ~IsRequest(SwarmInfo(msg))
<1> DEFINE route == msg.route
           st(i) == [route[i] EXCEPT !.start = NoLayer, !.end = NoLayer]
           other == [i \in 1..Len(route) |-> st(i)]
           info  == SwarmInfo(msg)
<1>1. /\ msg \in Message /\ FullRoute(route) /\ msg.stage + 1 = Len(route)
      /\ Clocked(msg, msg.stage + 1)
  BY DEF Answered
<1>2. /\ route \in Routes /\ Len(route) \in Nat /\ DOMAIN route = 1..Len(route)
      /\ Len(route) <= MaxStages /\ \A i \in 1..Len(route) : route[i] \in Stages
  BY <1>1, MessageType, RouteType
<1> HIDE DEF route
<1>3. NoLayer \in NoLayer..NumLayers
  BY PipelineConstants DEF NoLayer
<1>4. ASSUME NEW i \in 1..Len(route)
      PROVE  st(i) \in Stages /\ st(i).server = route[i].server /\ st(i).delta = route[i].delta
  BY <1>2, <1>3 DEF Stages
<1>6. info = [type |-> "SwarmInfo", request |-> msg.request, creation_time |-> 0, stage |-> 0,
              route |-> other, buf |-> "dummy"]
  BY <1>2 DEF SwarmInfo, route
<1> HIDE DEF st
<1>5. other \in Seq(Stages) /\ Len(other) = Len(route)
      /\ \A i \in 1..Len(route) : other[i].server = route[i].server /\ other[i].delta = route[i].delta
  BY <1>2, <1>4
<1> HIDE DEF other, info
<1>7. other \in Routes /\ SameServers(route, other)
  BY <1>2, <1>5 DEF Routes, SameServers
<1>8. /\ info \in Message /\ info.route = other /\ info.stage = 0
      /\ info.type = "SwarmInfo"
  BY <1>1, <1>6, <1>7, MessageType, MaxStagesType DEF Message
<1>9. FollowsLinks(other) /\ Returns(other)
  BY <1>1, <1>2, <1>7, SameServersFollow DEF FullRoute
<1>10. ASSUME NEW i \in 1..(Len(other) - 1) PROVE other[i].delta = "elapsed"
  <2>1. i \in 1..Len(route) /\ i \in 1..(msg.stage + 1) /\ i < msg.stage + 1
    BY <1>1, <1>2, <1>5
  <2> QED BY <1>1, <1>5, <2>1 DEF Clocked, route
<1>11. InfoComplete(info) /\ SentBy(Host, info)
  BY <1>2, <1>5, <1>8, <1>9, <1>10 DEF InfoComplete, SentBy
<1> QED BY <1>8, <1>11 DEF AtSender, IsRequest, info

\* What the client keeps of an answer is a route a decode can follow.
LEMMA RouteSaved ==
  ASSUME NEW msg \in Answered
  PROVE  SavedRoute(msg) \in Routes /\ SavedRoute(msg) # <<>> /\ FullRoute(SavedRoute(msg))
<1> DEFINE route == msg.route
           other == [i \in 1..Len(route) |-> Stage(route[i].server, route[i].start, route[i].end)]
<1>1. msg \in Message /\ FullRoute(route)
  BY DEF Answered
<1>2. /\ route \in Routes /\ Len(route) \in Nat /\ DOMAIN route = 1..Len(route)
      /\ Len(route) <= MaxStages /\ \A i \in 1..Len(route) : route[i] \in Stages
  BY <1>1, MessageType, RouteType
<1> HIDE DEF route
<1>3. SavedRoute(msg) = other
  BY <1>2 DEF SavedRoute, route
<1>4. ASSUME NEW i \in 1..Len(route)
      PROVE  LET st == Stage(route[i].server, route[i].start, route[i].end)
             IN  st \in Stages /\ st.server = route[i].server /\ st.start = route[i].start
                 /\ st.end = route[i].end
  BY <1>2 DEF Stage, Stages, Deltas
<1>5. other \in Seq(Stages) /\ Len(other) = Len(route)
      /\ \A i \in 1..Len(route) : other[i] = Stage(route[i].server, route[i].start, route[i].end)
  BY <1>2, <1>4
<1> HIDE DEF other
<1>6. other \in Routes /\ SameWay(route, other)
  BY <1>2, <1>4, <1>5 DEF Routes, SameWay
<1>7. FullRoute(other)
  BY <1>1, <1>2, <1>6, SameWayFull
<1>8. other # <<>>
  BY <1>7 DEF FullRoute, Returns
<1> QED BY <1>3, <1>6, <1>7, <1>8

-------------------------------------------------------------------------------
(* The compute thread.                                                     *)

Computed(w, msg) == [msg EXCEPT !.stage = @ + 1, !.buf = Output(w)]

LEMMA RequestSubmitted ==
  ASSUME NEW w \in Workers, NEW msg \in AtWorker(w)
  PROVE  /\ Computed(w, msg) \in AtSender(w) /\ IsRequest(Computed(w, msg))
         /\ Computed(w, msg).request = msg.request /\ Computed(w, msg).stage = msg.stage + 1
         /\ Computed(w, msg).route = msg.route /\ Carried(msg, Computed(w, msg))
<1> DEFINE n    == msg.stage
           next == Computed(w, msg)
<1>1. /\ msg \in Message /\ IsRequest(msg) /\ FollowsLinks(msg.route) /\ n < Len(msg.route)
      /\ msg.route[n + 1].server = w
      /\ RouteSoFar(msg, n + 1, n + 1) /\ Clocked(msg, n + 1)
  BY DEF AtWorker
<1>2. msg.route \in Routes /\ n \in Nat /\ Len(msg.route) \in Nat /\ Len(msg.route) <= MaxStages
  BY <1>1, MessageType, RouteType
<1>3. n + 1 \in 0..MaxStages /\ n + 1 <= Len(msg.route) /\ n + 1 > 0 /\ n + 1 # 0
  BY <1>1, <1>2, MaxStagesType
<1>4. w # Host
  BY TopologyTypes
<1>5. /\ next \in Message /\ next.stage = n + 1 /\ next.route = msg.route
      /\ next.type = msg.type /\ next.request = msg.request /\ next.buf = SentBuffer(w)
      /\ next.creation_time = msg.creation_time
  BY <1>1, <1>3, <1>4 DEF Message, Computed, SentBuffer, Output
<1> HIDE DEF next
<1>6. IsRequest(next) /\ RouteSoFar(next, n + 1, n + 1) /\ Clocked(next, n + 1)
  BY <1>1, <1>5 DEF IsRequest, RouteSoFar, Fixed, Clocked
<1>7. SentBy(w, next)
  BY <1>1, <1>3, <1>4, <1>5 DEF SentBy
<1>8. Carried(msg, next)
  BY <1>5 DEF Carried, SameStages, SameWay
<1> QED BY <1>5, <1>6, <1>7, <1>8 DEF AtSender, next

-------------------------------------------------------------------------------
(* The client.                                                             *)

LEMMA LaunchesFinite ==
  ASSUME NEW times \in [Requests -> Nat]
  PROVE  IsFiniteSet(UNION {{r} \X (1..times[r]) : r \in Requests})
<1> DEFINE pairs == [r \in Requests |-> {r} \X (1..times[r])]
           T     == {{r} \X (1..times[r]) : r \in Requests}
<1>1. IsFiniteSet(Requests)
  BY PipelineConstants
<1>2. \A r \in Requests : IsFiniteSet({r} \X (1..times[r]))
  <2> SUFFICES ASSUME NEW r \in Requests PROVE IsFiniteSet({r} \X (1..times[r]))
    OBVIOUS
  <2>1. IsFiniteSet({r})
    BY FS_Singleton
  <2>2. IsFiniteSet(1..times[r])
    BY FS_Interval
  <2> QED BY <2>1, <2>2, FS_Product
<1>3. pairs \in Surjection(Requests, T)
  BY DEF Surjection
<1>4. \A x \in T : IsFiniteSet(x)
  BY <1>2
<1> HIDE DEF pairs, T
<1>5. IsFiniteSet(T)
  BY <1>1, <1>3, FS_Surjection
<1>6. IsFiniteSet(UNION T)
  BY <1>4, <1>5, FS_UNION
<1> QED BY <1>6 DEF T

LEMMA CreationTimeType ==
  ASSUME launched \in [Requests -> Nat]
  PROVE  CreationTime \in Nat
<1>1. IsFiniteSet(Launches)
  BY LaunchesFinite DEF Launches
<1>2. Cardinality(Launches) \in Nat
  BY <1>1, FS_CardinalityType
<1> QED BY <1>2 DEF CreationTime

LEMMA RequestLaunched ==
  ASSUME ClientInv, NEW r \in Requests, NEW type \in {"Prompt", "Decode"},
         type = "Decode" => Scheduler = "maxflow" \/ launched[r] > 0, r \notin waiting,
         NEW route \in LaunchRoutes(type, r)
  PROVE  LET msg == [type |-> type, request |-> r, creation_time |-> CreationTime, stage |-> 0,
                     route |-> route, buf |-> "tokens"]
         IN  msg \in AtSender(Host) /\ IsRequest(msg)
<1> DEFINE msg == [type |-> type, request |-> r, creation_time |-> CreationTime, stage |-> 0,
                   route |-> route, buf |-> "tokens"]
<1>1. CreationTime \in Nat
  BY CreationTimeType DEF ClientInv
<1>2. /\ route \in Routes
      /\ Scheduler = "maxflow" \/ type = "Decode" => FullRoute(route)
      /\ Scheduler # "maxflow" /\ type # "Decode" => route = <<>>
  <2>1. CASE Scheduler = "maxflow"
    BY <2>1, ClientRoutesFit, FullRouteFits DEF LaunchRoutes
  <2>2. CASE Scheduler # "maxflow" /\ type = "Decode"
    BY <2>2 DEF LaunchRoutes, ClientInv
  <2>3. CASE Scheduler # "maxflow" /\ type # "Decode"
    BY <2>3, MaxStagesType DEF LaunchRoutes, Routes
  <2> QED BY <2>1, <2>2, <2>3
<1>3. /\ msg \in Message /\ msg.stage = 0 /\ msg.route = route /\ msg.type = type
      /\ msg.buf = "tokens"
  BY <1>1, <1>2, MaxStagesType DEF Message
<1> HIDE DEF msg
<1>4. FollowsLinks(route)
  <2>1. CASE Scheduler = "maxflow" \/ type = "Decode"
    BY <1>2, <2>1 DEF FullRoute
  <2>2. CASE route = <<>>
    BY <2>2 DEF FollowsLinks
  <2> QED BY <1>2, <2>1, <2>2
<1>5. SentBy(Host, msg)
  BY <1>2, <1>3, <1>4, RouteType DEF SentBy
<1>6. RouteSoFar(msg, 0, 0)
  <2>1. CASE Fixed(msg)
    BY <1>2, <1>3, <2>1 DEF RouteSoFar, Fixed
  <2>2. CASE ~Fixed(msg)
    <3>1. route = <<>>
      BY <1>2, <1>3, <2>2 DEF Fixed
    <3> QED BY <1>3, <2>2, <3>1 DEF RouteSoFar, OwnLayers, LayersRun
  <2> QED BY <2>1, <2>2
<1>7. Clocked(msg, 0) /\ IsRequest(msg) /\ msg.buf = SentBuffer(Host)
  BY <1>3 DEF Clocked, IsRequest, SentBuffer
<1> QED BY <1>3, <1>5, <1>6, <1>7 DEF AtSender, msg

-------------------------------------------------------------------------------
(* One copy of a request.  A layout gives each place of the cluster the     *)
(* messages it holds.                                                      *)

Places ==
  ({"launch_queue", "finish_queue"} \X {Host}) \union ({"link"} \X Edges)
  \union ({"recv_compute_queue", "on_the_fly", "compute_send_queue"} \X Workers)

Layout(launching, finished, link, received, flying, sending) ==
  [p \in Places |->
     CASE p[1] = "launch_queue" -> launching
       [] p[1] = "finish_queue" -> finished
       [] p[1] = "link" -> link[p[2]]
       [] p[1] = "recv_compute_queue" -> received[p[2]]
       [] p[1] = "on_the_fly" -> flying[p[2]]
       [] p[1] = "compute_send_queue" -> sending[p[2]]]

LEMMA PlaceKinds ==
  ASSUME NEW p \in Places
  PROVE  \/ p = <<"launch_queue", Host>> \/ p = <<"finish_queue", Host>>
         \/ \E x \in Edges : p = <<"link", x>>
         \/ \E w \in Workers : p = <<"recv_compute_queue", w>>
         \/ \E w \in Workers : p = <<"on_the_fly", w>>
         \/ \E w \in Workers : p = <<"compute_send_queue", w>>
BY DEF Places

LEMMA LayoutType ==
  ASSUME NEW a \in Seq(Message), NEW b \in Seq(Message),
         NEW c \in [Edges -> Seq(Message)], NEW d \in [Workers -> Seq(Message)],
         NEW e \in [Workers -> Seq(Message)], NEW f \in [Workers -> Seq(Message)]
  PROVE  Layout(a, b, c, d, e, f) \in [Places -> Seq(Message)]
<1> DEFINE At(p) == CASE p[1] = "launch_queue" -> a
                      [] p[1] = "finish_queue" -> b
                      [] p[1] = "link" -> c[p[2]]
                      [] p[1] = "recv_compute_queue" -> d[p[2]]
                      [] p[1] = "on_the_fly" -> e[p[2]]
                      [] p[1] = "compute_send_queue" -> f[p[2]]
<1>1. ASSUME NEW p \in Places PROVE At(p) \in Seq(Message)
  BY DEF Places
<1>2. Layout(a, b, c, d, e, f) = [p \in Places |-> At(p)]
  BY DEF Layout
<1> HIDE DEF At
<1> QED BY <1>1, <1>2

\* The requests among the messages of a queue, and that no two are the same.
Ids(q) == {q[i].request : i \in {j \in DOMAIN q : IsRequest(q[j])}}

Distinct(q) ==
  \A i, j \in DOMAIN q : IsRequest(q[i]) /\ IsRequest(q[j]) /\ q[i].request = q[j].request => i = j

LEMMA IdsOf ==
  ASSUME NEW q, NEW r
  PROVE  r \in Ids(q) <=> \E i \in DOMAIN q : IsRequest(q[i]) /\ q[i].request = r
BY DEF Ids

LEMMA PartIds ==
  ASSUME NEW q \in Seq(Message), Distinct(q), NEW part \in Seq(Message), NEW skip \in Nat,
         Len(part) + skip <= Len(q), \A i \in 1..Len(part) : part[i] = q[i + skip]
  PROVE  Distinct(part) /\ Ids(part) \subseteq Ids(q)
<1>1. DOMAIN q = 1..Len(q) /\ DOMAIN part = 1..Len(part) /\ Len(q) \in Nat /\ Len(part) \in Nat
  OBVIOUS
<1>2. \A i \in DOMAIN part : i + skip \in DOMAIN q /\ part[i] = q[i + skip]
  BY <1>1
<1>3. Distinct(part)
  <2> SUFFICES ASSUME NEW i \in DOMAIN part, NEW j \in DOMAIN part,
                      IsRequest(part[i]), IsRequest(part[j]), part[i].request = part[j].request
               PROVE  i = j
    BY DEF Distinct
  <2>1. i + skip = j + skip
    BY <1>2 DEF Distinct
  <2> QED BY <1>1, <2>1
<1>4. ASSUME NEW r \in Ids(part) PROVE r \in Ids(q)
  <2>1. PICK i \in DOMAIN part : IsRequest(part[i]) /\ part[i].request = r
    BY <1>4, IdsOf
  <2> QED BY <1>2, <2>1, IdsOf
<1> QED BY <1>3, <1>4

LEMMA TailIds ==
  ASSUME NEW q \in Seq(Message), Distinct(q), q # <<>>
  PROVE  /\ Distinct(Tail(q)) /\ Ids(Tail(q)) \subseteq Ids(q)
         /\ IsRequest(Head(q)) => Head(q).request \in Ids(q) /\ Head(q).request \notin Ids(Tail(q))
<1>1. /\ DOMAIN q = 1..Len(q) /\ Len(q) \in Nat /\ 1 <= Len(q) /\ 1 \in DOMAIN q /\ Head(q) = q[1]
      /\ Tail(q) \in Seq(Message) /\ Len(Tail(q)) = Len(q) - 1
      /\ \A i \in 1..Len(Tail(q)) : Tail(q)[i] = q[i + 1]
  BY NotEmpty
<1>2. Distinct(Tail(q)) /\ Ids(Tail(q)) \subseteq Ids(q)
  <2> DEFINE part == Tail(q)
  <2>1. part \in Seq(Message) /\ Len(part) + 1 <= Len(q) /\ 1 \in Nat
        /\ \A i \in 1..Len(part) : part[i] = q[i + 1]
    BY <1>1
  <2> HIDE DEF part
  <2>2. Distinct(part) /\ Ids(part) \subseteq Ids(q)
    BY <2>1, PartIds
  <2> QED BY <2>2 DEF part
<1>3. ASSUME IsRequest(Head(q)) PROVE Head(q).request \in Ids(q)
  BY <1>1, <1>3, IdsOf
<1>4. ASSUME IsRequest(Head(q)), Head(q).request \in Ids(Tail(q)) PROVE FALSE
  <2>1. PICK i \in DOMAIN Tail(q) : IsRequest(Tail(q)[i]) /\ Tail(q)[i].request = Head(q).request
    BY <1>4, IdsOf
  <2>2. i \in 1..Len(Tail(q))
    BY <1>1
  <2>3. i + 1 \in DOMAIN q /\ i + 1 # 1 /\ q[i + 1] = Tail(q)[i]
    BY <1>1, <2>2
  <2> QED BY <1>1, <1>4, <2>1, <2>3 DEF Distinct
<1> QED BY <1>2, <1>3, <1>4

LEMMA PushIds ==
  ASSUME NEW q \in Seq(Message), Distinct(q), NEW msg \in Message,
         IsRequest(msg) => msg.request \notin Ids(q)
  PROVE  /\ Distinct(Append(q, msg)) /\ Ids(q) \subseteq Ids(Append(q, msg))
         /\ Ids(Append(q, msg)) \subseteq Ids(q) \union {msg.request}
         /\ ~IsRequest(msg) => Ids(Append(q, msg)) \subseteq Ids(q)
<1> DEFINE p == Append(q, msg)
<1>1. /\ DOMAIN q = 1..Len(q) /\ Len(q) \in Nat /\ DOMAIN p = 1..(Len(q) + 1)
      /\ p[Len(q) + 1] = msg /\ \A i \in DOMAIN q : p[i] = q[i]
  OBVIOUS
<1> HIDE DEF p
<1>2. \A i \in DOMAIN p : i = Len(q) + 1 \/ i \in DOMAIN q
  BY <1>1
<1>3. DOMAIN q \subseteq DOMAIN p
  BY <1>1
<1>4. ASSUME NEW i \in DOMAIN q, IsRequest(q[i]), IsRequest(msg), q[i].request = msg.request
      PROVE  FALSE
  BY <1>4, IdsOf
<1>5. Distinct(p)
  <2> SUFFICES ASSUME NEW i \in DOMAIN p, NEW j \in DOMAIN p,
                      IsRequest(p[i]), IsRequest(p[j]), p[i].request = p[j].request
               PROVE  i = j
    BY DEF Distinct
  <2>1. CASE i \in DOMAIN q /\ j \in DOMAIN q
    BY <1>1, <2>1 DEF Distinct
  <2>2. CASE i \in DOMAIN q /\ j = Len(q) + 1
    BY <1>1, <1>4, <2>2
  <2>3. CASE i = Len(q) + 1 /\ j \in DOMAIN q
    BY <1>1, <1>4, <2>3
  <2> QED BY <1>2, <2>1, <2>2, <2>3
<1>6. ASSUME NEW r \in Ids(q) PROVE r \in Ids(p)
  <2>1. PICK i \in DOMAIN q : IsRequest(q[i]) /\ q[i].request = r
    BY <1>6, IdsOf
  <2> QED BY <1>1, <1>3, <2>1, IdsOf
<1>7. ASSUME NEW r \in Ids(p)
      PROVE  (r \in Ids(q) \/ r = msg.request) /\ (~IsRequest(msg) => r \in Ids(q))
  <2>1. PICK i \in DOMAIN p : IsRequest(p[i]) /\ p[i].request = r
    BY <1>7, IdsOf
  <2>2. CASE i = Len(q) + 1
    BY <1>1, <2>1, <2>2
  <2>3. CASE i \in DOMAIN q
    BY <1>1, <2>1, <2>3, IdsOf
  <2> QED BY <1>2, <2>2, <2>3
<1> QED BY <1>5, <1>6, <1>7 DEF p

LEMMA NoIds == Ids(<<>>) = {} /\ Distinct(<<>>)
BY DEF Ids, Distinct

\* The requests held are in W, each of them in one place only.
Once(c, W) ==
  /\ \A p \in Places : Distinct(c[p]) /\ Ids(c[p]) \subseteq W
  /\ \A p, q \in Places : p # q => Ids(c[p]) \intersect Ids(c[q]) = {}

\* The head of p becomes the last of q, as the same request if it is one.
Moved(c, d, p, q, msg) ==
  /\ p # q /\ c[p] # <<>> /\ d[p] = Tail(c[p]) /\ d[q] = Append(c[q], msg)
  /\ IsRequest(msg) => IsRequest(Head(c[p])) /\ msg.request = Head(c[p]).request
  /\ \A x \in Places : x # p /\ x # q => d[x] = c[x]

LEMMA OnceMoved ==
  ASSUME NEW c \in [Places -> Seq(Message)], NEW d, NEW W, Once(c, W),
         NEW p \in Places, NEW q \in Places, NEW msg \in Message, Moved(c, d, p, q, msg)
  PROVE  Once(d, W)
<1> USE DEF Moved
<1>1. c[p] \in Seq(Message) /\ c[q] \in Seq(Message) /\ Distinct(c[p]) /\ Distinct(c[q])
      /\ Ids(c[p]) \intersect Ids(c[q]) = {}
  BY DEF Once
<1>2. /\ Distinct(d[p]) /\ Ids(d[p]) \subseteq Ids(c[p])
      /\ IsRequest(msg) => msg.request \in Ids(c[p]) /\ msg.request \notin Ids(d[p])
  BY <1>1, TailIds
<1>3. IsRequest(msg) => msg.request \notin Ids(c[q])
  BY <1>1, <1>2
<1>4. /\ Distinct(d[q]) /\ Ids(d[q]) \subseteq Ids(c[q]) \union {msg.request}
      /\ ~IsRequest(msg) => Ids(d[q]) \subseteq Ids(c[q])
  BY <1>1, <1>3, PushIds
<1>5. \A x \in Places : Distinct(d[x]) /\ Ids(d[x]) \subseteq W
  BY <1>2, <1>4 DEF Once
<1>6. \A x \in Places : x # p /\ x # q =>
        /\ Ids(d[x]) \intersect Ids(d[p]) = {} /\ Ids(d[x]) \intersect Ids(d[q]) = {}
  BY <1>2, <1>4 DEF Once
<1>7. Ids(d[p]) \intersect Ids(d[q]) = {}
  BY <1>1, <1>2, <1>4
<1>8. \A x, y \in Places : x # p /\ x # q /\ y # p /\ y # q /\ x # y =>
        Ids(d[x]) \intersect Ids(d[y]) = {}
  BY DEF Once
<1> QED BY <1>5, <1>6, <1>7, <1>8 DEF Once

\* One place loses requests, or only its other messages change.
LEMMA OnceLess ==
  ASSUME NEW c, NEW d, NEW W, Once(c, W), NEW p \in Places,
         Distinct(d[p]), Ids(d[p]) \subseteq Ids(c[p]),
         \A x \in Places : x # p => d[x] = c[x]
  PROVE  Once(d, W)
BY DEF Once

\* A request nobody holds enters p.
LEMMA OnceNew ==
  ASSUME NEW c \in [Places -> Seq(Message)], NEW d, NEW W, Once(c, W),
         NEW p \in Places, NEW msg \in Message, msg.request \notin W,
         d[p] = Append(c[p], msg), \A x \in Places : x # p => d[x] = c[x]
  PROVE  Once(d, W \union {msg.request})
<1>1. c[p] \in Seq(Message) /\ Distinct(c[p]) /\ Ids(c[p]) \subseteq W
  BY DEF Once
<1>2. Distinct(d[p]) /\ Ids(d[p]) \subseteq Ids(c[p]) \union {msg.request}
  BY <1>1, PushIds
<1>3. \A x \in Places : Distinct(d[x]) /\ Ids(d[x]) \subseteq W \union {msg.request}
  BY <1>1, <1>2 DEF Once
<1>4. \A x \in Places : x # p => Ids(d[x]) \intersect Ids(d[p]) = {}
  BY <1>2 DEF Once
<1>5. \A x, y \in Places : x # p /\ y # p /\ x # y => Ids(d[x]) \intersect Ids(d[y]) = {}
  BY DEF Once
<1> QED BY <1>3, <1>4, <1>5 DEF Once

\* All requests of p are given up.
LEMMA OnceEmptied ==
  ASSUME NEW c, NEW d, NEW W, Once(c, W), NEW p \in Places,
         d[p] = <<>>, \A x \in Places : x # p => d[x] = c[x]
  PROVE  Once(d, W \ Ids(c[p]))
BY NoIds DEF Once

\* All requests of p become those of q, which held none.
LEMMA OnceAll ==
  ASSUME NEW c, NEW d, NEW W, Once(c, W), NEW p \in Places, NEW q \in Places, p # q,
         d[p] = <<>>, Distinct(d[q]), Ids(d[q]) \subseteq Ids(c[p]),
         \A x \in Places : x # p /\ x # q => d[x] = c[x]
  PROVE  Once(d, W)
<1>1. \A x \in Places : Distinct(d[x]) /\ Ids(d[x]) \subseteq W
  BY NoIds DEF Once
<1>2. \A x \in Places : Ids(d[x]) \intersect Ids(d[p]) = {}
  BY NoIds
<1>3. \A x \in Places : x # p /\ x # q => Ids(d[x]) \intersect Ids(d[q]) = {}
  BY DEF Once
<1>4. \A x, y \in Places : x # p /\ x # q /\ y # p /\ y # q /\ x # y =>
        Ids(d[x]) \intersect Ids(d[y]) = {}
  BY DEF Once
<1> QED BY <1>1, <1>2, <1>3, <1>4 DEF Once

-------------------------------------------------------------------------------
(* The inductive invariant.                                                *)

\* The messages on the fly on each worker, in the order of submission.
Flying(fly, ids) == [w \in Workers |-> [i \in DOMAIN ids[w] |-> fly[w][ids[w][i]]]]

Held ==
  Layout(launch_queue, finish_queue, chan, recv_compute_queue,
         Flying(requests_on_the_fly, computing), compute_send_queue)

PipelineInv == MessagesInv /\ Once(Held, waiting)

\* Nothing is dropped: every link is subscribed and has room.
LinksUp == subscribed = Edges /\ \A e \in Edges : Len(chan[e]) < HWM

\* The stages a message at p has reached, beside those that lie behind it.
Passed(p) == IF p[1] \in {"launch_queue", "compute_send_queue"} THEN 0 ELSE 1

\* The head of p goes to q, n stages further on.
Goes(p, q, n) ==
  \E msg \in Message :
    /\ Moved(Held, Held', p, q, msg)
    /\ IsRequest(Head(Held[p])) <=> IsRequest(msg)
    /\ IsRequest(msg) =>
         /\ Carried(Head(Held[p]), msg) /\ msg.stage = Head(Held[p]).stage + n
         /\ \A k \in 1..(Head(Held[p]).stage + Passed(p)) :
              msg.route[k].server = Head(Held[p]).route[k].server

\* The head of p is gone; a request only when some link could not take it.
Dropped(p) ==
  /\ Held[p] # <<>> /\ Held'[p] = Tail(Held[p])
  /\ \A x \in Places : x # p => Held'[x] = Held[x]
  /\ IsRequest(Head(Held[p])) => ~LinksUp

\* The head of a sender's queue p goes on a link, if anywhere.
Leaves(p) == Dropped(p) \/ \E e \in Edges : Goes(p, <<"link", e>>, 0)

\* A message enters launch_queue.
Enters(msg) ==
  /\ Held'[<<"launch_queue", Host>>] = Append(Held[<<"launch_queue", Host>>], msg)
  /\ \A x \in Places : x # <<"launch_queue", Host>> => Held'[x] = Held[x]

\* A place loses all its messages.
Emptied(p) == Held'[p] = <<>> /\ \A x \in Places : x # p => Held'[x] = Held[x]

\* A place loses its last messages.
CutShort(p) ==
  /\ \E kept \in 0..Len(Held[p]) : Held'[p] = SubSeq(Held[p], 1, kept)
  /\ \A x \in Places : x # p => Held'[x] = Held[x]

\* All messages of p become those of q, which had none.
GoTogether(p, q) ==
  /\ p # q /\ Held'[p] = <<>> /\ Held[q] = <<>> /\ Held'[q] = Held[p]
  /\ \A x \in Places : x # p /\ x # q => Held'[x] = Held[x]

LEMMA SeqOfMore ==
  ASSUME NEW S, NEW T, S \subseteq T, NEW q \in Seq(S)
  PROVE  q \in Seq(T)
OBVIOUS

LEMMA Kinds ==
  ASSUME NEW m \in Machines, NEW n \in Machines
  PROVE  AtSender(m) \subseteq Message /\ OnLink(m, n) \subseteq Message
         /\ AtWorker(m) \subseteq Message /\ Answered \subseteq Message
BY DEF AtSender, OnLink, AtWorker, Answered

LEMMA FlyingType ==
  ASSUME BatchInv
  PROVE  /\ Flying(requests_on_the_fly, computing) \in [Workers -> Seq(Message)]
         /\ \A w \in Workers :
              /\ DOMAIN Flying(requests_on_the_fly, computing)[w] = DOMAIN computing[w]
              /\ \A i \in DOMAIN computing[w] :
                   /\ Flying(requests_on_the_fly, computing)[w][i]
                        = requests_on_the_fly[w][computing[w][i]]
                   /\ Flying(requests_on_the_fly, computing)[w][i].request = computing[w][i]
                   /\ IsRequest(Flying(requests_on_the_fly, computing)[w][i])
<1> DEFINE flying == Flying(requests_on_the_fly, computing)
<1>1. \A w \in Workers : flying[w] = [i \in DOMAIN computing[w] |-> requests_on_the_fly[w][computing[w][i]]]
  BY DEF Flying
<1>2. ASSUME NEW w \in Workers
      PROVE  /\ flying[w] \in Seq(Message) /\ DOMAIN flying[w] = DOMAIN computing[w]
             /\ \A i \in DOMAIN computing[w] :
                  /\ flying[w][i] = requests_on_the_fly[w][computing[w][i]]
                  /\ flying[w][i].request = computing[w][i] /\ IsRequest(flying[w][i])
  <2> HIDE DEF flying
  <2>1. computing[w] \in Seq(Requests) /\ DOMAIN computing[w] = 1..Len(computing[w])
        /\ Len(computing[w]) \in Nat
    BY DEF BatchInv
  <2>2. \A i \in DOMAIN computing[w] :
          /\ requests_on_the_fly[w][computing[w][i]] \in Message
          /\ requests_on_the_fly[w][computing[w][i]].request = computing[w][i]
          /\ IsRequest(requests_on_the_fly[w][computing[w][i]])
    BY DEF BatchInv, AtWorker
  <2> DEFINE n      == Len(computing[w])
             msg(i) == requests_on_the_fly[w][computing[w][i]]
  <2>3. flying[w] = [i \in 1..n |-> msg(i)] /\ n \in Nat
    BY <1>1, <2>1
  <2>4. \A i \in 1..n : msg(i) \in Message
    BY <2>1, <2>2
  <2>5. /\ \A i \in DOMAIN computing[w] : flying[w][i] = msg(i)
        /\ DOMAIN flying[w] = DOMAIN computing[w]
    BY <2>1, <2>3
  <2> HIDE DEF n, msg
  <2>6. flying[w] \in Seq(Message)
    BY <2>3, <2>4
  <2> QED BY <2>2, <2>5, <2>6 DEF msg
<1>3. flying = [w \in Workers |-> flying[w]]
  BY DEF Flying
<1> HIDE DEF flying
<1>4. flying \in [Workers -> Seq(Message)]
  BY <1>2, <1>3
<1> QED BY <1>2, <1>4 DEF flying

LEMMA HeldType ==
  ASSUME QueuesInv, BatchInv
  PROVE  Held \in [Places -> Seq(Message)]
<1>1. launch_queue \in Seq(Message) /\ finish_queue \in Seq(Message)
  BY SeqOfMore, Kinds DEF QueuesInv, Machines
<1>2. /\ chan \in [Edges -> Seq(Message)] /\ recv_compute_queue \in [Workers -> Seq(Message)]
      /\ compute_send_queue \in [Workers -> Seq(Message)]
  BY DEF QueuesInv
<1>3. Flying(requests_on_the_fly, computing) \in [Workers -> Seq(Message)]
  BY FlyingType
<1> QED BY <1>1, <1>2, <1>3, LayoutType DEF Held

LEMMA HeldNow ==
  /\ Held[<<"launch_queue", Host>>] = launch_queue
  /\ Held[<<"finish_queue", Host>>] = finish_queue
  /\ \A e \in Edges : Held[<<"link", e>>] = chan[e]
  /\ \A w \in Workers :
       /\ Held[<<"recv_compute_queue", w>>] = recv_compute_queue[w]
       /\ Held[<<"on_the_fly", w>>] = Flying(requests_on_the_fly, computing)[w]
       /\ Held[<<"compute_send_queue", w>>] = compute_send_queue[w]
BY DEF Held, Layout, Places

LEMMA HeldNext ==
  /\ Held'[<<"launch_queue", Host>>] = launch_queue'
  /\ Held'[<<"finish_queue", Host>>] = finish_queue'
  /\ \A e \in Edges : Held'[<<"link", e>>] = chan'[e]
  /\ \A w \in Workers :
       /\ Held'[<<"recv_compute_queue", w>>] = recv_compute_queue'[w]
       /\ Held'[<<"on_the_fly", w>>] = Flying(requests_on_the_fly', computing')[w]
       /\ Held'[<<"compute_send_queue", w>>] = compute_send_queue'[w]
BY DEF Held, Layout, Places

\* What does not change at one place.
LEMMA HeldSame ==
  ASSUME NEW x \in Places,
         x = <<"launch_queue", Host>> => launch_queue' = launch_queue,
         x = <<"finish_queue", Host>> => finish_queue' = finish_queue,
         \A e \in Edges : x = <<"link", e>> => chan'[e] = chan[e],
         \A w \in Workers :
           x = <<"recv_compute_queue", w>> => recv_compute_queue'[w] = recv_compute_queue[w],
         \A w \in Workers :
           x = <<"on_the_fly", w>> => Flying(requests_on_the_fly', computing')[w]
                                        = Flying(requests_on_the_fly, computing)[w],
         \A w \in Workers :
           x = <<"compute_send_queue", w>> => compute_send_queue'[w] = compute_send_queue[w]
  PROVE  Held'[x] = Held[x]
<1>1. CASE x = <<"launch_queue", Host>>
  BY <1>1, HeldNow, HeldNext
<1>2. CASE x = <<"finish_queue", Host>>
  BY <1>2, HeldNow, HeldNext
<1>3. CASE \E e \in Edges : x = <<"link", e>>
  BY <1>3, HeldNow, HeldNext
<1>4. CASE \E w \in Workers : x = <<"recv_compute_queue", w>>
  <2>1. PICK w \in Workers : x = <<"recv_compute_queue", w>>
    BY <1>4
  <2>2. recv_compute_queue'[w] = recv_compute_queue[w]
    BY <2>1
  <2>3. Held[x] = recv_compute_queue[w] /\ Held'[x] = recv_compute_queue'[w]
    BY <2>1, HeldNow, HeldNext
  <2> QED BY <2>2, <2>3
<1>5. CASE \E w \in Workers : x = <<"on_the_fly", w>>
  <2>1. PICK w \in Workers : x = <<"on_the_fly", w>>
    BY <1>5
  <2>2. Flying(requests_on_the_fly', computing')[w] = Flying(requests_on_the_fly, computing)[w]
    BY <2>1
  <2>3. Held[x] = Flying(requests_on_the_fly, computing)[w] /\ Held'[x] = Flying(requests_on_the_fly', computing')[w]
    BY <2>1, HeldNow, HeldNext
  <2> QED BY <2>2, <2>3
<1>6. CASE \E w \in Workers : x = <<"compute_send_queue", w>>
  <2>1. PICK w \in Workers : x = <<"compute_send_queue", w>>
    BY <1>6
  <2>2. compute_send_queue'[w] = compute_send_queue[w]
    BY <2>1
  <2>3. Held[x] = compute_send_queue[w] /\ Held'[x] = compute_send_queue'[w]
    BY <2>1, HeldNow, HeldNext
  <2> QED BY <2>2, <2>3
<1> QED BY <1>1, <1>2, <1>3, <1>4, <1>5, <1>6, PlaceKinds

LEMMA ClientSame == ClientInv /\ UNCHANGED client_vars => ClientInv'
BY DEF ClientInv, client_vars

LEMMA BatchSame == BatchInv /\ UNCHANGED <<requests_on_the_fly, computing>> => BatchInv'
BY DEF BatchInv, OnTheFly

-------------------------------------------------------------------------------
(* Senders: what goes on a link.                                           *)

\* The message, or what becomes of it, is dropped or put on one of the links.
SentOn(msg) ==
  \/ chan' = chan /\ (IsRequest(msg) => ~LinksUp)
  \/ \E e \in Edges, sent \in Message :
       /\ Carried(msg, sent) /\ sent.stage = msg.stage
       /\ chan'[e] = Append(chan[e], sent)
       /\ \A x \in Edges : x # e => chan'[x] = chan[x]

LinksInv(links_) ==
  /\ links_ \in [Edges -> Seq(Message)]
  /\ \A e \in Edges : links_[e] \in Seq(OnLink(e[1], e[2]))

LEMMA Published ==
  ASSUME LinksInv(chan), NEW m \in Machines, NEW msg, <<m, NextServer(msg)>> \in Edges,
         msg \in OnLink(m, NextServer(msg)), Publish(m, msg)
  PROVE  LinksInv(chan') /\ SentOn(msg)
<1> DEFINE e == <<m, NextServer(msg)>>
<1>1. msg \in Message
  BY DEF OnLink
<1>2. CASE ~(e \in subscribed /\ Len(chan[e]) < HWM)
  <2>1. chan' = chan
    BY <1>2 DEF Publish
  <2>2. ~LinksUp
    BY <1>2 DEF LinksUp
  <2> QED BY <2>1, <2>2 DEF SentOn
<1>3. CASE chan' = [chan EXCEPT ![e] = Append(@, msg)]
  <2>1. chan[e] \in Seq(Message) /\ chan[e] \in Seq(OnLink(m, NextServer(msg)))
    BY DEF LinksInv
  <2>2. Append(chan[e], msg) \in Seq(Message) /\ Append(chan[e], msg) \in Seq(OnLink(m, NextServer(msg)))
    BY <1>1, <2>1
  <2>3. /\ chan'[e] = Append(chan[e], msg) /\ \A x \in Edges : x # e => chan'[x] = chan[x]
    BY <1>3 DEF LinksInv
  <2>4. chan' \in [Edges -> Seq(Message)]
    BY <1>3, <2>2 DEF LinksInv
  <2>5. ASSUME NEW x \in Edges PROVE chan'[x] \in Seq(OnLink(x[1], x[2]))
    <3>1. CASE x = e
      BY <2>2, <2>3, <3>1
    <3>2. CASE x # e
      BY <2>3, <3>2 DEF LinksInv
    <3> QED BY <3>1, <3>2
  <2>6. SentOn(msg)
    BY <1>1, <2>3, CarriedSame DEF SentOn
  <2> QED BY <2>4, <2>5, <2>6 DEF LinksInv
<1> QED BY <1>2, <1>3 DEF Publish

EmaType(weights) == weights \in [Edges -> {"initial", "measured"}]

LEMMA SentFrom ==
  ASSUME LinksInv(chan), EmaType(ema), NEW m \in Machines, NEW msg \in AtSender(m),
         ~(msg.type = "SwarmInfo" /\ IsLastLayer(m)), SendFrom(m, msg)
  PROVE  LinksInv(chan') /\ EmaType(ema') /\ SentOn(msg) /\ UNCHANGED subscribed
<1>1. msg \in Message /\ (IsRequest(msg) <=> msg.type # "SwarmInfo")
  BY MessageType DEF AtSender, IsRequest
<1>2. CASE IsRequest(msg)
  <2>1. PICK routed \in Routed(m, msg) : Publish(m, Timed(m, routed))
    BY <1>1, <1>2 DEF SendFrom
  <2>2. Ready(m, routed) /\ routed.stage = msg.stage /\ Carried(msg, routed)
    BY <1>2, RouteChosen
  <2> DEFINE sent == Timed(m, routed)
  <2>3. /\ sent \in OnLink(m, NextServer(routed)) /\ IsRequest(sent)
        /\ sent.stage = routed.stage /\ Carried(routed, sent)
        /\ NextServer(sent) = NextServer(routed) /\ <<m, NextServer(routed)>> \in Edges
    BY <2>2, RequestSent
  <2> HIDE DEF sent
  <2>4. LinksInv(chan') /\ SentOn(sent)
    BY <2>1, <2>3, Published DEF sent
  <2>5. SentOn(msg)
    <3>1. CASE chan' = chan /\ ~LinksUp
      BY <3>1 DEF SentOn
    <3>2. CASE ~(chan' = chan /\ ~LinksUp)
      <4>1. PICK e \in Edges, put \in Message :
              /\ Carried(sent, put) /\ put.stage = sent.stage
              /\ chan'[e] = Append(chan[e], put)
              /\ \A x \in Edges : x # e => chan'[x] = chan[x]
        BY <2>3, <2>4, <3>2 DEF SentOn
      <4>2. Carried(msg, sent)
        BY <2>2, <2>3, CarriedTwice
      <4>3. Carried(msg, put) /\ put.stage = msg.stage
        BY <2>2, <2>3, <4>1, <4>2, CarriedTwice
      <4> QED BY <4>1, <4>3 DEF SentOn
    <3> QED BY <3>1, <3>2
  <2>6. UNCHANGED ema /\ UNCHANGED subscribed
    BY <1>1, <1>2, <2>1 DEF SendFrom, Publish
  <2> QED BY <2>4, <2>5, <2>6
<1>3. CASE ~IsRequest(msg)
  <2>1. /\ msg \in OnLink(m, NextServer(msg)) /\ <<m, NextServer(msg)>> \in Edges
        /\ msg.type = "SwarmInfo" /\ msg.route[msg.stage + 1].delta = "elapsed"
    BY <1>1, <1>3, InfoSent
  <2>2. Publish(m, msg)
    BY <2>1 DEF SendFrom
  <2>3. LinksInv(chan') /\ SentOn(msg)
    BY <2>1, <2>2, Published
  <2>4. ema' = [ema EXCEPT ![<<m, NextServer(msg)>>] = IF @ # "garbage" THEN "measured" ELSE "garbage"]
    BY <2>1 DEF SendFrom
  <2>5. EmaType(ema')
    BY <2>1, <2>4 DEF EmaType
  <2> QED BY <2>2, <2>3, <2>5 DEF Publish
<1> QED BY <1>2, <1>3

LEMMA OnceSent ==
  ASSUME Once(Held, waiting), Held \in [Places -> Seq(Message)], NEW p \in Places, Held[p] # <<>>,
         Held'[p] = Tail(Held[p]), SentOn(Head(Held[p])),
         p[1] \in {"launch_queue", "compute_send_queue"},
         \A x \in Places : x # p /\ (\A e \in Edges : x # <<"link", e>>) => Held'[x] = Held[x]
  PROVE  Once(Held', waiting) /\ Leaves(p)
<1>1. Held[p] \in Seq(Message) /\ Distinct(Held[p])
  BY DEF Once
<1>2. CASE chan' = chan /\ (IsRequest(Head(Held[p])) => ~LinksUp)
  <2>1. \A x \in Places : x # p => Held'[x] = Held[x]
    BY <1>2, HeldNow, HeldNext
  <2>2. Distinct(Held'[p]) /\ Ids(Held'[p]) \subseteq Ids(Held[p])
    BY <1>1, TailIds
  <2>3. Once(Held', waiting)
    BY <2>1, <2>2 DEF Once
  <2> QED BY <1>2, <2>1, <2>3 DEF Leaves, Dropped
<1>3. CASE ~(chan' = chan /\ (IsRequest(Head(Held[p])) => ~LinksUp))
  <2>1. PICK e \in Edges, sent \in Message :
          /\ Carried(Head(Held[p]), sent) /\ sent.stage = Head(Held[p]).stage
          /\ chan'[e] = Append(chan[e], sent)
          /\ \A x \in Edges : x # e => chan'[x] = chan[x]
    BY <1>3 DEF SentOn
  <2> DEFINE q == <<"link", e>>
  <2>2. q \in Places /\ p # q
    BY DEF Places
  <2>3. Held'[q] = Append(Held[q], sent)
    BY <2>1, HeldNow, HeldNext
  <2>4. ASSUME NEW x \in Places, x # p, x # q PROVE Held'[x] = Held[x]
    <3>1. CASE \E y \in Edges : x = <<"link", y>>
      <4>1. PICK y \in Edges : x = <<"link", y>>
        BY <3>1
      <4>2. y # e
        BY <2>4, <4>1
      <4> QED BY <2>1, <4>1, <4>2, HeldNow, HeldNext
    <3> QED BY <2>4, <3>1
  <2>5. \A x \in Places : x # p /\ x # q => Held'[x] = Held[x]
    BY <2>4
  <2> HIDE DEF q
  <2>6. IsRequest(Head(Held[p])) <=> IsRequest(sent)
    BY <2>1 DEF Carried, IsRequest
  <2>7. Moved(Held, Held', p, q, sent)
    BY <2>1, <2>2, <2>3, <2>5, <2>6 DEF Moved, Carried
  <2>8. Once(Held', waiting)
    BY <2>2, <2>7, OnceMoved
  <2>9. Goes(p, q, 0)
    <3>1. Head(Held[p]) \in Message
      BY <1>1, HeadTail
    <3>2. sent.stage = Head(Held[p]).stage + 0
      BY <2>1, <3>1, MessageType
    <3>3. Head(Held[p]).stage + Passed(p) = Head(Held[p]).stage
      BY <3>1, MessageType DEF Passed
    <3>4. \A k \in 1..Head(Held[p]).stage : sent.route[k].server = Head(Held[p]).route[k].server
      BY <2>1 DEF Carried, SameStages
    <3> QED BY <2>1, <2>6, <2>7, <3>2, <3>3, <3>4 DEF Goes
  <2> QED BY <2>8, <2>9 DEF Leaves, q
<1> QED BY <1>2, <1>3

LEMMA ScatterSendInv ==
  ASSUME PipelineInv, ScatterSend
  PROVE  PipelineInv' /\ Leaves(<<"launch_queue", Host>>)
<1> DEFINE msg == Head(launch_queue)
           p   == <<"launch_queue", Host>>
<1>1. ClientInv /\ QueuesInv /\ BatchInv /\ Once(Held, waiting)
  BY DEF PipelineInv, MessagesInv
<1>2. launch_queue # <<>> /\ msg \in AtSender(Host) /\ launch_queue' \in Seq(AtSender(Host))
      /\ launch_queue' = Tail(launch_queue)
  BY <1>1, HeadTail DEF ScatterSend, QueuesInv
<1>3. ~IsLastLayer(Host) /\ Host \in Machines
  BY LayersFit, TopologyTypes DEF IsLastLayer, Machines
<1>4. LinksInv(chan) /\ EmaType(ema)
  BY <1>1 DEF QueuesInv, LinksInv, EmaType
<1>5. LinksInv(chan') /\ EmaType(ema') /\ SentOn(msg)
  BY <1>2, <1>3, <1>4, SentFrom DEF ScatterSend
<1>6. UNCHANGED <<client_vars, finish_queue, gather_info, recv_compute_queue,
                  requests_on_the_fly, computing, compute_send_queue>>
  BY DEF ScatterSend, worker_vars
<1>7. QueuesInv'
  BY <1>1, <1>2, <1>5, <1>6 DEF QueuesInv, LinksInv, EmaType
<1>8. ClientInv' /\ BatchInv'
  BY <1>1, <1>6, ClientSame, BatchSame
<1>9. Once(Held', waiting) /\ Leaves(p)
  <2>1. Held \in [Places -> Seq(Message)]
    BY <1>1, HeldType
  <2>2. p \in Places /\ p[1] \in {"launch_queue", "compute_send_queue"}
    BY DEF Places
  <2>3. Held[p] = launch_queue /\ Held'[p] = Tail(launch_queue)
    BY <1>2, HeldNow, HeldNext
  <2>4. Flying(requests_on_the_fly', computing') = Flying(requests_on_the_fly, computing)
    BY <1>6
  <2>5. ASSUME NEW x \in Places, x # p, \A e \in Edges : x # <<"link", e>>
        PROVE  Held'[x] = Held[x]
    BY <1>6, <2>4, <2>5, HeldSame
  <2> HIDE DEF p
  <2> QED BY <1>1, <1>2, <1>5, <2>1, <2>2, <2>3, <2>5, OnceSent
<1>10. waiting' = waiting
  BY <1>6 DEF client_vars
<1> QED BY <1>7, <1>8, <1>9, <1>10 DEF PipelineInv, MessagesInv

LEMMA WorkerSendInv ==
  ASSUME PipelineInv, NEW w \in Workers, WorkerSend(w)
  PROVE  PipelineInv' /\ Leaves(<<"compute_send_queue", w>>)
<1> DEFINE msg == Head(compute_send_queue[w])
           p   == <<"compute_send_queue", w>>
<1>1. ClientInv /\ QueuesInv /\ BatchInv /\ Once(Held, waiting)
  BY DEF PipelineInv, MessagesInv
<1>2. /\ compute_send_queue[w] # <<>> /\ compute_send_queue[w] \in Seq(AtSender(w))
      /\ msg \in AtSender(w) /\ Tail(compute_send_queue[w]) \in Seq(AtSender(w))
      /\ Tail(compute_send_queue[w]) \in Seq(Message)
      /\ compute_send_queue' = [compute_send_queue EXCEPT ![w] = Tail(@)]
  <2>1. compute_send_queue[w] # <<>> /\ compute_send_queue' = [compute_send_queue EXCEPT ![w] = Tail(@)]
    BY DEF WorkerSend
  <2>2. compute_send_queue[w] \in Seq(AtSender(w)) /\ compute_send_queue[w] \in Seq(Message)
    BY <1>1 DEF QueuesInv
  <2> QED BY <2>1, <2>2, HeadTail
<1>3. /\ compute_send_queue'[w] = Tail(compute_send_queue[w])
      /\ \A v \in Workers : v # w => compute_send_queue'[v] = compute_send_queue[v]
      /\ compute_send_queue' \in [Workers -> Seq(Message)]
  BY <1>1, <1>2 DEF QueuesInv
<1>4. LinksInv(chan) /\ EmaType(ema) /\ w \in Machines
  BY <1>1 DEF QueuesInv, LinksInv, EmaType, Machines
<1>5. LinksInv(chan') /\ EmaType(ema') /\ SentOn(msg)
  <2>1. CASE msg.type = "SwarmInfo" /\ IsLastLayer(w)
    BY <1>4, <2>1 DEF WorkerSend, SentOn, links, IsRequest
  <2>2. CASE ~(msg.type = "SwarmInfo" /\ IsLastLayer(w))
    BY <1>2, <1>4, <2>2, SentFrom DEF WorkerSend
  <2> QED BY <2>1, <2>2
<1>6. UNCHANGED <<client_vars, host_vars, recv_compute_queue, requests_on_the_fly, computing>>
  BY DEF WorkerSend
<1>7. QueuesInv'
  BY <1>1, <1>2, <1>3, <1>5, <1>6 DEF QueuesInv, LinksInv, EmaType, host_vars
<1>8. ClientInv' /\ BatchInv'
  BY <1>1, <1>6, ClientSame, BatchSame
<1>9. Once(Held', waiting) /\ Leaves(p)
  <2>1. Held \in [Places -> Seq(Message)]
    BY <1>1, HeldType
  <2>2. p \in Places /\ p[1] \in {"launch_queue", "compute_send_queue"}
    BY DEF Places
  <2>3. Held[p] = compute_send_queue[w] /\ Held'[p] = Tail(compute_send_queue[w])
    BY <1>3, HeldNow, HeldNext
  <2>4. Flying(requests_on_the_fly', computing') = Flying(requests_on_the_fly, computing)
    BY <1>6
  <2>5. ASSUME NEW x \in Places, x # p, \A e \in Edges : x # <<"link", e>>
        PROVE  Held'[x] = Held[x]
    BY <1>3, <1>6, <2>4, <2>5, HeldSame DEF host_vars
  <2> HIDE DEF p
  <2> QED BY <1>1, <1>2, <1>5, <2>1, <2>2, <2>3, <2>5, OnceSent
<1>10. waiting' = waiting
  BY <1>6 DEF client_vars
<1> QED BY <1>7, <1>8, <1>9, <1>10 DEF PipelineInv, MessagesInv

-------------------------------------------------------------------------------
(* Receivers.                                                              *)

LEMMA Polled ==
  ASSUME LinksInv(chan), NEW m \in Machines, NEW n \in Machines, Poll(m, n)
  PROVE  /\ <<m, n>> \in Edges /\ chan[<<m, n>>] # <<>>
         /\ LinksInv(chan')
         /\ Head(chan[<<m, n>>]) \in OnLink(m, n)
         /\ chan'[<<m, n>>] = Tail(chan[<<m, n>>])
         /\ \A x \in Edges : x # <<m, n>> => chan'[x] = chan[x]
<1> DEFINE e == <<m, n>>
<1>1. e \in Edges /\ chan[e] # <<>> /\ chan' = [chan EXCEPT ![e] = Tail(@)]
  BY DEF Poll
<1>2. chan[e] \in Seq(Message) /\ chan[e] \in Seq(OnLink(m, n))
  BY <1>1 DEF LinksInv
<1>3. Head(chan[e]) \in OnLink(m, n) /\ Tail(chan[e]) \in Seq(OnLink(m, n)) /\ Tail(chan[e]) \in Seq(Message)
  BY <1>1, <1>2, HeadTail
<1>4. /\ chan'[e] = Tail(chan[e]) /\ \A x \in Edges : x # e => chan'[x] = chan[x]
      /\ chan' \in [Edges -> Seq(Message)]
  BY <1>1, <1>3 DEF LinksInv
<1>5. ASSUME NEW x \in Edges PROVE chan'[x] \in Seq(OnLink(x[1], x[2]))
  <2>1. CASE x = e
    BY <1>3, <1>4, <2>1
  <2>2. CASE x # e
    BY <1>4, <2>2 DEF LinksInv
  <2> QED BY <2>1, <2>2
<1> QED BY <1>1, <1>3, <1>4, <1>5 DEF LinksInv

\* One more message in the queue of a worker.
OneMore(f, g, w, msg) ==
  /\ g \in [Workers -> Seq(Message)] /\ g[w] = Append(f[w], msg)
  /\ \A v \in Workers : v # w => g[v] = f[v]

LEMMA Pushed ==
  ASSUME NEW f \in [Workers -> Seq(Message)], NEW g, NEW w \in Workers, NEW msg \in Message,
         g = [f EXCEPT ![w] = Push(@, msg)]
  PROVE  OneMore(f, g, w, msg)
<1>1. Append(f[w], msg) \in Seq(Message)
  OBVIOUS
<1>2. g = [f EXCEPT ![w] = Append(f[w], msg)]
  BY DEF Push
<1> QED BY <1>1, <1>2 DEF OneMore

\* Two places take part in a step, a link and a queue.
LEMMA ReceiveRequestInv ==
  ASSUME PipelineInv, NEW m \in Machines, NEW w \in Workers, ReceiveRequest(m, w)
  PROVE  PipelineInv' /\ Goes(<<"link", <<m, w>>>>, <<"recv_compute_queue", w>>, 0)
<1> DEFINE e   == <<m, w>>
           got == Head(chan[e])
           msg == WithLayers(w, got)
           p   == <<"link", e>>
           q   == <<"recv_compute_queue", w>>
<1>1. ClientInv /\ QueuesInv /\ BatchInv /\ Once(Held, waiting) /\ LinksInv(chan) /\ w \in Machines
  BY DEF PipelineInv, MessagesInv, QueuesInv, LinksInv, Machines
<1>2. /\ e \in Edges /\ chan[e] # <<>> /\ LinksInv(chan') /\ got \in OnLink(m, w)
      /\ chan'[e] = Tail(chan[e]) /\ \A x \in Edges : x # e => chan'[x] = chan[x]
  BY <1>1, Polled DEF ReceiveRequest
<1>3. IsRequest(got) /\ recv_compute_queue' = [recv_compute_queue EXCEPT ![w] = Push(@, msg)]
  BY DEF ReceiveRequest
<1>4. /\ msg \in AtWorker(w) /\ msg.request = got.request /\ msg \in Message
      /\ msg.stage = got.stage /\ Carried(got, msg) /\ SameServers(got.route, msg.route)
      /\ IsRequest(msg)
  BY <1>2, <1>3, RequestReceived DEF AtWorker
<1> HIDE DEF msg, got, e
<1>5. OneMore(recv_compute_queue, recv_compute_queue', w, msg)
  BY <1>1, <1>3, <1>4, Pushed DEF QueuesInv
<1>6. /\ recv_compute_queue' \in [Workers -> Seq(Message)]
      /\ recv_compute_queue'[w] = Append(recv_compute_queue[w], msg)
      /\ \A v \in Workers : /\ recv_compute_queue'[v] \in Seq(AtWorker(v))
                            /\ v # w => recv_compute_queue'[v] = recv_compute_queue[v]
  <2>1. /\ recv_compute_queue' \in [Workers -> Seq(Message)]
        /\ recv_compute_queue'[w] = Append(recv_compute_queue[w], msg)
        /\ \A v \in Workers : v # w => recv_compute_queue'[v] = recv_compute_queue[v]
    BY <1>5 DEF OneMore
  <2>2. \A v \in Workers : recv_compute_queue[v] \in Seq(AtWorker(v))
    BY <1>1 DEF QueuesInv
  <2>3. recv_compute_queue'[w] \in Seq(AtWorker(w))
    BY <1>4, <2>1, <2>2
  <2> QED BY <2>1, <2>2, <2>3
<1>7. UNCHANGED <<client_vars, host_vars, requests_on_the_fly, computing, compute_send_queue, ema>>
  BY DEF ReceiveRequest
<1>8. QueuesInv'
  BY <1>1, <1>2, <1>6, <1>7 DEF QueuesInv, LinksInv, host_vars
<1>9. ClientInv' /\ BatchInv' /\ waiting' = waiting
  BY <1>1, <1>7, ClientSame, BatchSame DEF client_vars
<1>10. Once(Held', waiting) /\ Goes(p, q, 0)
  <2>1. Held \in [Places -> Seq(Message)]
    BY <1>1, HeldType
  <2>2. p \in Places /\ q \in Places /\ p # q
    BY <1>2 DEF Places
  <2>3. Flying(requests_on_the_fly', computing') = Flying(requests_on_the_fly, computing)
    BY <1>7
  <2>4. ASSUME NEW x \in Places, x # p, x # q PROVE Held'[x] = Held[x]
    BY <1>2, <1>6, <1>7, <2>3, <2>4, HeldSame DEF host_vars
  <2>5. /\ Held[p] = chan[e] /\ Held'[p] = Tail(chan[e])
        /\ Held'[q] = Append(Held[q], msg)
    BY <1>2, <1>6, HeldNow, HeldNext
  <2>6. \A x \in Places : x # p /\ x # q => Held'[x] = Held[x]
    BY <2>4
  <2> HIDE DEF p, q
  <2>7. Moved(Held, Held', p, q, msg)
    BY <1>2, <1>3, <1>4, <2>2, <2>5, <2>6 DEF Moved, got
  <2>8. Once(Held', waiting)
    BY <1>1, <1>4, <2>1, <2>2, <2>7, OnceMoved
  <2>9. \A k \in 1..(got.stage + 1) : k \in 1..Len(got.route)
    <3>1. got \in Message /\ got.stage < Len(got.route)
      BY <1>2 DEF OnLink
    <3>2. got.stage \in Nat /\ Len(got.route) \in Nat
      BY <3>1, MessageType, RouteType
    <3> QED BY <3>1, <3>2
  <2>10. Head(Held[p]) = got /\ msg.stage = got.stage + 0 /\ got.stage + Passed(p) = got.stage + 1
    <3>1. msg.stage \in Nat
      BY <1>4, MessageType
    <3> QED BY <1>4, <2>5, <3>1 DEF got, p, Passed
  <2>11. \A k \in 1..(got.stage + 1) : msg.route[k].server = got.route[k].server
    BY <1>4, <2>9 DEF SameServers
  <2>12. Goes(p, q, 0)
    BY <1>3, <1>4, <2>7, <2>10, <2>11 DEF Goes
  <2> QED BY <2>8, <2>12
<1> QED BY <1>8, <1>9, <1>10 DEF PipelineInv, MessagesInv, e

LEMMA ReceiveSwarmInfoInv ==
  ASSUME PipelineInv, NEW m \in Machines, NEW w \in Workers, ReceiveSwarmInfo(m, w)
  PROVE  PipelineInv' /\ Goes(<<"link", <<m, w>>>>, <<"compute_send_queue", w>>, 1)
<1> DEFINE e   == <<m, w>>
           got == Head(chan[e])
           msg == OnStage(got, got.stage + 1)
           p   == <<"link", e>>
           q   == <<"compute_send_queue", w>>
<1>1. ClientInv /\ QueuesInv /\ BatchInv /\ Once(Held, waiting) /\ LinksInv(chan) /\ w \in Machines
  BY DEF PipelineInv, MessagesInv, QueuesInv, LinksInv, Machines
<1>2. /\ e \in Edges /\ chan[e] # <<>> /\ LinksInv(chan') /\ got \in OnLink(m, w)
      /\ chan'[e] = Tail(chan[e]) /\ \A x \in Edges : x # e => chan'[x] = chan[x]
  BY <1>1, Polled DEF ReceiveSwarmInfo
<1>3. ~IsRequest(got) /\ compute_send_queue' = [compute_send_queue EXCEPT ![w] = Push(@, msg)]
  BY DEF ReceiveSwarmInfo, OnStage
<1>4. msg \in AtSender(w) /\ ~IsRequest(msg) /\ msg \in Message
  BY <1>2, <1>3, InfoReceived DEF AtSender
<1> HIDE DEF msg, got, e
<1>5. OneMore(compute_send_queue, compute_send_queue', w, msg)
  BY <1>1, <1>3, <1>4, Pushed DEF QueuesInv
<1>6. /\ compute_send_queue' \in [Workers -> Seq(Message)]
      /\ compute_send_queue'[w] = Append(compute_send_queue[w], msg)
      /\ \A v \in Workers : /\ compute_send_queue'[v] \in Seq(AtSender(v))
                            /\ v # w => compute_send_queue'[v] = compute_send_queue[v]
  <2>1. /\ compute_send_queue' \in [Workers -> Seq(Message)]
        /\ compute_send_queue'[w] = Append(compute_send_queue[w], msg)
        /\ \A v \in Workers : v # w => compute_send_queue'[v] = compute_send_queue[v]
    BY <1>5 DEF OneMore
  <2>2. \A v \in Workers : compute_send_queue[v] \in Seq(AtSender(v))
    BY <1>1 DEF QueuesInv
  <2>3. compute_send_queue'[w] \in Seq(AtSender(w))
    BY <1>4, <2>1, <2>2
  <2> QED BY <2>1, <2>2, <2>3
<1>7. UNCHANGED <<client_vars, host_vars, recv_compute_queue, requests_on_the_fly, computing, ema>>
  BY DEF ReceiveSwarmInfo
<1>8. QueuesInv'
  BY <1>1, <1>2, <1>6, <1>7 DEF QueuesInv, LinksInv, host_vars
<1>9. ClientInv' /\ BatchInv' /\ waiting' = waiting
  BY <1>1, <1>7, ClientSame, BatchSame DEF client_vars
<1>10. Once(Held', waiting) /\ Goes(p, q, 1)
  <2>1. Held \in [Places -> Seq(Message)]
    BY <1>1, HeldType
  <2>2. p \in Places /\ q \in Places /\ p # q
    BY <1>2 DEF Places
  <2>3. Flying(requests_on_the_fly', computing') = Flying(requests_on_the_fly, computing)
    BY <1>7
  <2>4. ASSUME NEW x \in Places, x # p, x # q PROVE Held'[x] = Held[x]
    BY <1>2, <1>6, <1>7, <2>3, <2>4, HeldSame DEF host_vars
  <2>5. /\ Held[p] = chan[e] /\ Held'[p] = Tail(chan[e])
        /\ Held'[q] = Append(Held[q], msg)
    BY <1>2, <1>6, HeldNow, HeldNext
  <2>6. \A x \in Places : x # p /\ x # q => Held'[x] = Held[x]
    BY <2>4
  <2> HIDE DEF p, q
  <2>7. Moved(Held, Held', p, q, msg)
    BY <1>2, <1>4, <2>2, <2>5, <2>6 DEF Moved
  <2>8. Once(Held', waiting)
    BY <1>1, <1>4, <2>1, <2>2, <2>7, OnceMoved
  <2>9. Goes(p, q, 1)
    BY <1>3, <1>4, <2>5, <2>7 DEF Goes, got
  <2> QED BY <2>8, <2>9
<1> QED BY <1>8, <1>9, <1>10 DEF PipelineInv, MessagesInv, e

LEMMA GatherRequestInv ==
  ASSUME PipelineInv, NEW m \in Machines, GatherRequest(m)
  PROVE  /\ PipelineInv' /\ UNCHANGED waiting
         /\ Goes(<<"link", <<m, Host>>>>, <<"finish_queue", Host>>, 0)
         /\ \E r \in Requests :
              /\ r \in Ids(chan[<<m, Host>>]) /\ <<m, Host>> \in Edges
              /\ \E msg \in Answered : msg.request = r /\ finish_queue' = Append(finish_queue, msg)
<1> DEFINE e   == <<m, Host>>
           msg == Head(chan[e])
           p   == <<"link", e>>
           q   == <<"finish_queue", Host>>
<1>1. ClientInv /\ QueuesInv /\ BatchInv /\ Once(Held, waiting) /\ LinksInv(chan) /\ Host \in Machines
  BY DEF PipelineInv, MessagesInv, QueuesInv, LinksInv, Machines
<1>2. /\ e \in Edges /\ chan[e] # <<>> /\ LinksInv(chan') /\ msg \in OnLink(m, Host)
      /\ chan'[e] = Tail(chan[e]) /\ \A x \in Edges : x # e => chan'[x] = chan[x]
  BY <1>1, Polled DEF GatherRequest
<1>3. IsRequest(msg) /\ msg \in Answered /\ msg \in Message
  BY <1>2, RequestAnswered DEF Answered
<1>4. /\ finish_queue' = Append(finish_queue, msg)
      /\ gather_info' = IF Scheduler = "swarm" THEN <<SwarmInfo(msg)>> ELSE <<>>
  BY DEF GatherRequest, Push
<1>5. msg.request \in Requests /\ msg.request \in Ids(chan[e])
  <2>1. chan[e] \in Seq(Message)
    BY <1>2, <1>1 DEF LinksInv
  <2>2. 1 \in DOMAIN chan[e] /\ Head(chan[e]) = chan[e][1]
    BY <1>2, <2>1, NotEmpty
  <2> QED BY <1>3, <2>2, IdsOf, MessageType
<1> HIDE DEF msg, e
<1>6. finish_queue' \in Seq(Answered)
  BY <1>1, <1>3, <1>4 DEF QueuesInv
<1>7. /\ gather_info' \in Seq(AtSender(Host))
      /\ \A i \in DOMAIN gather_info' : ~IsRequest(gather_info'[i])
  <2>1. CASE Scheduler = "swarm"
    <3> DEFINE info == SwarmInfo(msg)
    <3>1. info \in AtSender(Host) /\ ~IsRequest(info)
      BY <1>3, <2>1, InfoMade
    <3>2. gather_info' = <<info>>
      BY <1>4, <2>1
    <3> HIDE DEF info
    <3> QED BY <3>1, <3>2
  <2>2. CASE Scheduler # "swarm"
    BY <1>4, <2>2
  <2> QED BY <2>1, <2>2
<1>8. UNCHANGED <<client_vars, launch_queue, recv_compute_queue, requests_on_the_fly, computing,
                  compute_send_queue, ema>>
  BY DEF GatherRequest, worker_vars
<1>9. QueuesInv'
  BY <1>1, <1>2, <1>6, <1>7, <1>8 DEF QueuesInv, LinksInv
<1>10. ClientInv' /\ BatchInv' /\ waiting' = waiting
  BY <1>1, <1>8, ClientSame, BatchSame DEF client_vars
<1>11. Once(Held', waiting) /\ Goes(p, q, 0)
  <2>1. Held \in [Places -> Seq(Message)]
    BY <1>1, HeldType
  <2>2. p \in Places /\ q \in Places /\ p # q
    BY <1>2 DEF Places
  <2>3. Flying(requests_on_the_fly', computing') = Flying(requests_on_the_fly, computing)
    BY <1>8
  <2>4. ASSUME NEW x \in Places, x # p, x # q PROVE Held'[x] = Held[x]
    BY <1>2, <1>8, <2>3, <2>4, HeldSame
  <2>5. /\ Held[p] = chan[e] /\ Held'[p] = Tail(chan[e])
        /\ Held'[q] = Append(Held[q], msg)
    BY <1>2, <1>4, HeldNow, HeldNext
  <2>6. \A x \in Places : x # p /\ x # q => Held'[x] = Held[x]
    BY <2>4
  <2> HIDE DEF p, q
  <2>7. Moved(Held, Held', p, q, msg)
    BY <1>2, <1>3, <2>2, <2>5, <2>6 DEF Moved, msg
  <2>8. Once(Held', waiting)
    BY <1>1, <1>3, <2>1, <2>2, <2>7, OnceMoved
  <2>9. Head(Held[p]) = msg /\ msg.stage = msg.stage + 0
    <3>1. msg.stage \in Nat
      BY <1>3, MessageType
    <3> QED BY <2>5, <3>1 DEF msg
  <2>10. Goes(p, q, 0)
    BY <1>3, <2>7, <2>9, CarriedSame DEF Goes
  <2> QED BY <2>8, <2>10
<1> QED BY <1>2, <1>3, <1>4, <1>5, <1>9, <1>10, <1>11 DEF PipelineInv, MessagesInv, e

-------------------------------------------------------------------------------
(* The other steps.                                                        *)

LEMMA BreakLinkInv ==
  ASSUME PipelineInv, NEW e \in Edges, BreakLink(e)
  PROVE  PipelineInv' /\ CutShort(<<"link", e>>)
<1> DEFINE p == <<"link", e>>
<1>1. ClientInv /\ QueuesInv /\ BatchInv /\ Once(Held, waiting) /\ LinksInv(chan)
  BY DEF PipelineInv, MessagesInv, QueuesInv, LinksInv
<1>2. PICK kept \in 0..Len(chan[e]) : chan' = [chan EXCEPT ![e] = SubSeq(@, 1, kept)]
  BY DEF BreakLink
<1> DEFINE rest == SubSeq(chan[e], 1, kept)
<1>3. chan[e] \in Seq(Message) /\ chan[e] \in Seq(OnLink(e[1], e[2]))
  BY <1>1 DEF LinksInv
<1>4. rest \in Seq(Message) /\ rest \in Seq(OnLink(e[1], e[2]))
  BY <1>3, PrefixIn
<1>5. Len(rest) + 0 <= Len(chan[e]) /\ 0 \in Nat /\ \A i \in 1..Len(rest) : rest[i] = chan[e][i + 0]
  BY <1>3
<1>6. chan' = [chan EXCEPT ![e] = rest]
  BY <1>2
<1> HIDE DEF rest
<1>7. /\ chan'[e] = rest /\ \A x \in Edges : x # e => chan'[x] = chan[x]
      /\ chan' \in [Edges -> Seq(Message)]
  BY <1>1, <1>4, <1>6 DEF LinksInv
<1>8. ASSUME NEW x \in Edges PROVE chan'[x] \in Seq(OnLink(x[1], x[2]))
  <2>1. CASE x = e
    BY <1>4, <1>7, <2>1
  <2>2. CASE x # e
    BY <1>1, <1>7, <2>2 DEF LinksInv
  <2> QED BY <2>1, <2>2
<1>9. UNCHANGED <<client_vars, host_vars, recv_compute_queue, requests_on_the_fly, computing,
                  compute_send_queue, ema>>
  BY DEF BreakLink, worker_vars
<1>10. QueuesInv'
  BY <1>1, <1>7, <1>8, <1>9 DEF QueuesInv, host_vars
<1>11. ClientInv' /\ BatchInv' /\ waiting' = waiting
  BY <1>1, <1>9, ClientSame, BatchSame DEF client_vars
<1>12. Once(Held', waiting) /\ CutShort(p)
  <2>1. p \in Places /\ Held[p] = chan[e] /\ Held'[p] = rest
    BY <1>7, HeldNow, HeldNext DEF Places
  <2>2. Flying(requests_on_the_fly', computing') = Flying(requests_on_the_fly, computing)
    BY <1>9
  <2>3. ASSUME NEW x \in Places, x # p PROVE Held'[x] = Held[x]
    BY <1>7, <1>9, <2>2, <2>3, HeldSame DEF host_vars
  <2> HIDE DEF p
  <2>4. Distinct(chan[e])
    BY <1>1, <2>1 DEF Once
  <2>5. Distinct(rest) /\ Ids(rest) \subseteq Ids(chan[e])
    BY <1>3, <1>4, <1>5, <2>4, PartIds
  <2>6. Once(Held', waiting)
    BY <1>1, <2>1, <2>3, <2>5, OnceLess
  <2>7. CutShort(p)
    BY <2>1, <2>3 DEF CutShort, rest
  <2> QED BY <2>6, <2>7
<1> QED BY <1>10, <1>11, <1>12 DEF PipelineInv, MessagesInv

LEMMA SameInv ==
  ASSUME PipelineInv,
         UNCHANGED <<client_vars, host_vars, worker_vars, chan, ema>>
  PROVE  PipelineInv' /\ Held' = Held
<1>1. ClientInv /\ QueuesInv /\ BatchInv /\ Once(Held, waiting)
  BY DEF PipelineInv, MessagesInv
<1>2. ClientInv' /\ BatchInv'
  BY <1>1, ClientSame, BatchSame DEF worker_vars
<1>3. QueuesInv'
  BY <1>1 DEF QueuesInv, host_vars, worker_vars
<1>4. Held' = Held /\ waiting' = waiting
  BY DEF Held, host_vars, worker_vars, client_vars
<1> QED BY <1>1, <1>2, <1>3, <1>4 DEF PipelineInv, MessagesInv

LEMMA GatherPushInfoInv ==
  ASSUME PipelineInv, GatherPushInfo
  PROVE  PipelineInv' /\ \E msg \in Message : ~IsRequest(msg) /\ Enters(msg)
<1> DEFINE msg == Head(gather_info)
           p   == <<"launch_queue", Host>>
<1>1. ClientInv /\ QueuesInv /\ BatchInv /\ Once(Held, waiting)
  BY DEF PipelineInv, MessagesInv
<1>2. msg \in AtSender(Host) /\ ~IsRequest(msg) /\ msg \in Message
  <2>1. gather_info \in Seq(AtSender(Host)) /\ gather_info # <<>>
    BY <1>1 DEF GatherPushInfo, QueuesInv
  <2>2. 1 \in DOMAIN gather_info /\ Head(gather_info) = gather_info[1]
    BY <2>1, NotEmpty
  <2> QED BY <1>1, <2>1, <2>2, HeadTail DEF QueuesInv, AtSender
<1>3. launch_queue' = Append(launch_queue, msg) /\ gather_info' = <<>>
  BY DEF GatherPushInfo, Push
<1>4. UNCHANGED <<client_vars, finish_queue, recv_compute_queue, requests_on_the_fly, computing,
                  compute_send_queue, chan, ema>>
  BY DEF GatherPushInfo, worker_vars, links
<1> HIDE DEF msg
<1>5. launch_queue' \in Seq(AtSender(Host)) /\ launch_queue \in Seq(Message)
  BY <1>1, <1>2, <1>3, SeqOfMore DEF QueuesInv, AtSender
<1>6. QueuesInv'
  BY <1>1, <1>3, <1>4, <1>5 DEF QueuesInv
<1>7. ClientInv' /\ BatchInv' /\ waiting' = waiting
  BY <1>1, <1>4, ClientSame, BatchSame DEF client_vars
<1>8. Once(Held', waiting) /\ Enters(msg)
  <2>1. p \in Places /\ Held[p] = launch_queue /\ Held'[p] = Append(launch_queue, msg)
    BY <1>3, HeldNow, HeldNext DEF Places
  <2>2. Flying(requests_on_the_fly', computing') = Flying(requests_on_the_fly, computing)
    BY <1>4
  <2>3. ASSUME NEW x \in Places, x # p PROVE Held'[x] = Held[x]
    BY <1>4, <2>2, <2>3, HeldSame
  <2> HIDE DEF p
  <2>4. Distinct(launch_queue)
    BY <1>1, <2>1 DEF Once
  <2>5. Distinct(Append(launch_queue, msg)) /\ Ids(Append(launch_queue, msg)) \subseteq Ids(launch_queue)
    BY <1>2, <1>5, <2>4, PushIds
  <2>6. Once(Held', waiting)
    BY <1>1, <2>1, <2>3, <2>5, OnceLess
  <2>7. Enters(msg)
    BY <2>1, <2>3 DEF Enters, p
  <2> QED BY <2>6, <2>7
<1> QED BY <1>2, <1>6, <1>7, <1>8 DEF PipelineInv, MessagesInv

LEMMA LaunchInv ==
  ASSUME PipelineInv, NEW r \in Requests, NEW type \in {"Prompt", "Decode"}, LaunchRequest(r, type)
  PROVE  /\ PipelineInv'
         /\ \E route \in LaunchRoutes(type, r) :
              Enters([type |-> type, request |-> r, creation_time |-> CreationTime, stage |-> 0,
                      route |-> route, buf |-> "tokens"])
<1> DEFINE p == <<"launch_queue", Host>>
<1>1. ClientInv /\ QueuesInv /\ BatchInv /\ Once(Held, waiting)
  BY DEF PipelineInv, MessagesInv
<1>2. /\ r \notin waiting
      /\ type = "Decode" => Scheduler = "maxflow" \/ launched[r] > 0
      /\ launched' = [launched EXCEPT ![r] = @ + 1] /\ waiting' = waiting \union {r}
  BY DEF LaunchRequest
<1>3. PICK route \in LaunchRoutes(type, r) :
        launch_queue' = Push(launch_queue,
          [type |-> type, request |-> r, creation_time |-> CreationTime, stage |-> 0,
           route |-> route, buf |-> "tokens"])
  BY DEF LaunchRequest
<1> DEFINE msg == [type |-> type, request |-> r, creation_time |-> CreationTime, stage |-> 0,
                   route |-> route, buf |-> "tokens"]
<1>4. msg \in AtSender(Host) /\ msg \in Message /\ msg.request = r
  <2>1. msg \in AtSender(Host)
    BY <1>1, <1>2, RequestLaunched
  <2> QED BY <2>1 DEF AtSender
<1>5. launch_queue' = Append(launch_queue, msg)
  BY <1>3 DEF Push
<1> HIDE DEF msg
<1>6. UNCHANGED <<saved_routing_dict, finish_queue, gather_info, recv_compute_queue,
                  requests_on_the_fly, computing, compute_send_queue, chan, ema>>
  BY DEF LaunchRequest, worker_vars, links
<1>7. launch_queue' \in Seq(AtSender(Host))
  BY <1>1, <1>4, <1>5 DEF QueuesInv
<1>8. QueuesInv'
  BY <1>1, <1>6, <1>7 DEF QueuesInv
<1>9. ClientInv'
  <2>1. launched' \in [Requests -> Nat] /\ \A x \in Requests : x # r => launched'[x] = launched[x]
    BY <1>1, <1>2 DEF ClientInv
  <2>2. waiting' \in SUBSET Requests
    BY <1>1, <1>2 DEF ClientInv
  <2> QED BY <1>1, <1>2, <1>6, <2>1, <2>2 DEF ClientInv
<1>10. BatchInv'
  BY <1>1, <1>6, BatchSame
<1>11. Once(Held', waiting \union {r}) /\ Enters(msg)
  <2>1. p \in Places /\ Held'[p] = Append(Held[p], msg)
    BY <1>5, HeldNow, HeldNext DEF Places
  <2>2. Flying(requests_on_the_fly', computing') = Flying(requests_on_the_fly, computing)
    BY <1>6
  <2>3. ASSUME NEW x \in Places, x # p PROVE Held'[x] = Held[x]
    BY <1>6, <2>2, <2>3, HeldSame
  <2>4. Held \in [Places -> Seq(Message)]
    BY <1>1, HeldType
  <2>5. \A x \in Places : x # p => Held'[x] = Held[x]
    BY <2>3
  <2> HIDE DEF p
  <2>6. Once(Held', waiting \union {r})
    BY <1>1, <1>2, <1>4, <2>1, <2>4, <2>5, OnceNew
  <2>7. Enters(msg)
    BY <2>1, <2>5 DEF Enters, p
  <2> QED BY <2>6, <2>7
<1>12. PipelineInv'
  BY <1>2, <1>8, <1>9, <1>10, <1>11 DEF PipelineInv, MessagesInv
<1> QED BY <1>11, <1>12 DEF msg

\* In a queue of requests, all different, the last of an id is the only one.
LEMMA LastIs ==
  ASSUME NEW q, Distinct(q), \A i \in DOMAIN q : IsRequest(q[i]),
         NEW r, NEW i \in DOMAIN q, q[i].request = r, DOMAIN q \subseteq Nat
  PROVE  LastMessage(q, r) = q[i]
<1> DEFINE IsLastOne(k) == q[k].request = r /\ \A j \in DOMAIN q : q[j].request = r => j <= k
<1>1. \A j \in DOMAIN q : q[j].request = r => j = i
  BY DEF Distinct
<1>2. i <= i
  OBVIOUS
<1>3. IsLastOne(i)
  BY <1>1, <1>2
<1>4. LastMessage(q, r) = q[CHOOSE k \in DOMAIN q : IsLastOne(k)]
  BY Zenon DEF LastMessage
<1>5. \A k \in DOMAIN q : IsLastOne(k) => k = i
  BY <1>1
<1> HIDE DEF IsLastOne
<1>6. (CHOOSE k \in DOMAIN q : IsLastOne(k)) = i
  BY <1>3, <1>5
<1> QED BY <1>4, <1>6

LEMMA AllIds ==
  ASSUME NEW q, \A i \in DOMAIN q : IsRequest(q[i])
  PROVE  RequestsIn(q) = Ids(q)
BY DEF RequestsIn, Ids

LEMMA GatherFinishedInv ==
  ASSUME PipelineInv, GatherFinished
  PROVE  /\ PipelineInv' /\ FinishedRequests = Ids(finish_queue)
         /\ Emptied(<<"finish_queue", Host>>)
         /\ \A i \in DOMAIN finish_queue :
              /\ IsRequest(finish_queue[i])
              /\ LastMessage(finish_queue, finish_queue[i].request) = finish_queue[i]
<1> DEFINE p == <<"finish_queue", Host>>
<1>1. ClientInv /\ QueuesInv /\ BatchInv /\ Once(Held, waiting)
  BY DEF PipelineInv, MessagesInv
<1>2. /\ finish_queue' = <<>> /\ waiting' = waiting \ FinishedRequests
      /\ UNCHANGED <<launched, launch_queue, gather_info, recv_compute_queue,
                     requests_on_the_fly, computing, compute_send_queue, chan, ema>>
  BY DEF GatherFinished, worker_vars, links
<1>3. finish_queue \in Seq(Answered) /\ DOMAIN finish_queue \subseteq Nat
  BY <1>1 DEF QueuesInv
<1>4. \A i \in DOMAIN finish_queue : finish_queue[i] \in Answered /\ IsRequest(finish_queue[i])
  BY <1>3, ElementIn DEF Answered
<1>5. FinishedRequests = Ids(finish_queue)
  BY <1>4, AllIds DEF FinishedRequests
<1>6. p \in Places /\ Held[p] = finish_queue /\ Held'[p] = <<>>
  BY <1>2, HeldNow, HeldNext DEF Places
<1>7. Distinct(finish_queue)
  BY <1>1, <1>6 DEF Once
<1>8. ASSUME NEW r \in FinishedRequests PROVE LastMessage(finish_queue, r) \in Answered
  <2>1. PICK i \in DOMAIN finish_queue : finish_queue[i].request = r
    BY <1>5, <1>8, IdsOf
  <2>2. LastMessage(finish_queue, r) = finish_queue[i]
    BY <1>3, <1>4, <1>7, <2>1, LastIs
  <2> QED BY <1>4, <2>2
<1>9. ClientInv'
  <2> DEFINE kept(r) == SavedRoute(LastMessage(finish_queue, r))
  <2>1. launched' \in [Requests -> Nat] /\ waiting' \in SUBSET Requests
    BY <1>1, <1>2 DEF ClientInv
  <2>2. CASE Scheduler = "maxflow"
    <3>1. saved_routing_dict' = saved_routing_dict
      BY <2>2 DEF GatherFinished
    <3> QED BY <1>1, <2>1, <2>2, <3>1 DEF ClientInv
  <2>3. CASE Scheduler # "maxflow"
    <3>1. saved_routing_dict' =
            [r \in Requests |-> IF r \in FinishedRequests THEN kept(r) ELSE saved_routing_dict[r]]
      BY <2>3 DEF GatherFinished
    <3>2. \A r \in FinishedRequests : kept(r) \in Routes /\ kept(r) # <<>> /\ FullRoute(kept(r))
      BY <1>8, RouteSaved
    <3> HIDE DEF kept
    <3>3. \A r \in Requests :
            saved_routing_dict'[r] = IF r \in FinishedRequests THEN kept(r) ELSE saved_routing_dict[r]
      BY <3>1
    <3>4. saved_routing_dict' \in [Requests -> Routes]
      BY <1>1, <3>1, <3>2 DEF ClientInv
    <3>5. ASSUME NEW r \in Requests
          PROVE  /\ saved_routing_dict'[r] # <<>> => FullRoute(saved_routing_dict'[r])
                 /\ launched'[r] > 0 /\ r \notin waiting' => saved_routing_dict'[r] # <<>>
      <4>1. CASE r \in FinishedRequests
        BY <3>2, <3>3, <4>1
      <4>2. CASE r \notin FinishedRequests
        BY <1>1, <1>2, <2>3, <3>3, <4>2 DEF ClientInv
      <4> QED BY <4>1, <4>2
    <3> QED BY <2>1, <3>4, <3>5 DEF ClientInv
  <2> QED BY <2>2, <2>3
<1>10. BatchInv'
  BY <1>1, <1>2, BatchSame
<1>11. QueuesInv'
  BY <1>1, <1>2 DEF QueuesInv
<1>12. Once(Held', waiting \ Ids(finish_queue)) /\ Emptied(p)
  <2>1. Flying(requests_on_the_fly', computing') = Flying(requests_on_the_fly, computing)
    BY <1>2
  <2>2. ASSUME NEW x \in Places, x # p PROVE Held'[x] = Held[x]
    BY <1>2, <2>1, <2>2, HeldSame
  <2>3. \A x \in Places : x # p => Held'[x] = Held[x]
    BY <2>2
  <2> HIDE DEF p
  <2>4. Once(Held', waiting \ Ids(finish_queue))
    BY <1>1, <1>6, <2>3, OnceEmptied
  <2>5. Emptied(p)
    BY <1>6, <2>3 DEF Emptied
  <2> QED BY <2>4, <2>5
<1>13. ASSUME NEW i \in DOMAIN finish_queue
       PROVE  LastMessage(finish_queue, finish_queue[i].request) = finish_queue[i]
  BY <1>3, <1>4, <1>7, LastIs
<1>14. PipelineInv'
  BY <1>2, <1>5, <1>9, <1>10, <1>11, <1>12 DEF PipelineInv, MessagesInv
<1> QED BY <1>4, <1>5, <1>12, <1>13, <1>14

-------------------------------------------------------------------------------
(* The compute thread.                                                     *)

LEMMA FetchInv ==
  ASSUME PipelineInv, NEW w \in Workers, Fetch(w)
  PROVE  PipelineInv' /\ GoTogether(<<"recv_compute_queue", w>>, <<"on_the_fly", w>>)
<1> DEFINE batch == recv_compute_queue[w]
           p     == <<"recv_compute_queue", w>>
           q     == <<"on_the_fly", w>>
<1>1. ClientInv /\ QueuesInv /\ BatchInv /\ Once(Held, waiting)
  BY DEF PipelineInv, MessagesInv
<1>2. /\ computing[w] = <<>>
      /\ computing' = [computing EXCEPT ![w] = [i \in DOMAIN batch |-> batch[i].request]]
      /\ requests_on_the_fly' = [requests_on_the_fly EXCEPT ![w] =
           [r \in Requests |-> IF r \in RequestsIn(batch) THEN LastMessage(batch, r)
                                                          ELSE requests_on_the_fly[w][r]]]
      /\ recv_compute_queue' = [recv_compute_queue EXCEPT ![w] = <<>>]
      /\ UNCHANGED <<client_vars, host_vars, compute_send_queue, chan, ema>>
  BY DEF Fetch, links
<1>3. /\ batch \in Seq(AtWorker(w)) /\ batch \in Seq(Message) /\ DOMAIN batch \subseteq Nat
      /\ DOMAIN batch = 1..Len(batch) /\ Len(batch) \in Nat
  BY <1>1 DEF QueuesInv
<1> HIDE DEF batch
<1>4. \A i \in DOMAIN batch : /\ batch[i] \in AtWorker(w) /\ batch[i] \in Message
                              /\ IsRequest(batch[i]) /\ batch[i].request \in Requests
  BY <1>3, ElementIn, MessageType DEF AtWorker
<1>5. /\ p \in Places /\ q \in Places /\ p # q /\ Held[p] = batch
  BY HeldNow DEF Places, batch
<1>6. Distinct(batch) /\ RequestsIn(batch) = Ids(batch)
  BY <1>1, <1>4, <1>5, AllIds DEF Once
<1>7. ASSUME NEW i \in DOMAIN batch PROVE LastMessage(batch, batch[i].request) = batch[i]
  BY <1>3, <1>4, <1>6, LastIs
<1> DEFINE ids == [i \in DOMAIN batch |-> batch[i].request]
           fly == [r \in Requests |-> IF r \in RequestsIn(batch) THEN LastMessage(batch, r)
                                                                 ELSE requests_on_the_fly[w][r]]
<1>8. ids \in Seq(Requests) /\ DOMAIN ids = DOMAIN batch /\ Len(ids) = Len(batch)
      /\ \A i \in DOMAIN batch : ids[i] = batch[i].request
  BY <1>3, <1>4
<1>9. ASSUME NEW i \in DOMAIN batch PROVE fly[ids[i]] = batch[i]
  <2>1. batch[i].request \in RequestsIn(batch)
    BY DEF RequestsIn
  <2> QED BY <1>4, <1>7, <1>8, <2>1
<1>10. ASSUME NEW r \in Requests
       PROVE  /\ fly[r] \in Message \union {NoMessage}
              /\ fly[r] # NoMessage => \E i \in DOMAIN batch : ids[i] = r
  <2>1. CASE r \in RequestsIn(batch)
    <3>1. PICK i \in DOMAIN batch : batch[i].request = r
      BY <2>1 DEF RequestsIn
    <3> QED BY <1>4, <1>8, <1>9, <3>1
  <2>2. CASE r \notin RequestsIn(batch)
    <3>1. fly[r] = requests_on_the_fly[w][r]
      BY <2>2
    <3>2. requests_on_the_fly[w][r] \in Message \union {NoMessage}
      BY <1>1 DEF BatchInv
    <3>3. requests_on_the_fly[w][r] = NoMessage
      BY <1>1, <1>2 DEF BatchInv, OnTheFly
    <3> QED BY <3>1, <3>2, <3>3
  <2> QED BY <2>1, <2>2
<1>11. fly \in [Requests -> Message \union {NoMessage}]
  <2>1. fly = [r \in Requests |-> fly[r]]
    OBVIOUS
  <2> HIDE DEF fly
  <2> QED BY <1>10, <2>1
<1>12. /\ computing' = [computing EXCEPT ![w] = ids]
       /\ requests_on_the_fly' = [requests_on_the_fly EXCEPT ![w] = fly]
  BY <1>2
<1> HIDE DEF ids, fly
<1>13. /\ computing' \in [Workers -> Seq(Requests)] /\ computing'[w] = ids
       /\ \A v \in Workers : v # w => computing'[v] = computing[v]
       /\ requests_on_the_fly' \in [Workers -> [Requests -> Message \union {NoMessage}]]
       /\ requests_on_the_fly'[w] = fly
       /\ \A v \in Workers : v # w => requests_on_the_fly'[v] = requests_on_the_fly[v]
  BY <1>1, <1>8, <1>11, <1>12 DEF BatchInv
<1>14. BatchInv'
  <2>1. ASSUME NEW v \in Workers
        PROVE  /\ \A i \in DOMAIN computing'[v] :
                    /\ requests_on_the_fly'[v][computing'[v][i]] \in AtWorker(v)
                    /\ requests_on_the_fly'[v][computing'[v][i]].request = computing'[v][i]
               /\ \A r \in Requests : requests_on_the_fly'[v][r] # NoMessage =>
                    \E i \in DOMAIN computing'[v] : computing'[v][i] = r
    <3>1. CASE v = w
      BY <1>4, <1>8, <1>9, <1>10, <1>13, <3>1
    <3>2. CASE v # w
      BY <1>1, <1>13, <3>2 DEF BatchInv, OnTheFly
    <3> QED BY <3>1, <3>2
  <2> QED BY <1>13, <2>1 DEF BatchInv, OnTheFly
<1>15. /\ recv_compute_queue' \in [Workers -> Seq(Message)] /\ recv_compute_queue'[w] = <<>>
       /\ \A v \in Workers : v # w => recv_compute_queue'[v] = recv_compute_queue[v]
  BY <1>1, <1>2 DEF QueuesInv
<1>16. ASSUME NEW v \in Workers PROVE recv_compute_queue'[v] \in Seq(AtWorker(v))
  <2>1. <<>> \in Seq(AtWorker(v))
    OBVIOUS
  <2>2. recv_compute_queue[v] \in Seq(AtWorker(v))
    BY <1>1 DEF QueuesInv
  <2> QED BY <1>15, <2>1, <2>2
<1>17. QueuesInv'
  BY <1>1, <1>2, <1>15, <1>16 DEF QueuesInv, host_vars
<1>18. ClientInv' /\ waiting' = waiting
  BY <1>1, <1>2, ClientSame DEF client_vars
<1>19. Once(Held', waiting) /\ GoTogether(p, q)
  <2>1. Flying(requests_on_the_fly', computing')[w] = batch
    <3>1. Flying(requests_on_the_fly', computing')[w] = [i \in DOMAIN ids |-> fly[ids[i]]]
      BY <1>13 DEF Flying
    <3>2. [i \in DOMAIN ids |-> fly[ids[i]]] = [i \in DOMAIN batch |-> batch[i]]
      BY <1>8, <1>9
    <3>3. [i \in DOMAIN batch |-> batch[i]] = batch
      BY <1>3
    <3> QED BY <3>1, <3>2, <3>3
  <2>2. ASSUME NEW v \in Workers, v # w
        PROVE  Flying(requests_on_the_fly', computing')[v] = Flying(requests_on_the_fly, computing)[v]
    BY <1>13, <2>2 DEF Flying
  <2>3. ASSUME NEW x \in Places, x # p, x # q PROVE Held'[x] = Held[x]
    BY <1>2, <1>15, <2>2, <2>3, HeldSame DEF host_vars
  <2>4. Held'[p] = <<>> /\ Held'[q] = batch
    BY <1>15, <2>1, HeldNext
  <2>5. \A x \in Places : x # p /\ x # q => Held'[x] = Held[x]
    BY <2>3
  <2>6. Held[q] = <<>>
    <3>1. Flying(requests_on_the_fly, computing)[w] = <<>>
      BY <1>2 DEF Flying
    <3> QED BY <3>1, HeldNow
  <2> HIDE DEF p, q
  <2>7. Once(Held', waiting)
    BY <1>1, <1>5, <1>6, <2>4, <2>5, OnceAll
  <2>8. GoTogether(p, q)
    BY <1>5, <2>4, <2>5, <2>6 DEF GoTogether
  <2> QED BY <2>7, <2>8
<1> QED BY <1>14, <1>17, <1>18, <1>19 DEF PipelineInv, MessagesInv

LEMMA SubmitInv ==
  ASSUME PipelineInv, NEW w \in Workers, Submit(w)
  PROVE  /\ PipelineInv' /\ Goes(<<"on_the_fly", w>>, <<"compute_send_queue", w>>, 1)
         /\ requests_on_the_fly[w][Head(computing[w])] = Head(Held[<<"on_the_fly", w>>])
         /\ Held[<<"on_the_fly", w>>] # <<>>
         /\ requests_on_the_fly[w][Head(computing[w])] \in AtWorker(w)
         /\ requests_on_the_fly[w][Head(computing[w])].request = Head(computing[w])
<1> DEFINE r   == Head(computing[w])
           got == requests_on_the_fly[w][r]
           msg == Computed(w, got)
           p   == <<"on_the_fly", w>>
           q   == <<"compute_send_queue", w>>
           flying  == Flying(requests_on_the_fly, computing)
           flying_ == Flying(requests_on_the_fly', computing')
<1>1. ClientInv /\ QueuesInv /\ BatchInv /\ Once(Held, waiting)
  BY DEF PipelineInv, MessagesInv
<1>2. /\ computing[w] # <<>>
      /\ compute_send_queue' = [compute_send_queue EXCEPT ![w] = Push(@, msg)]
      /\ requests_on_the_fly' = [requests_on_the_fly EXCEPT ![w][r] = NoMessage]
      /\ computing' = [computing EXCEPT ![w] = Tail(@)]
      /\ UNCHANGED <<client_vars, host_vars, recv_compute_queue, chan, ema>>
  <2>1. computing[w] # <<>> /\ computing' = [computing EXCEPT ![w] = Tail(@)]
    BY Zenon DEF Submit
  <2>2. compute_send_queue' = [compute_send_queue EXCEPT ![w] = Push(@, msg)]
    BY Zenon DEF Submit, Computed
  <2>3. requests_on_the_fly' = [requests_on_the_fly EXCEPT ![w][r] = NoMessage]
    BY Zenon DEF Submit
  <2>4. UNCHANGED <<client_vars, host_vars, recv_compute_queue, chan, ema>>
    BY Zenon DEF Submit, links
  <2> QED BY <2>1, <2>2, <2>3, <2>4
<1>3. /\ computing[w] \in Seq(Requests) /\ Len(computing[w]) \in Nat /\ 1 <= Len(computing[w])
      /\ DOMAIN computing[w] = 1..Len(computing[w]) /\ 1 \in DOMAIN computing[w]
      /\ r = computing[w][1] /\ r \in Requests
      /\ Tail(computing[w]) \in Seq(Requests)
      /\ DOMAIN Tail(computing[w]) = 1..(Len(computing[w]) - 1)
      /\ \A i \in DOMAIN Tail(computing[w]) : Tail(computing[w])[i] = computing[w][i + 1]
  <2>1. computing[w] \in Seq(Requests)
    BY <1>1 DEF BatchInv
  <2> QED BY <1>2, <2>1, NotEmpty
<1>4. got \in AtWorker(w) /\ got.request = r
  BY <1>1, <1>3 DEF BatchInv
<1>5. /\ msg \in AtSender(w) /\ IsRequest(msg) /\ msg.request = r /\ msg \in Message /\ IsRequest(got)
      /\ msg.stage = got.stage + 1 /\ msg.route = got.route /\ Carried(got, msg)
  BY <1>4, RequestSubmitted DEF AtSender, AtWorker
<1>6. /\ flying \in [Workers -> Seq(Message)] /\ DOMAIN flying[w] = DOMAIN computing[w]
      /\ \A i \in DOMAIN computing[w] :
           /\ flying[w][i] = requests_on_the_fly[w][computing[w][i]]
           /\ flying[w][i].request = computing[w][i] /\ IsRequest(flying[w][i])
  BY <1>1, FlyingType
<1>7. /\ p \in Places /\ q \in Places /\ p # q /\ Held[p] = flying[w]
      /\ Held[q] = compute_send_queue[w]
  BY HeldNow DEF Places
<1>8. \A i \in DOMAIN computing[w] : computing[w][i] = r => i = 1
  <2>1. Distinct(flying[w])
    BY <1>1, <1>7 DEF Once
  <2> QED BY <1>3, <1>6, <2>1 DEF Distinct
<1> HIDE DEF msg, got, r
<1>9. /\ computing' \in [Workers -> Seq(Requests)] /\ computing'[w] = Tail(computing[w])
      /\ \A v \in Workers : v # w => computing'[v] = computing[v]
  BY <1>1, <1>2, <1>3 DEF BatchInv
<1>10. /\ requests_on_the_fly' \in [Workers -> [Requests -> Message \union {NoMessage}]]
       /\ requests_on_the_fly'[w][r] = NoMessage
       /\ \A x \in Requests : x # r => requests_on_the_fly'[w][x] = requests_on_the_fly[w][x]
       /\ \A v \in Workers : v # w => requests_on_the_fly'[v] = requests_on_the_fly[v]
  BY <1>1, <1>2, <1>3 DEF BatchInv
<1>11. ASSUME NEW i \in DOMAIN computing'[w]
       PROVE  /\ i + 1 \in DOMAIN computing[w] /\ computing'[w][i] = computing[w][i + 1]
              /\ computing'[w][i] \in Requests
              /\ requests_on_the_fly'[w][computing'[w][i]] = requests_on_the_fly[w][computing[w][i + 1]]
  <2>1. i \in 1..(Len(computing[w]) - 1)
    BY <1>3, <1>9
  <2>2. i + 1 \in DOMAIN computing[w] /\ i + 1 # 1 /\ computing'[w][i] = computing[w][i + 1]
    <3>1. i \in DOMAIN Tail(computing[w]) /\ i \in Nat /\ i + 1 \in 1..Len(computing[w]) /\ i + 1 # 1
      BY <1>3, <2>1
    <3>2. Tail(computing[w])[i] = computing[w][i + 1]
      BY <1>3, <3>1
    <3> QED BY <1>3, <1>9, <3>1, <3>2
  <2>3. computing[w][i + 1] \in Requests /\ computing[w][i + 1] # r
    BY <1>3, <1>8, <2>2
  <2> QED BY <1>10, <2>2, <2>3
<1>12. BatchInv'
  <2>1. ASSUME NEW v \in Workers
        PROVE  /\ \A i \in DOMAIN computing'[v] :
                    /\ requests_on_the_fly'[v][computing'[v][i]] \in AtWorker(v)
                    /\ requests_on_the_fly'[v][computing'[v][i]].request = computing'[v][i]
               /\ \A x \in Requests : requests_on_the_fly'[v][x] # NoMessage =>
                    \E i \in DOMAIN computing'[v] : computing'[v][i] = x
    <3>1. CASE v = w
      <4>1. \A i \in DOMAIN computing[w] :
              /\ requests_on_the_fly[w][computing[w][i]] \in AtWorker(w)
              /\ requests_on_the_fly[w][computing[w][i]].request = computing[w][i]
        BY <1>1 DEF BatchInv
      <4>2. ASSUME NEW x \in Requests, requests_on_the_fly'[w][x] # NoMessage
            PROVE  \E i \in DOMAIN computing'[w] : computing'[w][i] = x
        <5>1. x # r /\ requests_on_the_fly[w][x] # NoMessage
          BY <1>10, <4>2
        <5>2. PICK i \in DOMAIN computing[w] : computing[w][i] = x
          BY <1>1, <5>1 DEF BatchInv, OnTheFly
        <5>3. i # 1
          BY <1>3, <5>1, <5>2
        <5>4. i - 1 \in DOMAIN computing'[w] /\ computing'[w][i - 1] = x
          BY <1>3, <1>9, <5>2, <5>3
        <5> QED BY <5>4
      <4> QED BY <1>11, <3>1, <4>1, <4>2
    <3>2. CASE v # w
      BY <1>1, <1>9, <1>10, <3>2 DEF BatchInv, OnTheFly
    <3> QED BY <3>1, <3>2
  <2> QED BY <1>9, <1>10, <2>1 DEF BatchInv, OnTheFly
<1>13. OneMore(compute_send_queue, compute_send_queue', w, msg)
  BY <1>1, <1>2, <1>5, Pushed DEF QueuesInv
<1>14. /\ compute_send_queue' \in [Workers -> Seq(Message)]
       /\ compute_send_queue'[w] = Append(compute_send_queue[w], msg)
       /\ \A v \in Workers : /\ compute_send_queue'[v] \in Seq(AtSender(v))
                             /\ v # w => compute_send_queue'[v] = compute_send_queue[v]
  <2>1. /\ compute_send_queue' \in [Workers -> Seq(Message)]
        /\ compute_send_queue'[w] = Append(compute_send_queue[w], msg)
        /\ \A v \in Workers : v # w => compute_send_queue'[v] = compute_send_queue[v]
    BY <1>13 DEF OneMore
  <2>2. \A v \in Workers : compute_send_queue[v] \in Seq(AtSender(v))
    BY <1>1 DEF QueuesInv
  <2>3. compute_send_queue'[w] \in Seq(AtSender(w))
    BY <1>5, <2>1, <2>2
  <2> QED BY <2>1, <2>2, <2>3
<1>15. QueuesInv'
  BY <1>1, <1>2, <1>14 DEF QueuesInv, host_vars
<1>16. ClientInv' /\ waiting' = waiting
  BY <1>1, <1>2, ClientSame DEF client_vars
<1>17. Once(Held', waiting) /\ Goes(p, q, 1) /\ Head(Held[p]) = got /\ Held[p] # <<>>
  <2>1. flying_[w] = Tail(flying[w])
    <3> DEFINE n    == Len(computing[w]) - 1
               rest == Tail(flying[w])
    <3>1. n \in Nat /\ DOMAIN computing'[w] = 1..n
      BY <1>3, <1>9
    <3>2. flying_[w] = [i \in 1..n |-> requests_on_the_fly'[w][computing'[w][i]]]
      BY <3>1 DEF Flying
    <3>3. \A i \in 1..n : requests_on_the_fly'[w][computing'[w][i]] = flying[w][i + 1]
      BY <1>6, <1>11, <3>1
    <3>4. flying_[w] = [i \in 1..n |-> flying[w][i + 1]]
      BY <3>2, <3>3
    <3>5. flying[w] \in Seq(Message) /\ Len(flying[w]) = Len(computing[w])
      BY <1>3, <1>6
    <3> HIDE DEF flying, flying_
    <3>6. Tail(flying[w]) = [i \in 1..n |-> flying[w][i + 1]]
      BY <3>1, <3>5
    <3> QED BY <3>4, <3>6
  <2>2. Head(flying[w]) = got /\ flying[w] # <<>>
    <3>1. flying[w] \in Seq(Message) /\ 1 \in DOMAIN flying[w]
      BY <1>3, <1>6
    <3>2. flying[w] # <<>> /\ Head(flying[w]) = flying[w][1]
      BY <3>1
    <3> QED BY <1>3, <1>6, <3>2 DEF got
  <2>3. ASSUME NEW v \in Workers, v # w PROVE flying_[v] = flying[v]
    BY <1>9, <1>10, <2>3 DEF Flying
  <2>4. ASSUME NEW x \in Places, x # p, x # q PROVE Held'[x] = Held[x]
    BY <1>2, <1>14, <2>3, <2>4, HeldSame DEF host_vars
  <2>5. Held'[p] = Tail(Held[p]) /\ Held'[q] = Append(Held[q], msg)
    BY <1>7, <1>14, <2>1, HeldNext
  <2>6. \A x \in Places : x # p /\ x # q => Held'[x] = Held[x]
    BY <2>4
  <2>7. Held \in [Places -> Seq(Message)]
    BY <1>1, HeldType
  <2> HIDE DEF p, q, flying, flying_
  <2>8. Moved(Held, Held', p, q, msg)
    BY <1>4, <1>5, <1>7, <2>2, <2>5, <2>6 DEF Moved
  <2>9. Once(Held', waiting)
    BY <1>1, <1>5, <1>7, <2>7, <2>8, OnceMoved
  <2>10. Head(Held[p]) = got
    BY <1>7, <2>2
  <2>11. Goes(p, q, 1)
    BY <1>5, <2>8, <2>10 DEF Goes
  <2> QED BY <1>7, <2>2, <2>9, <2>10, <2>11
<1>18. PipelineInv'
  BY <1>12, <1>15, <1>16, <1>17 DEF PipelineInv, MessagesInv
<1> QED BY <1>4, <1>17, <1>18 DEF got, r

-------------------------------------------------------------------------------
(* The invariant holds.                                                    *)

LEMMA InitInv == Init => PipelineInv
<1> SUFFICES ASSUME Init PROVE PipelineInv
  OBVIOUS
<1>1. ClientInv
  <2>1. <<>> \in Routes
    BY MaxStagesType DEF Routes
  <2> QED BY <2>1 DEF Init, ClientInv
<1>2. QueuesInv
  BY DEF Init, QueuesInv
<1>3. BatchInv
  BY DEF Init, BatchInv, OnTheFly
<1>4. \A w \in Workers : Flying(requests_on_the_fly, computing)[w] = <<>>
  BY DEF Init, Flying
<1>5. ASSUME NEW x \in Places PROVE Held[x] = <<>>
  <2>1. /\ launch_queue = <<>> /\ finish_queue = <<>>
        /\ \A e \in Edges : chan[e] = <<>>
        /\ \A w \in Workers : recv_compute_queue[w] = <<>> /\ compute_send_queue[w] = <<>>
    BY DEF Init
  <2> QED BY <1>4, <2>1 DEF Held, Layout, Places
<1>6. Once(Held, waiting)
  BY <1>5, NoIds DEF Once
<1> QED BY <1>1, <1>2, <1>3, <1>6 DEF PipelineInv, MessagesInv

LEMMA StepInv == PipelineInv /\ [Next]_vars => PipelineInv'
<1> SUFFICES ASSUME PipelineInv, [Next]_vars PROVE PipelineInv'
  OBVIOUS
<1> USE DEF Next
<1>1. ASSUME NEW r \in Requests, NEW type \in {"Prompt", "Decode"}, LaunchRequest(r, type)
      PROVE  PipelineInv'
  BY <1>1, LaunchInv
<1>2. CASE GatherFinished
  BY <1>2, GatherFinishedInv
<1>3. CASE ScatterSend
  BY <1>3, ScatterSendInv
<1>4. CASE GatherPushInfo
  BY <1>4, GatherPushInfoInv
<1>5. ASSUME NEW w \in Workers, WorkerStep(w) \/ WorkerSend(w) PROVE PipelineInv'
  BY <1>5, FetchInv, SubmitInv, WorkerSendInv DEF WorkerStep
<1>6. ASSUME NEW m \in Machines, NEW n \in Machines, LinkStep(m, n) PROVE PipelineInv'
  <2>1. CASE n \in Workers /\ (ReceiveRequest(m, n) \/ ReceiveSwarmInfo(m, n))
    BY <2>1, ReceiveRequestInv, ReceiveSwarmInfoInv
  <2>2. CASE n = Host /\ GatherRequest(m)
    BY <2>2, GatherRequestInv
  <2> QED BY <1>6, <2>1, <2>2 DEF LinkStep
<1>7. ASSUME NEW e \in Edges, BreakLink(e) PROVE PipelineInv'
  BY <1>7, BreakLinkInv
<1>8. ASSUME NEW e \in Edges, RestoreLink(e) PROVE PipelineInv'
  BY <1>8, SameInv DEF RestoreLink
<1>9. CASE UNCHANGED vars \/ AllServed
  BY <1>9, SameInv DEF vars, AllServed, links
<1> QED BY <1>1, <1>2, <1>3, <1>4, <1>5, <1>6, <1>7, <1>8, <1>9

\* The inductive invariant: what the messages in each queue look like, and one
\* copy of each request at most.
THEOREM Invariance == Spec => []PipelineInv
<1> QED BY InitInv, StepInv, PTL DEF Spec

\* Every message matches its queue, in every behaviour of the main loops.
THEOREM MessagesInvariant == Spec => []MessagesInv
<1>1. PipelineInv => MessagesInv
  BY DEF PipelineInv
<1> QED BY <1>1, Invariance, PTL

-------------------------------------------------------------------------------
(* The properties follow.  A located message is the i-th of a place.       *)

At(p) == IF p[1] = "link" THEN <<p[2][1], p[2][2]>> ELSE <<p[2], p[2]>>

Spot(p, i) ==
  [kind |-> p[1], at |-> At(p),
   nth |-> IF p[1] = "on_the_fly" THEN 1 ELSE i,
   msg |-> Held[p][i],
   trail |-> [k \in 1..(Held[p][i].stage + Passed(p)) |-> Held[p][i].route[k].server]]

LEMMA PlaceSpot ==
  ASSUME NEW p \in Places, NEW kind, NEW m, NEW n, NEW queue, NEW passed,
         p[1] = kind, kind # "on_the_fly", At(p) = <<m, n>>, Held[p] = queue, Passed(p) = passed,
         NEW l \in Place(kind, m, n, queue, passed)
  PROVE  \E i \in DOMAIN Held[p] : l = Spot(p, i)
<1>1. PICK i \in DOMAIN queue :
        l = [kind |-> kind, at |-> <<m, n>>, nth |-> i, msg |-> queue[i],
             trail |-> [k \in 1..(queue[i].stage + passed) |-> queue[i].route[k].server]]
  BY DEF Place
<1>2. l = Spot(p, i)
  BY <1>1 DEF Spot
<1> QED BY <1>1, <1>2

LEMMA FlyingSpot ==
  ASSUME BatchInv, NEW w \in Workers, NEW r \in OnTheFly(w),
         NEW l \in Place("on_the_fly", w, w, <<requests_on_the_fly[w][r]>>, 1)
  PROVE  \E i \in DOMAIN Held[<<"on_the_fly", w>>] : l = Spot(<<"on_the_fly", w>>, i)
<1> DEFINE p   == <<"on_the_fly", w>>
           msg == requests_on_the_fly[w][r]
           one == <<msg>>
<1>1. l = [kind |-> "on_the_fly", at |-> <<w, w>>, nth |-> 1, msg |-> msg,
           trail |-> [k \in 1..(msg.stage + 1) |-> msg.route[k].server]]
  <2>1. PICK i \in DOMAIN one :
          l = [kind |-> "on_the_fly", at |-> <<w, w>>, nth |-> i, msg |-> one[i],
               trail |-> [k \in 1..(one[i].stage + 1) |-> one[i].route[k].server]]
    BY DEF Place
  <2>2. DOMAIN one = {1} /\ one[1] = msg
    OBVIOUS
  <2> QED BY <2>1, <2>2
<1>2. PICK i \in DOMAIN computing[w] : computing[w][i] = r
  BY DEF BatchInv
<1>3. Held[p] = Flying(requests_on_the_fly, computing)[w]
  BY HeldNow
<1>4. i \in DOMAIN Held[p] /\ Held[p][i] = msg
  BY <1>2, <1>3, FlyingType
<1>5. p[1] = "on_the_fly" /\ p[2] = w
  OBVIOUS
<1> HIDE DEF p, msg
<1>6. Passed(p) = 1 /\ At(p) = <<w, w>>
  BY <1>5 DEF Passed, At
<1>7. l = Spot(p, i)
  BY <1>1, <1>4, <1>5, <1>6 DEF Spot
<1> QED BY <1>4, <1>7 DEF p

LEMMA LocatedSpot ==
  ASSUME BatchInv, NEW l \in Located
  PROVE  \E p \in Places : \E i \in DOMAIN Held[p] : l = Spot(p, i)
<1>1. CASE l \in Place("launch_queue", Host, Host, launch_queue, 0)
  <2> DEFINE p == <<"launch_queue", Host>>
  <2>1. p \in Places /\ p[1] = "launch_queue" /\ At(p) = <<Host, Host>> /\ Held[p] = launch_queue /\ Passed(p) = 0
    BY HeldNow DEF Places, Passed, At
  <2> HIDE DEF p
  <2> QED BY <1>1, <2>1, PlaceSpot
<1>2. CASE l \in Place("finish_queue", Host, Host, finish_queue, 1)
  <2> DEFINE p == <<"finish_queue", Host>>
  <2>1. p \in Places /\ p[1] = "finish_queue" /\ At(p) = <<Host, Host>> /\ Held[p] = finish_queue /\ Passed(p) = 1
    BY HeldNow DEF Places, Passed, At
  <2> HIDE DEF p
  <2> QED BY <1>2, <2>1, PlaceSpot
<1>3. ASSUME NEW e \in Edges, l \in Place("link", e[1], e[2], chan[e], 1)
      PROVE  \E p \in Places : \E i \in DOMAIN Held[p] : l = Spot(p, i)
  <2> DEFINE p == <<"link", e>>
  <2>1. p \in Places /\ p[1] = "link" /\ At(p) = <<e[1], e[2]>> /\ Held[p] = chan[e] /\ Passed(p) = 1
    BY HeldNow DEF Places, Passed, At
  <2> HIDE DEF p
  <2> QED BY <1>3, <2>1, PlaceSpot
<1>4. ASSUME NEW w \in Workers, l \in Place("recv_compute_queue", w, w, recv_compute_queue[w], 1)
      PROVE  \E p \in Places : \E i \in DOMAIN Held[p] : l = Spot(p, i)
  <2> DEFINE p == <<"recv_compute_queue", w>>
  <2>1. /\ p \in Places /\ p[1] = "recv_compute_queue" /\ At(p) = <<w, w>>
        /\ Held[p] = recv_compute_queue[w] /\ Passed(p) = 1
    BY HeldNow DEF Places, Passed, At
  <2> HIDE DEF p
  <2> QED BY <1>4, <2>1, PlaceSpot
<1>5. ASSUME NEW w \in Workers, l \in Place("compute_send_queue", w, w, compute_send_queue[w], 0)
      PROVE  \E p \in Places : \E i \in DOMAIN Held[p] : l = Spot(p, i)
  <2> DEFINE p == <<"compute_send_queue", w>>
  <2>1. /\ p \in Places /\ p[1] = "compute_send_queue" /\ At(p) = <<w, w>>
        /\ Held[p] = compute_send_queue[w] /\ Passed(p) = 0
    BY HeldNow DEF Places, Passed, At
  <2> HIDE DEF p
  <2> QED BY <1>5, <2>1, PlaceSpot
<1>6. ASSUME NEW w \in Workers, NEW r \in OnTheFly(w),
             l \in Place("on_the_fly", w, w, <<requests_on_the_fly[w][r]>>, 1)
      PROVE  \E p \in Places : \E i \in DOMAIN Held[p] : l = Spot(p, i)
  <2>1. <<"on_the_fly", w>> \in Places
    BY DEF Places
  <2> QED BY <1>6, <2>1, FlyingSpot
<1>7. \/ l \in Place("launch_queue", Host, Host, launch_queue, 0)
      \/ \E e \in Edges : l \in Place("link", e[1], e[2], chan[e], 1)
      \/ \E w \in Workers : l \in Place("recv_compute_queue", w, w, recv_compute_queue[w], 1)
      \/ \E w \in Workers : \E r \in OnTheFly(w) :
           l \in Place("on_the_fly", w, w, <<requests_on_the_fly[w][r]>>, 1)
      \/ \E w \in Workers : l \in Place("compute_send_queue", w, w, compute_send_queue[w], 0)
      \/ l \in Place("finish_queue", Host, Host, finish_queue, 1)
  <2> DEFINE link(e)    == Place("link", e[1], e[2], chan[e], 1)
             recv(w)    == Place("recv_compute_queue", w, w, recv_compute_queue[w], 1)
             fly(w, r)  == Place("on_the_fly", w, w, <<requests_on_the_fly[w][r]>>, 1)
             compute(w) == Place("compute_send_queue", w, w, compute_send_queue[w], 0)
  <2>1. \/ l \in Place("launch_queue", Host, Host, launch_queue, 0)
        \/ l \in UNION {link(e) : e \in Edges}
        \/ l \in UNION {recv(w) : w \in Workers}
        \/ l \in UNION {UNION {fly(w, r) : r \in OnTheFly(w)} : w \in Workers}
        \/ l \in UNION {compute(w) : w \in Workers}
        \/ l \in Place("finish_queue", Host, Host, finish_queue, 1)
    BY SMT DEF Located
  <2> HIDE DEF link, recv, fly, compute
  <2>2. l \in UNION {link(e) : e \in Edges} => \E e \in Edges : l \in link(e)
    OBVIOUS
  <2>3. l \in UNION {recv(w) : w \in Workers} => \E w \in Workers : l \in recv(w)
    OBVIOUS
  <2>4. l \in UNION {UNION {fly(w, r) : r \in OnTheFly(w)} : w \in Workers} =>
          \E w \in Workers : \E r \in OnTheFly(w) : l \in fly(w, r)
    OBVIOUS
  <2>5. l \in UNION {compute(w) : w \in Workers} => \E w \in Workers : l \in compute(w)
    OBVIOUS
  <2> USE DEF link, recv, fly, compute
  <2> QED BY <2>1, <2>2, <2>3, <2>4, <2>5
<1> QED BY <1>1, <1>2, <1>3, <1>4, <1>5, <1>6, <1>7

\* Conversely, whatever a place holds is located.
LEMMA SpotLocated ==
  ASSUME BatchInv, NEW p \in Places, NEW i \in DOMAIN Held[p]
  PROVE  \E l \in Located : l.msg = Held[p][i]
<1>1. ASSUME NEW kind, NEW m, NEW n, NEW queue, NEW passed, NEW j \in DOMAIN queue
      PROVE  \E l \in Place(kind, m, n, queue, passed) : l.msg = queue[j]
  <2> DEFINE l == [kind |-> kind, at |-> <<m, n>>, nth |-> j, msg |-> queue[j],
                   trail |-> [k \in 1..(queue[j].stage + passed) |-> queue[j].route[k].server]]
  <2>1. l \in Place(kind, m, n, queue, passed) /\ l.msg = queue[j]
    BY DEF Place
  <2> QED BY <2>1
<1>2. CASE p = <<"launch_queue", Host>>
  <2>1. PICK l \in Place("launch_queue", Host, Host, launch_queue, 0) : l.msg = Held[p][i]
    BY <1>1, <1>2, HeldNow
  <2> QED BY <2>1 DEF Located
<1>3. CASE p = <<"finish_queue", Host>>
  <2>1. PICK l \in Place("finish_queue", Host, Host, finish_queue, 1) : l.msg = Held[p][i]
    BY <1>1, <1>3, HeldNow
  <2> QED BY <2>1 DEF Located
<1>4. ASSUME NEW e \in Edges, p = <<"link", e>> PROVE \E l \in Located : l.msg = Held[p][i]
  <2> DEFINE link(x) == Place("link", x[1], x[2], chan[x], 1)
  <2>1. Held[p] = chan[e]
    BY <1>4, HeldNow
  <2>2. PICK l \in link(e) : l.msg = Held[p][i]
    BY <1>1, <2>1
  <2>3. UNION {link(x) : x \in Edges} \subseteq Located
    BY DEF Located
  <2> HIDE DEF link
  <2> QED BY <2>2, <2>3
<1>5. ASSUME NEW w \in Workers, p = <<"recv_compute_queue", w>>
      PROVE  \E l \in Located : l.msg = Held[p][i]
  <2> DEFINE received(x) == Place("recv_compute_queue", x, x, recv_compute_queue[x], 1)
  <2>1. Held[p] = recv_compute_queue[w]
    BY <1>5, HeldNow
  <2>2. PICK l \in received(w) : l.msg = Held[p][i]
    BY <1>1, <2>1
  <2>3. UNION {received(x) : x \in Workers} \subseteq Located
    BY DEF Located
  <2> HIDE DEF received
  <2> QED BY <2>2, <2>3
<1>6. ASSUME NEW w \in Workers, p = <<"compute_send_queue", w>>
      PROVE  \E l \in Located : l.msg = Held[p][i]
  <2> DEFINE sending(x) == Place("compute_send_queue", x, x, compute_send_queue[x], 0)
  <2>1. Held[p] = compute_send_queue[w]
    BY <1>6, HeldNow
  <2>2. PICK l \in sending(w) : l.msg = Held[p][i]
    BY <1>1, <2>1
  <2>3. UNION {sending(x) : x \in Workers} \subseteq Located
    BY DEF Located
  <2> HIDE DEF sending
  <2> QED BY <2>2, <2>3
<1>7. ASSUME NEW w \in Workers, p = <<"on_the_fly", w>>
      PROVE  \E l \in Located : l.msg = Held[p][i]
  <2> DEFINE flying(x, r) == Place("on_the_fly", x, x, <<requests_on_the_fly[x][r]>>, 1)
             r            == computing[w][i]
  <2>1. i \in DOMAIN computing[w] /\ Held[p][i] = requests_on_the_fly[w][r]
    <3>1. Held[p] = Flying(requests_on_the_fly, computing)[w]
      BY <1>7, HeldNow
    <3> HIDE DEF r
    <3>2. i \in DOMAIN computing[w]
      BY <3>1, FlyingType
    <3> QED BY <3>1, <3>2, FlyingType DEF r
  <2>2. r \in OnTheFly(w)
    <3>1. computing[w] \in Seq(Requests)
          /\ \A j \in DOMAIN computing[w] : requests_on_the_fly[w][computing[w][j]] \in AtWorker(w)
      BY DEF BatchInv
    <3>2. r \in Requests
      BY <2>1, <3>1, ElementIn
    <3>3. requests_on_the_fly[w][r] # NoMessage
      <4>1. requests_on_the_fly[w][r] \in Message
        BY <2>1, <3>1 DEF AtWorker
      <4> QED BY <4>1 DEF Message, NoMessage
    <3> QED BY <3>2, <3>3 DEF OnTheFly
  <2> HIDE DEF r
  <2>3. \E l \in flying(w, r) : l.msg = Held[p][i]
    <3> DEFINE one == <<requests_on_the_fly[w][r]>>
    <3>1. 1 \in DOMAIN one /\ one[1] = Held[p][i]
      BY <2>1
    <3> HIDE DEF one
    <3>2. \E l \in Place("on_the_fly", w, w, one, 1) : l.msg = one[1]
      BY <1>1, <3>1
    <3> QED BY <3>1, <3>2 DEF one
  <2>4. UNION {UNION {flying(x, y) : y \in OnTheFly(x)} : x \in Workers} \subseteq Located
    BY DEF Located
  <2> HIDE DEF flying
  <2> QED BY <2>2, <2>3, <2>4
<1> QED BY <1>2, <1>3, <1>4, <1>5, <1>6, <1>7, PlaceKinds

\* What a located message looks like, place by place.
LEMMA HeldKinds ==
  ASSUME QueuesInv, BatchInv, NEW p \in Places, NEW i \in DOMAIN Held[p]
  PROVE  /\ p[1] = "launch_queue" => p[2] = Host /\ Held[p][i] \in AtSender(Host)
         /\ p[1] = "finish_queue" => p[2] = Host /\ Held[p][i] \in Answered
         /\ p[1] = "link" => p[2] \in Edges /\ Held[p][i] \in OnLink(p[2][1], p[2][2])
         /\ p[1] \in {"recv_compute_queue", "on_the_fly"} =>
              p[2] \in Workers /\ Held[p][i] \in AtWorker(p[2])
         /\ p[1] = "compute_send_queue" => p[2] \in Workers /\ Held[p][i] \in AtSender(p[2])
         /\ p[1] \in {"launch_queue", "finish_queue", "link", "recv_compute_queue", "on_the_fly",
                      "compute_send_queue"}
         /\ Held[p][i] \in Message
<1>1. CASE p = <<"launch_queue", Host>>
  <2>1. Held[p][i] \in AtSender(Host)
    BY <1>1, HeldNow, ElementIn DEF QueuesInv
  <2> QED BY <1>1, <2>1 DEF AtSender
<1>2. CASE p = <<"finish_queue", Host>>
  <2>1. Held[p][i] \in Answered
    BY <1>2, HeldNow, ElementIn DEF QueuesInv
  <2> QED BY <1>2, <2>1 DEF Answered
<1>3. CASE \E e \in Edges : p = <<"link", e>>
  <2>1. PICK e \in Edges : p = <<"link", e>>
    BY <1>3
  <2>2. Held[p][i] \in OnLink(e[1], e[2])
    BY <2>1, HeldNow, ElementIn DEF QueuesInv
  <2> QED BY <2>1, <2>2 DEF OnLink
<1>4. CASE \E w \in Workers : p = <<"recv_compute_queue", w>>
  <2>1. PICK w \in Workers : p = <<"recv_compute_queue", w>>
    BY <1>4
  <2>2. Held[p][i] \in AtWorker(w)
    BY <2>1, HeldNow, ElementIn DEF QueuesInv
  <2> QED BY <2>1, <2>2 DEF AtWorker
<1>5. CASE \E w \in Workers : p = <<"on_the_fly", w>>
  <2>1. PICK w \in Workers : p = <<"on_the_fly", w>>
    BY <1>5
  <2>2. Held[p] = Flying(requests_on_the_fly, computing)[w]
    BY <2>1, HeldNow
  <2>3. i \in DOMAIN computing[w] /\ Held[p][i] = requests_on_the_fly[w][computing[w][i]]
    BY <2>2, FlyingType
  <2>4. Held[p][i] \in AtWorker(w)
    BY <2>3 DEF BatchInv
  <2> QED BY <2>1, <2>4 DEF AtWorker
<1>6. CASE \E w \in Workers : p = <<"compute_send_queue", w>>
  <2>1. PICK w \in Workers : p = <<"compute_send_queue", w>>
    BY <1>6
  <2>2. Held[p][i] \in AtSender(w)
    BY <2>1, HeldNow, ElementIn DEF QueuesInv
  <2> QED BY <2>1, <2>2 DEF AtSender
<1> QED BY <1>1, <1>2, <1>3, <1>4, <1>5, <1>6, PlaceKinds

LEMMA LocatedKinds ==
  ASSUME PipelineInv, NEW l \in Located
  PROVE  /\ l.kind = "launch_queue" => l.at = <<Host, Host>> /\ l.msg \in AtSender(Host)
         /\ l.kind = "finish_queue" => l.msg \in Answered
         /\ l.kind = "link" => <<l.at[1], l.at[2]>> \in Edges /\ l.msg \in OnLink(l.at[1], l.at[2])
         /\ l.kind \in {"recv_compute_queue", "on_the_fly"} =>
              l.at[2] \in Workers /\ l.msg \in AtWorker(l.at[2])
         /\ l.kind = "compute_send_queue" => l.at[1] \in Workers /\ l.msg \in AtSender(l.at[1])
         /\ l.kind \in {"launch_queue", "finish_queue", "link", "recv_compute_queue", "on_the_fly",
                        "compute_send_queue"}
         /\ l.msg \in Message
         /\ Len(l.trail) = l.msg.stage + Passed(<<l.kind>>)
<1>1. QueuesInv /\ BatchInv
  BY DEF PipelineInv, MessagesInv
<1>2. PICK p \in Places : \E i \in DOMAIN Held[p] : l = Spot(p, i)
  BY <1>1, LocatedSpot
<1>3. PICK i \in DOMAIN Held[p] : l = Spot(p, i)
  BY <1>2
<1>4. l.kind = p[1] /\ l.at = At(p) /\ l.msg = Held[p][i]
  BY <1>3 DEF Spot
<1>5. Len(l.trail) = l.msg.stage + Passed(<<l.kind>>)
  <2>1. l.trail = [k \in 1..(Held[p][i].stage + Passed(p)) |-> Held[p][i].route[k].server]
    BY <1>3 DEF Spot
  <2>2. Passed(p) = Passed(<<l.kind>>) /\ Passed(p) \in Nat
    BY <1>4 DEF Passed
  <2>3. Held[p][i].stage \in Nat
    <3>1. Held[p][i] \in Message
      BY <1>1, HeldKinds
    <3> QED BY <3>1, PipelineConstants DEF Message
  <2> QED BY <1>4, <2>1, <2>2, <2>3
<1>6. /\ p[1] = "launch_queue" => At(p) = <<Host, Host>>
      /\ p[1] = "link" => <<At(p)[1], At(p)[2]>> = <<p[2][1], p[2][2]>>
      /\ p[1] \in {"recv_compute_queue", "on_the_fly", "compute_send_queue"} =>
           At(p)[1] = p[2] /\ At(p)[2] = p[2]
  <2>1. p[1] = "launch_queue" => p[2] = Host
    BY <1>1, HeldKinds
  <2> QED BY <2>1 DEF At
<1>7. p[1] = "link" => <<p[2][1], p[2][2]>> = p[2]
  <2>1. p[1] = "link" => p[2] \in Edges
    BY <1>1, HeldKinds
  <2> QED BY <2>1, TopologyTypes
<1> QED BY <1>1, <1>4, <1>5, <1>6, <1>7, HeldKinds

\* The variables keep their types and a header has at most one stage for each
\* layer of the model and one to return to the host.
THEOREM Typing == Spec => []PipelineTypeOK
<1>1. ASSUME PipelineInv PROVE PipelineTypeOK
  <2>1. ClientInv /\ QueuesInv /\ BatchInv
    BY <1>1 DEF PipelineInv, MessagesInv
  <2>2. \A l \in Located : l.msg \in Message
    BY <1>1, LocatedKinds
  <2>3. \A w \in Workers : \A i \in DOMAIN computing[w] : computing[w][i] \in Requests
    BY <2>1, ElementIn DEF BatchInv
  <2>4. ema \in [Edges -> {"initial", "measured", "garbage"}]
    BY <2>1 DEF QueuesInv
  <2> QED BY <2>1, <2>2, <2>3, <2>4 DEF PipelineTypeOK, ClientInv
<1> QED BY <1>1, Invariance, PTL

\* The server of the stage after the current one, and the link that leads there.
LEMMA NextLink ==
  ASSUME NEW m \in Machines, NEW msg \in AtSender(m), Len(msg.route) > msg.stage
  PROVE  <<m, NextServer(msg)>> \in Edges
<1>1. msg \in Message /\ SentBy(m, msg) /\ msg.stage < Len(msg.route)
  BY MessageType, RouteType DEF AtSender
<1> QED BY <1>1, LinkAhead DEF NextServer

\* A message in a queue, on a link or on the fly is on its route.
THEOREM Routing == Spec => []RoutedAlongLinks
<1>1. ASSUME PipelineInv, NEW l \in Located
      PROVE  /\ l.kind \in {"link", "recv_compute_queue", "on_the_fly"} => NextServer(l.msg) = l.at[2]
             /\ l.kind \in {"launch_queue", "compute_send_queue"} /\ Len(l.msg.route) > l.msg.stage =>
                  <<l.at[1], NextServer(l.msg)>> \in Edges
  <2>1. CASE l.kind = "link"
    <3>1. l.msg \in OnLink(l.at[1], l.at[2])
      BY <1>1, <2>1, LocatedKinds
    <3> QED BY <2>1, <3>1 DEF OnLink, NextServer
  <2>2. CASE l.kind \in {"recv_compute_queue", "on_the_fly"}
    <3>1. l.msg \in AtWorker(l.at[2])
      BY <1>1, <2>2, LocatedKinds
    <3> QED BY <2>2, <3>1 DEF AtWorker, NextServer
  <2>3. CASE l.kind \in {"launch_queue", "compute_send_queue"}
    <3>1. CASE l.kind = "launch_queue"
      <4>1. l.at = <<Host, Host>> /\ l.msg \in AtSender(Host)
        BY <1>1, <3>1, LocatedKinds
      <4> QED BY <2>3, <3>1, <4>1, NextLink DEF Machines
    <3>2. CASE l.kind = "compute_send_queue"
      <4>1. l.at[1] \in Workers /\ l.msg \in AtSender(l.at[1])
        BY <1>1, <3>2, LocatedKinds
      <4> QED BY <2>3, <3>2, <4>1, NextLink DEF Machines
    <3> QED BY <2>3, <3>1, <3>2
  <2>4. CASE l.kind = "finish_queue"
    BY <2>4
  <2> QED BY <1>1, <2>1, <2>2, <2>3, <2>4, LocatedKinds
<1>2. PipelineInv => RoutedAlongLinks
  BY <1>1 DEF RoutedAlongLinks
<1> QED BY <1>2, Invariance, PTL

\* What the route of a request is where a worker has it: the stage in progress
\* is not the last, which is the host's.
LEMMA LayersAtWorker ==
  ASSUME NEW w \in Workers, NEW msg \in AtWorker(w)
  PROVE  LayersRun(msg.route, msg.stage + 1)
<1>1. /\ msg.route \in Seq(Stages) /\ Len(msg.route) \in Nat /\ msg.stage \in Nat
      /\ msg.stage < Len(msg.route) /\ msg.route[msg.stage + 1].server = w
      /\ RouteSoFar(msg, msg.stage + 1, msg.stage + 1)
  BY PipelineConstants DEF AtWorker, Message, Routes
<1>2. CASE Fixed(msg)
  <2>1. LayersRun(msg.route, Len(msg.route) - 1) /\ msg.route[Len(msg.route)].server = Host
    BY <1>1, <1>2 DEF RouteSoFar, FullRoute, Returns
  <2>2. msg.stage + 1 # Len(msg.route)
    BY <1>1, <2>1, TopologyTypes
  <2>3. \A i \in 1..(msg.stage + 1) : i \in 1..(Len(msg.route) - 1)
    BY <1>1, <2>2
  <2> QED BY <2>1, <2>3 DEF LayersRun
<1>3. CASE ~Fixed(msg)
  BY <1>1, <1>3 DEF RouteSoFar, OwnLayers
<1> QED BY <1>2, <1>3

LEMMA LayersAtSender ==
  ASSUME NEW w \in Workers, NEW msg \in AtSender(w), IsRequest(msg)
  PROVE  LayersRun(msg.route, msg.stage)
<1>1. /\ msg.route \in Seq(Stages) /\ Len(msg.route) \in Nat /\ msg.stage \in Nat
      /\ msg.stage <= Len(msg.route) /\ msg.stage > 0 /\ msg.route[msg.stage].server = w
      /\ RouteSoFar(msg, msg.stage, msg.stage)
  BY PipelineConstants, TopologyTypes DEF AtSender, SentBy, Message, Routes
<1>2. CASE Fixed(msg)
  <2>1. LayersRun(msg.route, Len(msg.route) - 1) /\ msg.route[Len(msg.route)].server = Host
    BY <1>1, <1>2 DEF RouteSoFar, FullRoute, Returns
  <2>2. msg.stage # Len(msg.route)
    BY <1>1, <2>1, TopologyTypes
  <2>3. \A i \in 1..msg.stage : i \in 1..(Len(msg.route) - 1)
    BY <1>1, <2>2
  <2> QED BY <2>1, <2>3 DEF LayersRun
<1>3. CASE ~Fixed(msg)
  BY <1>1, <1>3 DEF RouteSoFar, OwnLayers
<1> QED BY <1>2, <1>3

\* A request runs the layers of the model in order, each once, on workers that
\* hold them.
THEOREM LayerOrder == Spec => []LayersInOrder
<1>1. ASSUME PipelineInv, NEW l \in LocatedRequests
      PROVE  /\ l.kind \in {"recv_compute_queue", "on_the_fly", "compute_send_queue"} =>
                  LayersRun(l.msg.route, Len(l.trail))
             /\ l.kind = "finish_queue" => l.msg.route[Len(l.msg.route) - 1].end = NumLayers
  <2>1. l \in Located /\ IsRequest(l.msg)
    BY DEF LocatedRequests
  <2>2. Len(l.trail) = l.msg.stage + Passed(<<l.kind>>) /\ l.msg \in Message /\ l.msg.stage \in Nat
    <3>1. Len(l.trail) = l.msg.stage + Passed(<<l.kind>>) /\ l.msg \in Message
      BY <1>1, <2>1, LocatedKinds
    <3> QED BY <3>1, MessageType
  <2>3. CASE l.kind \in {"recv_compute_queue", "on_the_fly"}
    <3>1. l.at[2] \in Workers /\ l.msg \in AtWorker(l.at[2])
      BY <1>1, <2>1, <2>3, LocatedKinds
    <3>2. Len(l.trail) = l.msg.stage + 1
      BY <2>2, <2>3 DEF Passed
    <3>3. LayersRun(l.msg.route, l.msg.stage + 1)
      BY <3>1, LayersAtWorker
    <3> QED BY <2>3, <3>2, <3>3
  <2>4. CASE l.kind = "compute_send_queue"
    <3>1. l.at[1] \in Workers /\ l.msg \in AtSender(l.at[1])
      BY <1>1, <2>1, <2>4, LocatedKinds
    <3>2. Len(l.trail) = l.msg.stage
      BY <2>2, <2>4 DEF Passed
    <3>3. LayersRun(l.msg.route, l.msg.stage)
      BY <2>1, <3>1, LayersAtSender
    <3> QED BY <2>4, <3>2, <3>3
  <2>5. CASE l.kind = "finish_queue"
    <3>1. l.msg \in Answered
      BY <1>1, <2>1, <2>5, LocatedKinds
    <3> QED BY <2>5, <3>1 DEF Answered, FullRoute
  <2> QED BY <2>3, <2>4, <2>5
<1>2. PipelineInv => LayersInOrder
  BY <1>1 DEF LayersInOrder
<1> QED BY <1>2, Invariance, PTL

\* A worker reads tokens exactly when its first layer is the model's first.
THEOREM Buffers == Spec => []BufferMatchesLayers
<1>1. ASSUME NEW w \in Workers, NEW msg \in AtWorker(w)
      PROVE  msg.stage = 0 <=> msg.route[msg.stage + 1].start = 0
  <2>1. /\ msg.route \in Seq(Stages) /\ Len(msg.route) \in Nat /\ msg.stage \in Nat
        /\ msg.stage < Len(msg.route) /\ FollowsLinks(msg.route)
    BY PipelineConstants DEF AtWorker, Message, Routes
  <2>2. LayersRun(msg.route, msg.stage + 1)
    BY LayersAtWorker
  <2>3. CASE msg.stage = 0
    BY <2>1, <2>2, <2>3 DEF LayersRun
  <2>4. CASE msg.stage # 0
    <3> DEFINE i == msg.stage
    <3>1. i \in 1..(i + 1) /\ i + 1 \in 1..(i + 1) /\ i \in 1..(Len(msg.route) - 1) /\ (i + 1) - 1 = i
          /\ i + 1 # 1
      BY <2>1, <2>4
    <3>2. /\ msg.route[i + 1].start = msg.route[i].end
          /\ StartLayer[msg.route[i].server] <= msg.route[i].start
          /\ msg.route[i].start < msg.route[i].end
      BY <2>2, <3>1 DEF LayersRun
    <3>3. msg.route[i].server \in Workers
      BY <2>1, <3>1 DEF FollowsLinks
    <3>4. StartLayer[msg.route[i].server] \in Nat
      BY <3>3, LayersFit, PipelineConstants
    <3>5. msg.route[i] \in Stages
      BY <2>1, <3>1
    <3>6. msg.route[i].start \in Int /\ msg.route[i].end \in Int
      BY <3>5, PipelineConstants DEF Stages, NoLayer
    <3> QED BY <2>4, <3>2, <3>4, <3>6
  <2> QED BY <2>3, <2>4
<1>2. ASSUME PipelineInv, NEW l \in LocatedRequests
      PROVE  /\ l.kind = "recv_compute_queue" =>
                  l.msg.buf = IF l.msg.route[l.msg.stage + 1].start = 0 THEN "tokens" ELSE "activations"
             /\ l.kind = "finish_queue" => l.msg.buf = "token_id"
  <2>1. l \in Located
    BY DEF LocatedRequests
  <2>2. CASE l.kind = "recv_compute_queue"
    <3>1. l.at[2] \in Workers /\ l.msg \in AtWorker(l.at[2])
      BY <1>2, <2>1, <2>2, LocatedKinds
    <3>2. l.msg.buf = IF l.msg.stage = 0 THEN "tokens" ELSE "activations"
      BY <3>1 DEF AtWorker
    <3> QED BY <1>1, <2>2, <3>1, <3>2
  <2>3. CASE l.kind = "finish_queue"
    <3>1. l.msg \in Answered
      BY <1>2, <2>1, <2>3, LocatedKinds
    <3> QED BY <2>3, <3>1 DEF Answered
  <2> QED BY <2>2, <2>3
<1>3. PipelineInv => BufferMatchesLayers
  BY <1>2 DEF BufferMatchesLayers
<1> QED BY <1>3, Invariance, PTL

\* A swarm weight is fed with durations of the sender's own outputs, and the
\* host is sent no SwarmInfo.
THEOREM SwarmWeights == Spec => []SwarmWeightsSound
<1>1. ASSUME NEW m \in Machines, NEW msg \in AtSender(m), msg.type = "SwarmInfo", ~IsLastLayer(m)
      PROVE  <<m, NextServer(msg)>> \in Edges /\ msg.route[msg.stage + 1].delta = "elapsed"
  <2>1. ~IsRequest(msg)
    BY <1>1 DEF IsRequest
  <2> QED BY <1>1, <2>1, InfoSent
<1>2. ASSUME PipelineInv, NEW l \in Located, l.msg.type = "SwarmInfo"
      PROVE  /\ l.kind = "link" => l.at[2] # Host
             /\ l.kind \in {"launch_queue", "compute_send_queue"} /\ ~IsLastLayer(l.at[1]) =>
                  /\ <<l.at[1], NextServer(l.msg)>> \in Edges
                  /\ l.msg.route[l.msg.stage + 1].delta = "elapsed"
  <2>1. CASE l.kind = "link"
    <3>1. l.msg \in OnLink(l.at[1], l.at[2])
      BY <1>2, <2>1, LocatedKinds
    <3> QED BY <1>2, <2>1, <3>1 DEF OnLink, IsRequest
  <2>2. CASE l.kind = "launch_queue" /\ ~IsLastLayer(l.at[1])
    <3>1. l.at = <<Host, Host>> /\ l.msg \in AtSender(Host)
      BY <1>2, <2>2, LocatedKinds
    <3>2. l.at[1] \in Machines /\ l.msg \in AtSender(l.at[1])
      BY <3>1 DEF Machines
    <3> QED BY <1>1, <1>2, <2>2, <3>2
  <2>3. CASE l.kind = "compute_send_queue" /\ ~IsLastLayer(l.at[1])
    <3>1. l.at[1] \in Workers /\ l.msg \in AtSender(l.at[1])
      BY <1>2, <2>3, LocatedKinds
    <3>2. l.at[1] \in Machines
      BY <3>1 DEF Machines
    <3> QED BY <1>1, <1>2, <2>3, <3>1, <3>2
  <2> QED BY <2>1, <2>2, <2>3
<1>3. ASSUME PipelineInv PROVE \A e \in Edges : ema[e] # "garbage"
  <2>1. ema \in [Edges -> {"initial", "measured"}]
    BY <1>3 DEF PipelineInv, MessagesInv, QueuesInv
  <2> QED BY <2>1
<1>4. PipelineInv => SwarmWeightsSound
  BY <1>2, <1>3 DEF SwarmWeightsSound
<1> QED BY <1>4, Invariance, PTL

-------------------------------------------------------------------------------
(* One copy.                                                               *)

\* The compute thread's batch: each id once, each on the fly.
THEOREM Batches == Spec => []SubmitFindsRequest
<1>1. ASSUME PipelineInv, NEW w \in Workers
      PROVE  /\ {computing[w][i] : i \in DOMAIN computing[w]} = OnTheFly(w)
             /\ Len(computing[w]) = Cardinality(OnTheFly(w))
  <2> DEFINE q == computing[w]
             n == Len(computing[w])
  <2>1. BatchInv /\ Once(Held, waiting)
    BY <1>1 DEF PipelineInv, MessagesInv
  <2>2. q \in Seq(Requests) /\ n \in Nat /\ DOMAIN q = 1..n
    BY <2>1 DEF BatchInv
  <2>3. ASSUME NEW i \in DOMAIN q PROVE q[i] \in OnTheFly(w)
    <3>1. q[i] \in Requests
      BY <2>2, ElementIn
    <3>2. requests_on_the_fly[w][q[i]] \in Message /\ requests_on_the_fly[w][q[i]] \in AtWorker(w)
      BY <2>1 DEF BatchInv, AtWorker
    <3>3. requests_on_the_fly[w][q[i]] # NoMessage
      BY <3>2 DEF Message, NoMessage
    <3> QED BY <3>1, <3>3 DEF OnTheFly
  <2>4. {q[i] : i \in DOMAIN q} = OnTheFly(w)
    <3>1. \A r \in OnTheFly(w) : \E i \in DOMAIN q : q[i] = r
      BY <2>1 DEF BatchInv
    <3> QED BY <2>3, <3>1
  <2>5. \A i, j \in DOMAIN q : q[i] = q[j] => i = j
    <3> DEFINE held == Flying(requests_on_the_fly, computing)[w]
    <3>1. DOMAIN held = DOMAIN q /\ \A i \in DOMAIN q : held[i].request = q[i] /\ IsRequest(held[i])
      BY <2>1, FlyingType
    <3>2. <<"on_the_fly", w>> \in Places /\ Held[<<"on_the_fly", w>>] = held
      BY HeldNow DEF Places
    <3>3. Distinct(held)
      BY <2>1, <3>2 DEF Once
    <3> HIDE DEF held, q
    <3> QED BY <3>1, <3>3 DEF Distinct
  <2>6. q \in Bijection(1..n, OnTheFly(w))
    <3>1. q \in [1..n -> OnTheFly(w)]
      BY <2>2, <2>3
    <3>2. \A r \in OnTheFly(w) : \E i \in 1..n : q[i] = r
      BY <2>2, <2>4
    <3>3. \A i, j \in 1..n : q[i] = q[j] => i = j
      BY <2>2, <2>5
    <3> HIDE DEF q, n
    <3>4. IsInjective(q)
      BY <3>1, <3>3 DEF IsInjective
    <3> QED BY <3>1, <3>2, <3>4 DEF Bijection, Injection, Surjection
  <2>7. Cardinality(OnTheFly(w)) = n
    <3>1. ExistsBijection(1..n, OnTheFly(w))
      BY <2>6 DEF ExistsBijection
    <3> QED BY <2>2, <3>1, FS_CountingElements
  <2> QED BY <2>4, <2>7
<1>2. PipelineInv => SubmitFindsRequest
  BY <1>1 DEF SubmitFindsRequest
<1> QED BY <1>2, Invariance, PTL

\* A request is located once if a place holds it, and the client waits for it.
LEMMA HeldCopies ==
  ASSUME PipelineInv, NEW r \in Requests
  PROVE  \/ Copies(r) = 0 /\ \A p \in Places : r \notin Ids(Held[p])
         \/ Copies(r) = 1 /\ r \in waiting
<1> DEFINE S == {l \in LocatedRequests : l.msg.request = r}
<1>1. BatchInv /\ Once(Held, waiting)
  BY DEF PipelineInv, MessagesInv
<1>2. ASSUME NEW l \in S
      PROVE  \E p \in Places : \E i \in DOMAIN Held[p] :
               l = Spot(p, i) /\ IsRequest(Held[p][i]) /\ Held[p][i].request = r
  <2>1. l \in Located /\ IsRequest(l.msg) /\ l.msg.request = r
    BY DEF LocatedRequests
  <2>2. PICK p \in Places : \E i \in DOMAIN Held[p] : l = Spot(p, i)
    BY <1>1, <2>1, LocatedSpot
  <2>3. PICK i \in DOMAIN Held[p] : l = Spot(p, i)
    BY <2>2
  <2>4. l.msg = Held[p][i]
    BY <2>3 DEF Spot
  <2> QED BY <2>1, <2>3, <2>4
<1>3. ASSUME NEW k \in S, NEW l \in S PROVE k = l /\ r \in waiting
  <2>1. PICK p \in Places : \E i \in DOMAIN Held[p] :
          k = Spot(p, i) /\ IsRequest(Held[p][i]) /\ Held[p][i].request = r
    BY <1>2
  <2>2. PICK i \in DOMAIN Held[p] :
          k = Spot(p, i) /\ IsRequest(Held[p][i]) /\ Held[p][i].request = r
    BY <2>1
  <2>3. PICK q \in Places : \E j \in DOMAIN Held[q] :
          l = Spot(q, j) /\ IsRequest(Held[q][j]) /\ Held[q][j].request = r
    BY <1>2
  <2>4. PICK j \in DOMAIN Held[q] :
          l = Spot(q, j) /\ IsRequest(Held[q][j]) /\ Held[q][j].request = r
    BY <2>3
  <2>5. r \in Ids(Held[p]) /\ r \in Ids(Held[q])
    BY <2>2, <2>4, IdsOf
  <2>6. p = q /\ r \in waiting
    BY <1>1, <2>5 DEF Once
  <2>7. i = j
    BY <1>1, <2>2, <2>4, <2>6 DEF Once, Distinct
  <2> QED BY <2>2, <2>4, <2>6, <2>7
<1>4. ASSUME NEW p \in Places, r \in Ids(Held[p]) PROVE S # {}
  <2>1. PICK i \in DOMAIN Held[p] : IsRequest(Held[p][i]) /\ Held[p][i].request = r
    BY <1>4, IdsOf
  <2>2. PICK l \in Located : l.msg = Held[p][i]
    BY <1>1, SpotLocated
  <2> QED BY <2>1, <2>2 DEF LocatedRequests
<1>5. Copies(r) = Cardinality(S)
  BY DEF Copies
<1> HIDE DEF S
<1>6. CASE S = {}
  BY <1>4, <1>5, <1>6, FS_EmptySet
<1>7. CASE S # {}
  <2>1. PICK k \in S : TRUE
    BY <1>7
  <2>2. S = {k} /\ r \in waiting
    BY <1>3, <2>1
  <2>3. Cardinality(S) = 1
    BY <2>2, FS_Singleton
  <2> QED BY <1>5, <2>2, <2>3
<1> QED BY <1>6, <1>7

\* At most one copy of a request, and none of one the client does not wait for.
THEOREM OneCopyAtMost == Spec => []NeverTwoCopies
<1>1. PipelineInv => NeverTwoCopies
  BY HeldCopies DEF NeverTwoCopies
<1> QED BY <1>1, Invariance, PTL

-------------------------------------------------------------------------------
(* The service: every step of the main loops is one of the service or      *)
(* leaves what the client knows as it is.                                  *)

LEMMA FinishedWaiting ==
  ASSUME PipelineInv
  PROVE  /\ finish_queue \in Seq(Message) /\ FinishedRequests = Ids(finish_queue)
         /\ FinishedRequests = Service!Answered /\ FinishedRequests \subseteq waiting
         /\ waiting \subseteq Requests
<1>1. ClientInv /\ QueuesInv /\ Once(Held, waiting)
  BY DEF PipelineInv, MessagesInv
<1>2. finish_queue \in Seq(Answered) /\ finish_queue \in Seq(Message)
  <2>1. finish_queue \in Seq(Answered)
    BY <1>1 DEF QueuesInv
  <2>2. \A i \in 1..Len(finish_queue) : finish_queue[i] \in Message
    BY <2>1 DEF Answered
  <2> QED BY <2>1, <2>2
<1>3. \A i \in DOMAIN finish_queue : IsRequest(finish_queue[i])
  BY <1>2, ElementIn DEF Answered
<1>4. FinishedRequests = Ids(finish_queue)
  BY <1>3, AllIds DEF FinishedRequests
<1>5. FinishedRequests = Service!Answered
  BY DEF FinishedRequests, RequestsIn, Service!Answered, Answers
<1>6. <<"finish_queue", Host>> \in Places /\ Held[<<"finish_queue", Host>>] = finish_queue
  BY HeldNow DEF Places
<1>7. Ids(finish_queue) \subseteq waiting
  BY <1>1, <1>6 DEF Once
<1> QED BY <1>1, <1>2, <1>4, <1>5, <1>7 DEF ClientInv

LEMMA LaunchServes ==
  ASSUME PipelineInv, NEW r \in Requests, NEW type \in {"Prompt", "Decode"}, LaunchRequest(r, type)
  PROVE  Service!Next
<1>1. r \notin waiting /\ waiting' = waiting \union {r} /\ finish_queue' = finish_queue
  BY Zenon DEF LaunchRequest
<1>2. Answers' = Answers /\ FinishedRequests' = FinishedRequests
  BY <1>1 DEF Answers, FinishedRequests
<1>3. (waiting \ FinishedRequests)' = (waiting \ FinishedRequests) \union {r}
  BY <1>1, <1>2, FinishedWaiting
<1>4. r \notin (waiting \ FinishedRequests) \union Service!Answered
  BY <1>1, FinishedWaiting
<1>5. Service!Launch(r)
  BY <1>2, <1>3, <1>4 DEF Service!Launch
<1> QED BY <1>5 DEF Service!Next

LEMMA GatherServes ==
  ASSUME PipelineInv, GatherFinished
  PROVE  Service!Next
<1>1. finish_queue # <<>> /\ waiting' = waiting \ FinishedRequests /\ finish_queue' = <<>>
  BY Zenon DEF GatherFinished
<1>2. Answers # <<>> /\ Answers' = <<>>
  <2>1. finish_queue \in Seq(Message)
    BY FinishedWaiting
  <2>2. 1 \in DOMAIN finish_queue
    BY <1>1, <2>1, NotEmpty
  <2>3. 1 \in DOMAIN Answers
    BY <2>2 DEF Answers
  <2>4. DOMAIN finish_queue' = {}
    BY <1>1
  <2>5. Answers' = [i \in {} |-> finish_queue'[i].request]
    BY <2>4 DEF Answers
  <2> QED BY <2>3, <2>5
<1>3. FinishedRequests' = {}
  BY <1>1 DEF FinishedRequests, RequestsIn
<1>4. (waiting \ FinishedRequests)' = waiting \ FinishedRequests
  BY <1>1, <1>3
<1>5. Service!Gather
  BY <1>2, <1>4 DEF Service!Gather
<1> QED BY <1>5 DEF Service!Next

LEMMA AppendIs ==
  ASSUME NEW S, NEW q \in Seq(S), NEW x \in S
  PROVE  Append(q, x) = [i \in 1..(Len(q) + 1) |-> IF i = Len(q) + 1 THEN x ELSE q[i]]
<1> DEFINE n == Len(q)
           g == Append(q, x)
<1>1. n \in Nat /\ g \in Seq(S) /\ Len(g) = n + 1 /\ DOMAIN g = 1..(n + 1)
  OBVIOUS
<1>2. \A i \in 1..(n + 1) : g[i] = IF i = n + 1 THEN x ELSE q[i]
  OBVIOUS
<1> HIDE DEF g, n
<1>3. g \in [1..(n + 1) -> S]
  BY <1>1
<1>4. g = [i \in 1..(n + 1) |-> g[i]]
  BY <1>3
<1>5. g = [i \in 1..(n + 1) |-> IF i = n + 1 THEN x ELSE q[i]]
  BY <1>2, <1>4
<1> QED BY <1>5 DEF g, n

LEMMA AnswerServes ==
  ASSUME PipelineInv, NEW m \in Machines, GatherRequest(m)
  PROVE  Service!Next
<1>1. UNCHANGED waiting
  BY GatherRequestInv
<1>2. PICK r \in Requests :
        /\ r \in Ids(chan[<<m, Host>>]) /\ <<m, Host>> \in Edges
        /\ \E msg \in Answered : msg.request = r /\ finish_queue' = Append(finish_queue, msg)
  BY GatherRequestInv
<1>3. PICK msg \in Answered : msg.request = r /\ finish_queue' = Append(finish_queue, msg)
  BY <1>2
<1>4. finish_queue \in Seq(Message) /\ msg \in Message
  BY FinishedWaiting DEF Answered
<1> DEFINE n == Len(finish_queue)
<1>5. /\ n \in Nat /\ DOMAIN finish_queue = 1..n /\ DOMAIN finish_queue' = 1..(n + 1)
      /\ finish_queue'[n + 1] = msg /\ \A i \in 1..n : finish_queue'[i] = finish_queue[i]
  BY <1>3, <1>4
<1>6. r \in waiting \ FinishedRequests
  <2> DEFINE p == <<"link", <<m, Host>>>>
             q == <<"finish_queue", Host>>
  <2>1. /\ p \in Places /\ q \in Places /\ p # q
        /\ Held[p] = chan[<<m, Host>>] /\ Held[q] = finish_queue
    BY <1>2, HeldNow DEF Places
  <2>2. Once(Held, waiting)
    BY DEF PipelineInv
  <2> HIDE DEF p, q
  <2>3. r \in waiting /\ r \notin Ids(finish_queue)
    BY <1>2, <2>1, <2>2 DEF Once
  <2> QED BY <2>3, FinishedWaiting
<1>7. Answers' = Append(Answers, r)
  <2>1. Answers \in Seq(Requests) /\ Len(Answers) = n /\ \A i \in 1..n : Answers[i] = finish_queue[i].request
    <3>1. \A i \in 1..n : finish_queue[i].request \in Requests
      BY <1>4, <1>5, ElementIn, MessageType
    <3>2. Answers = [i \in 1..n |-> finish_queue[i].request]
      BY <1>5 DEF Answers
    <3> QED BY <1>5, <3>1, <3>2
  <2>2. Answers' = [i \in 1..(n + 1) |-> finish_queue'[i].request]
    BY <1>5 DEF Answers
  <2>3. \A i \in 1..(n + 1) : finish_queue'[i].request = IF i = n + 1 THEN r ELSE Answers[i]
    BY <1>3, <1>5, <2>1
  <2>4. Append(Answers, r) = [i \in 1..(n + 1) |-> IF i = n + 1 THEN r ELSE Answers[i]]
    BY <2>1, AppendIs
  <2> QED BY <2>2, <2>3, <2>4
<1>8. FinishedRequests' = FinishedRequests \union {r}
  <2>1. FinishedRequests' = {finish_queue'[i].request : i \in 1..(n + 1)}
    BY <1>5 DEF FinishedRequests, RequestsIn
  <2>2. FinishedRequests = {finish_queue[i].request : i \in 1..n}
    BY <1>5 DEF FinishedRequests, RequestsIn
  <2>3. \A i \in 1..(n + 1) : i \in 1..n \/ i = n + 1
    BY <1>5
  <2>4. \A i \in 1..n : i \in 1..(n + 1)
    BY <1>5
  <2>5. n + 1 \in 1..(n + 1)
    BY <1>5
  <2> QED BY <1>3, <1>5, <2>1, <2>2, <2>3, <2>4, <2>5
<1>9. (waiting \ FinishedRequests)' = (waiting \ FinishedRequests) \ {r}
  BY <1>1, <1>8
<1>10. Service!Answer(r)
  BY <1>6, <1>7, <1>9 DEF Service!Answer
<1> QED BY <1>10 DEF Service!Next

LEMMA ServiceSame ==
  ASSUME UNCHANGED <<waiting, finish_queue>>
  PROVE  UNCHANGED Service!vars
BY DEF Service!vars, Answers, FinishedRequests

LEMMA ServiceStep ==
  ASSUME PipelineInv, [Next]_vars
  PROVE  [Service!Next]_(Service!vars)
<1>1. ASSUME NEW r \in Requests, NEW type \in {"Prompt", "Decode"}, LaunchRequest(r, type)
      PROVE  Service!Next
  BY <1>1, LaunchServes
<1>2. CASE GatherFinished
  BY <1>2, GatherServes
<1>3. CASE ScatterSend
  <2>1. UNCHANGED <<waiting, finish_queue>>
    BY <1>3, Zenon DEF ScatterSend, client_vars
  <2> QED BY <2>1, ServiceSame
<1>4. CASE GatherPushInfo
  <2>1. UNCHANGED <<waiting, finish_queue>>
    BY <1>4, Zenon DEF GatherPushInfo, client_vars
  <2> QED BY <2>1, ServiceSame
<1>5. ASSUME NEW w \in Workers, WorkerStep(w) \/ WorkerSend(w) PROVE UNCHANGED Service!vars
  <2>1. Fetch(w) => UNCHANGED <<waiting, finish_queue>>
    BY Zenon DEF Fetch, client_vars, host_vars
  <2>2. Submit(w) => UNCHANGED <<waiting, finish_queue>>
    BY Zenon DEF Submit, client_vars, host_vars
  <2>3. WorkerSend(w) => UNCHANGED <<waiting, finish_queue>>
    BY Zenon DEF WorkerSend, client_vars, host_vars
  <2>4. UNCHANGED <<waiting, finish_queue>>
    BY <1>5, <2>1, <2>2, <2>3 DEF WorkerStep
  <2> QED BY <2>4, ServiceSame
<1>6. ASSUME NEW m \in Machines, NEW n \in Machines, LinkStep(m, n)
      PROVE  [Service!Next]_(Service!vars)
  <2>1. CASE n = Host /\ GatherRequest(m)
    BY <2>1, AnswerServes
  <2>2. CASE n \in Workers /\ (ReceiveRequest(m, n) \/ ReceiveSwarmInfo(m, n))
    <3>1. ReceiveRequest(m, n) => UNCHANGED <<waiting, finish_queue>>
      BY Zenon DEF ReceiveRequest, client_vars, host_vars
    <3>2. ReceiveSwarmInfo(m, n) => UNCHANGED <<waiting, finish_queue>>
      BY Zenon DEF ReceiveSwarmInfo, client_vars, host_vars
    <3>3. UNCHANGED <<waiting, finish_queue>>
      BY <2>2, <3>1, <3>2
    <3> QED BY <3>3, ServiceSame
  <2> QED BY <1>6, <2>1, <2>2 DEF LinkStep
<1>7. ASSUME NEW e \in Edges, BreakLink(e) \/ RestoreLink(e) PROVE UNCHANGED Service!vars
  <2>1. BreakLink(e) => UNCHANGED <<waiting, finish_queue>>
    BY Zenon DEF BreakLink, client_vars, host_vars
  <2>2. RestoreLink(e) => UNCHANGED <<waiting, finish_queue>>
    BY Zenon DEF RestoreLink, client_vars, host_vars
  <2>3. UNCHANGED <<waiting, finish_queue>>
    BY <1>7, <2>1, <2>2
  <2> QED BY <2>3, ServiceSame
<1>8. CASE UNCHANGED vars \/ AllServed
  <2>1. UNCHANGED <<waiting, finish_queue>>
    BY <1>8 DEF AllServed, vars, client_vars, host_vars
  <2> QED BY <2>1, ServiceSame
<1> QED BY <1>1, <1>2, <1>3, <1>4, <1>5, <1>6, <1>7, <1>8 DEF Next

\* Over links that drop and break, the main loops implement the service.
THEOREM Refinement == Spec => ServiceSafety
<1>1. Init => Service!Init
  BY DEF Init, Service!Init, Answers
<1>2. PipelineInv /\ [Next]_vars => [Service!Next]_(Service!vars)
  BY ServiceStep
<1> QED BY <1>1, <1>2, Invariance, PTL DEF Spec, ServiceSafety, Service!SafeSpec

-------------------------------------------------------------------------------
(* Places.                                                                 *)

LEMMA HeldSeqs ==
  ASSUME PipelineInv
  PROVE  /\ Held \in [Places -> Seq(Message)]
         /\ \A p \in Places : Held[p] \in Seq(Message) /\ DOMAIN Held[p] = 1..Len(Held[p])
                              /\ Len(Held[p]) \in Nat
BY HeldType DEF PipelineInv, MessagesInv

LEMMA HeldInit ==
  ASSUME Init, NEW p \in Places
  PROVE  Held[p] = <<>>
<1>1. /\ launch_queue = <<>> /\ finish_queue = <<>>
      /\ \A e \in Edges : chan[e] = <<>>
      /\ \A w \in Workers : recv_compute_queue[w] = <<>> /\ compute_send_queue[w] = <<>>
  BY DEF Init
<1>2. \A w \in Workers : Flying(requests_on_the_fly, computing)[w] = <<>>
  BY DEF Init, Flying
<1> QED BY <1>1, <1>2 DEF Held, Layout, Places

\* A move, spot by spot: the head of p is the last of q, the others of p are one
\* further to the front.
SpotsMoved(c, d, p, q, msg) ==
  /\ 1 \in DOMAIN c[p] /\ Head(c[p]) = c[p][1]
  /\ \A i \in DOMAIN d[p] : i \in Nat /\ i > 0 /\ i + 1 \in DOMAIN c[p] /\ d[p][i] = c[p][i + 1]
  /\ \A i \in DOMAIN d[q] : \/ i \in DOMAIN c[q] /\ d[q][i] = c[q][i]
                            \/ i = Len(c[q]) + 1 /\ d[q][i] = msg
  /\ Len(c[q]) \in Nat /\ DOMAIN c[q] = 1..Len(c[q])
  /\ \A x \in Places : x # p /\ x # q => d[x] = c[x]

LEMMA MovedSpots ==
  ASSUME NEW c \in [Places -> Seq(Message)], NEW d, NEW p \in Places, NEW q \in Places,
         NEW msg \in Message, Moved(c, d, p, q, msg)
  PROVE  SpotsMoved(c, d, p, q, msg)
<1>1. c[p] \in Seq(Message) /\ c[q] \in Seq(Message) /\ c[p] # <<>> /\ d[p] = Tail(c[p])
      /\ d[q] = Append(c[q], msg)
  BY DEF Moved
<1>2. /\ 1 \in DOMAIN c[p] /\ Head(c[p]) = c[p][1]
      /\ \A i \in DOMAIN Tail(c[p]) : i \in Nat /\ i > 0 /\ i + 1 \in DOMAIN c[p] /\ Tail(c[p])[i] = c[p][i + 1]
  <2> DEFINE s == c[p]
  <2>1. s \in Seq(Message) /\ s # <<>>
    BY <1>1
  <2> HIDE DEF s
  <2>2. DOMAIN s = 1..Len(s) /\ Len(s) \in Nat /\ 1 <= Len(s) /\ DOMAIN Tail(s) = 1..(Len(s) - 1)
        /\ \A i \in 1..(Len(s) - 1) : Tail(s)[i] = s[i + 1]
    BY <2>1, NotEmpty
  <2>3. Head(s) = s[1]
    BY <2>1
  <2>4. 1 \in DOMAIN s /\ Head(s) = s[1]
        /\ \A i \in DOMAIN Tail(s) : i \in Nat /\ i > 0 /\ i + 1 \in DOMAIN s /\ Tail(s)[i] = s[i + 1]
    BY <2>2, <2>3
  <2> QED BY <2>4 DEF s
<1>3. /\ \A i \in DOMAIN Append(c[q], msg) : \/ i \in DOMAIN c[q] /\ Append(c[q], msg)[i] = c[q][i]
                                             \/ i = Len(c[q]) + 1 /\ Append(c[q], msg)[i] = msg
      /\ Len(c[q]) \in Nat /\ DOMAIN c[q] = 1..Len(c[q])
  <2> DEFINE s == c[q]
             t == Append(s, msg)
  <2>1. s \in Seq(Message)
    BY <1>1
  <2> HIDE DEF s
  <2>2. DOMAIN s = 1..Len(s) /\ Len(s) \in Nat /\ DOMAIN t = 1..(Len(s) + 1)
        /\ t[Len(s) + 1] = msg /\ \A i \in 1..Len(s) : t[i] = s[i]
    BY <2>1
  <2> HIDE DEF t
  <2>3. \A i \in DOMAIN t : (i \in DOMAIN s /\ t[i] = s[i]) \/ (i = Len(s) + 1 /\ t[i] = msg)
    BY <2>2
  <2> QED BY <2>2, <2>3 DEF s, t
<1> QED BY <1>1, <1>2, <1>3 DEF Moved, SpotsMoved


\* Every request held after a step was held before it, on the same stage.
CarriedOn ==
  \A x \in Places : \A i \in DOMAIN Held'[x] : IsRequest(Held'[x][i]) =>
    \E p \in Places : \E j \in DOMAIN Held[p] :
      /\ IsRequest(Held[p][j]) /\ Carried(Held[p][j], Held'[x][i])
      /\ Held'[x][i].stage = Held[p][j].stage

LEMMA GoesCarried ==
  ASSUME PipelineInv, NEW p \in Places, NEW q \in Places, NEW n, Goes(p, q, n),
         n = 0 \/ ~IsRequest(Head(Held[p]))
  PROVE  CarriedOn
<1>1. PICK msg \in Message :
        /\ Moved(Held, Held', p, q, msg)
        /\ IsRequest(Head(Held[p])) <=> IsRequest(msg)
        /\ IsRequest(msg) => /\ Carried(Head(Held[p]), msg) /\ msg.stage = Head(Held[p]).stage + n
  BY DEF Goes
<1>2. SpotsMoved(Held, Held', p, q, msg)
  <2>1. Held \in [Places -> Seq(Message)]
    BY HeldSeqs
  <2> QED BY <1>1, <2>1, MovedSpots
<1>3. ASSUME NEW x \in Places, NEW i \in DOMAIN Held'[x], IsRequest(Held'[x][i])
      PROVE  \E y \in Places : \E j \in DOMAIN Held[y] :
               /\ IsRequest(Held[y][j]) /\ Carried(Held[y][j], Held'[x][i])
               /\ Held'[x][i].stage = Held[y][j].stage
  <2>1. ASSUME NEW y \in Places, NEW j \in DOMAIN Held[y], Held'[x][i] = Held[y][j]
        PROVE  \E z \in Places : \E k \in DOMAIN Held[z] :
                 /\ IsRequest(Held[z][k]) /\ Carried(Held[z][k], Held'[x][i])
                 /\ Held'[x][i].stage = Held[z][k].stage
    BY <1>3, <2>1, CarriedSame
  <2>2. CASE x = p
    BY <1>2, <2>1, <2>2 DEF SpotsMoved
  <2>3. CASE x # p /\ x # q
    <3>1. i \in DOMAIN Held[x] /\ Held'[x][i] = Held[x][i]
      BY <1>2, <2>3 DEF SpotsMoved
    <3> QED BY <2>1, <3>1
  <2>4. CASE x = q /\ i \in DOMAIN Held[q] /\ Held'[q][i] = Held[q][i]
    BY <2>1, <2>4
  <2>5. CASE x = q /\ Held'[q][i] = msg
    <3>1. IsRequest(msg) /\ IsRequest(Held[p][1]) /\ Carried(Held[p][1], msg) /\ n = 0
      BY <1>1, <1>2, <1>3, <2>5 DEF SpotsMoved
    <3>2. Held[p][1].stage \in Nat
      BY <1>2, HeldSeqs, ElementIn, MessageType DEF SpotsMoved
    <3>3. msg.stage = Held[p][1].stage
      BY <1>1, <1>2, <3>1, <3>2 DEF SpotsMoved
    <3> QED BY <1>2, <2>5, <3>1, <3>3 DEF SpotsMoved
  <2> QED BY <1>2, <2>2, <2>3, <2>4, <2>5 DEF SpotsMoved
<1> QED BY <1>3 DEF CarriedOn

\* Nothing but messages that are no requests is new.
LEMMA StayedCarried ==
  ASSUME \A x \in Places : \A i \in DOMAIN Held'[x] : IsRequest(Held'[x][i]) =>
           \E p \in Places : \E j \in DOMAIN Held[p] : Held'[x][i] = Held[p][j]
  PROVE  CarriedOn
BY CarriedSame DEF CarriedOn

\* Messages of p are lost, no other place changes.
Shortened(p) ==
  /\ \E skip \in Nat : \A i \in DOMAIN Held'[p] :
       i + skip \in DOMAIN Held[p] /\ Held'[p][i] = Held[p][i + skip]
  /\ \A x \in Places : x # p => Held'[x] = Held[x]

LEMMA Losses ==
  ASSUME PipelineInv, NEW p \in Places, Dropped(p) \/ CutShort(p) \/ Emptied(p)
  PROVE  Shortened(p)
<1> DEFINE s == Held[p]
           t == Held'[p]
<1>1. s \in Seq(Message) /\ DOMAIN s = 1..Len(s) /\ Len(s) \in Nat
  BY HeldSeqs
<1>2. CASE Dropped(p)
  <2>1. s # <<>> /\ t = Tail(s) /\ \A x \in Places : x # p => Held'[x] = Held[x]
    BY <1>2 DEF Dropped
  <2> HIDE DEF s, t
  <2>2. DOMAIN t = 1..(Len(s) - 1) /\ \A i \in 1..(Len(s) - 1) : t[i] = s[i + 1]
    BY <1>1, <2>1
  <2>3. \A i \in DOMAIN t : i + 1 \in DOMAIN s /\ t[i] = s[i + 1]
    BY <1>1, <2>2
  <2> QED BY <2>1, <2>3 DEF Shortened, s, t
<1>3. CASE CutShort(p)
  <2>1. PICK kept \in 0..Len(s) : t = SubSeq(s, 1, kept)
    BY <1>3 DEF CutShort
  <2>2. \A x \in Places : x # p => Held'[x] = Held[x]
    BY <1>3 DEF CutShort
  <2> HIDE DEF s, t
  <2>3. DOMAIN t = 1..kept /\ \A i \in 1..kept : t[i] = s[i]
    BY <1>1, <2>1
  <2>4. \A i \in DOMAIN t : i + 0 \in DOMAIN s /\ t[i] = s[i + 0]
    BY <1>1, <2>3
  <2> QED BY <2>2, <2>4 DEF Shortened, s, t
<1>4. CASE Emptied(p)
  <2>1. t = <<>> /\ \A x \in Places : x # p => Held'[x] = Held[x]
    BY <1>4 DEF Emptied
  <2>2. \A i \in DOMAIN t : i + 0 \in DOMAIN s /\ t[i] = s[i + 0]
    BY <2>1
  <2> QED BY <2>1, <2>2 DEF Shortened
<1> QED BY <1>2, <1>3, <1>4

LEMMA ShortenedCarried ==
  ASSUME NEW p \in Places, Shortened(p)
  PROVE  CarriedOn
<1>1. ASSUME NEW x \in Places, NEW i \in DOMAIN Held'[x]
      PROVE  \E y \in Places : \E j \in DOMAIN Held[y] : Held'[x][i] = Held[y][j]
  <2>1. CASE x = p
    BY <2>1 DEF Shortened
  <2>2. CASE x # p
    BY <2>2 DEF Shortened
  <2> QED BY <2>1, <2>2
<1> QED BY <1>1, StayedCarried


LEMMA TogetherCarried ==
  ASSUME NEW p \in Places, NEW q \in Places, GoTogether(p, q)
  PROVE  CarriedOn
<1>1. ASSUME NEW x \in Places, NEW i \in DOMAIN Held'[x]
      PROVE  \E y \in Places : \E j \in DOMAIN Held[y] : Held'[x][i] = Held[y][j]
  <2>1. CASE x = p
    BY <2>1 DEF GoTogether
  <2>2. CASE x = q
    <3>1. i \in DOMAIN Held[p] /\ Held'[x][i] = Held[p][i]
      BY <2>2 DEF GoTogether
    <3> QED BY <3>1
  <2>3. CASE x # p /\ x # q
    BY <2>3 DEF GoTogether
  <2> QED BY <2>1, <2>2, <2>3
<1> QED BY <1>1, StayedCarried

\* The places a message that enters launch_queue leaves as they are.
LEMMA EnteredSpots ==
  ASSUME PipelineInv, NEW msg, Enters(msg)
  PROVE  \A x \in Places : \A i \in DOMAIN Held'[x] :
           \/ i \in DOMAIN Held[x] /\ Held'[x][i] = Held[x][i]
           \/ /\ x = <<"launch_queue", Host>> /\ i = Len(Held[x]) + 1 /\ Held'[x][i] = msg
<1> DEFINE p == <<"launch_queue", Host>>
           s == Held[p]
           t == Append(s, msg)
<1>1. p \in Places
  BY DEF Places
<1>2. s \in Seq(Message)
  BY <1>1, HeldSeqs
<1>3. Held'[p] = t /\ \A x \in Places : x # p => Held'[x] = Held[x]
  BY DEF Enters
<1>4. \A i \in DOMAIN t : (i \in DOMAIN s /\ t[i] = s[i]) \/ (i = Len(s) + 1 /\ t[i] = msg)
  <2> HIDE DEF s
  <2>1. DOMAIN s = 1..Len(s) /\ Len(s) \in Nat /\ DOMAIN t = 1..(Len(s) + 1)
        /\ t[Len(s) + 1] = msg /\ \A i \in 1..Len(s) : t[i] = s[i]
    BY <1>2
  <2> HIDE DEF t
  <2> QED BY <2>1
<1> HIDE DEF t, p
<1>5. ASSUME NEW x \in Places, NEW i \in DOMAIN Held'[x]
      PROVE  \/ i \in DOMAIN Held[x] /\ Held'[x][i] = Held[x][i]
             \/ x = p /\ i = Len(Held[x]) + 1 /\ Held'[x][i] = msg
  <2>1. CASE x = p
    BY <1>3, <1>4, <2>1
  <2>2. CASE x # p
    BY <1>3, <2>2
  <2> QED BY <2>1, <2>2
<1> QED BY <1>5 DEF p

LEMMA InfoCarried ==
  ASSUME PipelineInv, NEW msg \in Message, ~IsRequest(msg), Enters(msg)
  PROVE  CarriedOn
<1>1. ASSUME NEW x \in Places, NEW i \in DOMAIN Held'[x], IsRequest(Held'[x][i])
      PROVE  \E y \in Places : \E j \in DOMAIN Held[y] : Held'[x][i] = Held[y][j]
  BY <1>1, EnteredSpots
<1> QED BY <1>1, StayedCarried

LEMMA LeavesCarried ==
  ASSUME PipelineInv, NEW p \in Places, Leaves(p)
  PROVE  CarriedOn
<1>1. CASE Dropped(p)
  BY <1>1, Losses, ShortenedCarried
<1>2. CASE \E e \in Edges : Goes(p, <<"link", e>>, 0)
  <2>1. PICK e \in Edges : Goes(p, <<"link", e>>, 0)
    BY <1>2
  <2>2. <<"link", e>> \in Places
    BY DEF Places
  <2> QED BY <2>1, <2>2, GoesCarried
<1> QED BY <1>1, <1>2 DEF Leaves

\* The names of the places.
LEMMA PlaceNames ==
  /\ <<"launch_queue", Host>> \in Places /\ <<"finish_queue", Host>> \in Places
  /\ \A e \in Edges : <<"link", e>> \in Places
  /\ \A w \in Workers : /\ <<"recv_compute_queue", w>> \in Places
                        /\ <<"on_the_fly", w>> \in Places
                        /\ <<"compute_send_queue", w>> \in Places
BY DEF Places

\* What the steps leave alone.
LEMMA ReceiveKeeps ==
  ASSUME NEW m \in Machines, NEW n \in Machines, LinkStep(m, n)
  PROVE  UNCHANGED <<client_vars, prompt_ran, subscribed>>
<1>1. ReceiveRequest(m, n) => UNCHANGED <<client_vars, prompt_ran, subscribed>>
  BY Zenon DEF ReceiveRequest, Poll
<1>2. ReceiveSwarmInfo(m, n) => UNCHANGED <<client_vars, prompt_ran, subscribed>>
  BY Zenon DEF ReceiveSwarmInfo, Poll
<1>3. GatherRequest(m) => UNCHANGED <<client_vars, prompt_ran, subscribed>>
  BY Zenon DEF GatherRequest, Poll
<1> QED BY <1>1, <1>2, <1>3 DEF LinkStep

LEMMA SendKeeps ==
  ASSUME NEW m, NEW msg, SendFrom(m, msg)
  PROVE  UNCHANGED subscribed
<1>1. ASSUME NEW other, Publish(m, other) PROVE UNCHANGED subscribed
  BY <1>1, Zenon DEF Publish
<1>2. CASE msg.type = "SwarmInfo"
  BY <1>1, <1>2 DEF SendFrom
<1>3. CASE msg.type # "SwarmInfo"
  <2>1. \E routed \in Routed(m, msg) : Publish(m, Timed(m, routed))
    BY <1>3, Zenon DEF SendFrom
  <2> QED BY <1>1, <2>1
<1> QED BY <1>2, <1>3

LEMMA SenderKeeps ==
  /\ ScatterSend => UNCHANGED <<client_vars, prompt_ran, subscribed>>
  /\ \A w \in Workers : WorkerSend(w) => UNCHANGED <<client_vars, prompt_ran, subscribed>>
<1>1. ASSUME ScatterSend PROVE UNCHANGED <<client_vars, prompt_ran, subscribed>>
  <2>1. SendFrom(Host, Head(launch_queue)) /\ UNCHANGED <<client_vars, prompt_ran>>
    BY <1>1, Zenon DEF ScatterSend
  <2> QED BY <2>1, SendKeeps
<1>2. ASSUME NEW w \in Workers, WorkerSend(w) PROVE UNCHANGED <<client_vars, prompt_ran, subscribed>>
  <2>1. UNCHANGED <<client_vars, prompt_ran>>
    BY <1>2, Zenon DEF WorkerSend
  <2>2. UNCHANGED links \/ SendFrom(w, Head(compute_send_queue[w]))
    BY <1>2, Zenon DEF WorkerSend
  <2>3. UNCHANGED subscribed
    BY <2>2, SendKeeps DEF links
  <2> QED BY <2>1, <2>3
<1> QED BY <1>1, <1>2

\* But for a launch and a computation, a step only moves or drops requests.
LEMMA StepCarried ==
  ASSUME PipelineInv, [Next]_vars
  PROVE  \/ \E r \in Requests, type \in {"Prompt", "Decode"} : LaunchRequest(r, type)
         \/ \E w \in Workers : Submit(w)
         \/ CarriedOn /\ (GatherFinished \/ UNCHANGED <<client_vars, prompt_ran>>)
<1>1. CASE GatherFinished
  <2>1. Emptied(<<"finish_queue", Host>>)
    BY <1>1, GatherFinishedInv
  <2> QED BY <1>1, <2>1, Losses, ShortenedCarried, PlaceNames
<1>2. CASE ScatterSend
  <2>1. Leaves(<<"launch_queue", Host>>)
    BY <1>2, ScatterSendInv
  <2> QED BY <1>2, <2>1, LeavesCarried, PlaceNames, SenderKeeps
<1>3. CASE GatherPushInfo
  <2>1. PICK msg \in Message : ~IsRequest(msg) /\ Enters(msg)
    BY <1>3, GatherPushInfoInv
  <2>2. UNCHANGED <<client_vars, prompt_ran>>
    BY <1>3, Zenon DEF GatherPushInfo
  <2> QED BY <2>1, <2>2, InfoCarried
<1>4. ASSUME NEW w \in Workers, Fetch(w)
      PROVE  CarriedOn /\ UNCHANGED <<client_vars, prompt_ran>>
  <2>1. GoTogether(<<"recv_compute_queue", w>>, <<"on_the_fly", w>>)
    BY <1>4, FetchInv
  <2>2. UNCHANGED <<client_vars, prompt_ran>>
    BY <1>4, Zenon DEF Fetch
  <2> QED BY <2>1, <2>2, TogetherCarried, PlaceNames
<1>5. ASSUME NEW w \in Workers, WorkerSend(w)
      PROVE  CarriedOn /\ UNCHANGED <<client_vars, prompt_ran>>
  <2>1. Leaves(<<"compute_send_queue", w>>)
    BY <1>5, WorkerSendInv
  <2> QED BY <1>5, <2>1, LeavesCarried, PlaceNames, SenderKeeps
<1>6. ASSUME NEW m \in Machines, NEW n \in Machines, LinkStep(m, n)
      PROVE  CarriedOn /\ UNCHANGED <<client_vars, prompt_ran>>
  <2>1. CASE n \in Workers /\ ReceiveRequest(m, n)
    <3>1. Goes(<<"link", <<m, n>>>>, <<"recv_compute_queue", n>>, 0)
      BY <2>1, ReceiveRequestInv
    <3>2. <<m, n>> \in Edges
      BY <2>1, Zenon DEF ReceiveRequest, Poll
    <3>3. CarriedOn
      BY <2>1, <3>1, <3>2, GoesCarried, PlaceNames
    <3> QED BY <1>6, <3>3, ReceiveKeeps
  <2>2. CASE n \in Workers /\ ReceiveSwarmInfo(m, n)
    <3>1. Goes(<<"link", <<m, n>>>>, <<"compute_send_queue", n>>, 1)
      BY <2>2, ReceiveSwarmInfoInv
    <3>2. <<m, n>> \in Edges /\ ~IsRequest(Head(chan[<<m, n>>]))
      BY <2>2, Zenon DEF ReceiveSwarmInfo, Poll
    <3>3. ~IsRequest(Head(Held[<<"link", <<m, n>>>>]))
      BY <3>2, HeldNow
    <3>4. CarriedOn
      BY <2>2, <3>1, <3>2, <3>3, GoesCarried, PlaceNames
    <3> QED BY <1>6, <3>4, ReceiveKeeps
  <2>3. CASE n = Host /\ GatherRequest(m)
    <3>1. Goes(<<"link", <<m, Host>>>>, <<"finish_queue", Host>>, 0) /\ <<m, Host>> \in Edges
      BY <2>3, GatherRequestInv
    <3>2. CarriedOn
      BY <3>1, GoesCarried, PlaceNames
    <3> QED BY <1>6, <3>2, ReceiveKeeps
  <2> QED BY <1>6, <2>1, <2>2, <2>3 DEF LinkStep
<1>7. ASSUME NEW e \in Edges, BreakLink(e) \/ RestoreLink(e)
      PROVE  CarriedOn /\ UNCHANGED <<client_vars, prompt_ran>>
  <2>1. CASE BreakLink(e)
    <3>1. CutShort(<<"link", e>>)
      BY <2>1, BreakLinkInv
    <3>2. UNCHANGED <<client_vars, prompt_ran>>
      BY <2>1, Zenon DEF BreakLink
    <3> QED BY <3>1, <3>2, Losses, ShortenedCarried, PlaceNames
  <2>2. CASE RestoreLink(e)
    <3>1. Held' = Held
      BY <2>2, SameInv DEF RestoreLink
    <3>2. UNCHANGED <<client_vars, prompt_ran>>
      BY <2>2, Zenon DEF RestoreLink
    <3> QED BY <3>1, <3>2, StayedCarried
  <2> QED BY <1>7, <2>1, <2>2
<1>8. CASE UNCHANGED vars \/ AllServed
  <2>1. UNCHANGED <<client_vars, prompt_ran>> /\ Held' = Held
    BY <1>8, SameInv DEF vars, AllServed, links
  <2> QED BY <2>1, StayedCarried
<1> QED BY <1>1, <1>2, <1>3, <1>4, <1>5, <1>6, <1>7, <1>8 DEF Next, WorkerStep


-------------------------------------------------------------------------------
(* Where the last prompt of a request has run.                             *)

HasRun(history, stage, r) == [stage EXCEPT !.delta = "unset"] \in history[r]

\* The stages its last prompt has behind it: those behind the prompt itself, or
\* all with layers.
Done(msg) == IF msg.type = "Prompt" THEN msg.stage ELSE Len(msg.route) - 1

Traced(history, msg) == \A k \in 1..Done(msg) : HasRun(history, msg.route[k], msg.request)

TracedMessages ==
  \A p \in Places : \A i \in DOMAIN Held[p] : IsRequest(Held[p][i]) => Traced(prompt_ran, Held[p][i])

\* So has the route the host has saved, of a request that may be launched again.
TracedRoutes ==
  \A r \in Requests \ waiting : \A k \in 1..(Len(saved_routing_dict[r]) - 1) :
    HasRun(prompt_ran, saved_routing_dict[r][k], r)

TraceInv ==
  /\ prompt_ran \in [Requests -> SUBSET Stages]
  /\ TracedMessages
  /\ TracedRoutes

\* A stage up to its time.
LEMMA Timeless ==
  ASSUME NEW a \in Stages, NEW b \in Stages,
         b.server = a.server, b.start = a.start, b.end = a.end
  PROVE  /\ [b EXCEPT !.delta = "unset"] = [a EXCEPT !.delta = "unset"]
         /\ Stage(a.server, a.start, a.end) = [a EXCEPT !.delta = "unset"]
         /\ [a EXCEPT !.delta = "unset"] \in Stages
BY DEF Stages, Stage, Deltas

\* A request is on its route, where it is held.
LEMMA OnItsRoute ==
  ASSUME PipelineInv, NEW p \in Places, NEW i \in DOMAIN Held[p], IsRequest(Held[p][i])
  PROVE  /\ Held[p][i] \in Message /\ Held[p][i].stage <= Len(Held[p][i].route)
         /\ p[1] # "launch_queue" /\ p[1] # "compute_send_queue" =>
              Held[p][i].stage < Len(Held[p][i].route)
<1>1. QueuesInv /\ BatchInv
  BY DEF PipelineInv, MessagesInv
<1> DEFINE msg == Held[p][i]
<1>2. /\ p[1] = "launch_queue" => p[2] = Host /\ msg \in AtSender(Host)
      /\ p[1] = "finish_queue" => p[2] = Host /\ msg \in Answered
      /\ p[1] = "link" => p[2] \in Edges /\ msg \in OnLink(p[2][1], p[2][2])
      /\ p[1] \in {"recv_compute_queue", "on_the_fly"} => p[2] \in Workers /\ msg \in AtWorker(p[2])
      /\ p[1] = "compute_send_queue" => p[2] \in Workers /\ msg \in AtSender(p[2])
      /\ p[1] \in {"launch_queue", "finish_queue", "link", "recv_compute_queue", "on_the_fly",
                   "compute_send_queue"}
      /\ msg \in Message
  BY <1>1, HeldKinds
<1> HIDE DEF msg
<1>3. msg.stage \in Nat /\ Len(msg.route) \in Nat
  BY <1>2, MessageType, RouteType
<1>4. \A m : msg \in AtSender(m) => msg.stage <= Len(msg.route)
  BY DEF AtSender, SentBy
<1>5. \A m, n : msg \in OnLink(m, n) => msg.stage < Len(msg.route)
  BY DEF OnLink
<1>6. \A w : msg \in AtWorker(w) => msg.stage < Len(msg.route)
  BY DEF AtWorker
<1>7. msg \in Answered => msg.stage < Len(msg.route)
  BY <1>3 DEF Answered
<1> QED BY <1>2, <1>3, <1>4, <1>5, <1>6, <1>7 DEF msg

\* A request that is moved takes its trace along.
LEMMA TraceCarried ==
  ASSUME NEW history, Scheduler # "maxflow", NEW old \in Message, NEW new \in Message, Carried(old, new),
         IsRequest(old), new.stage = old.stage, old.stage <= Len(old.route),
         new.stage <= Len(new.route), Traced(history, old)
  PROVE  Traced(history, new)
<1>1. /\ old.route \in Routes /\ new.route \in Routes /\ old.stage \in Nat
      /\ Len(old.route) \in Nat /\ Len(new.route) \in Nat
      /\ \A i \in 1..Len(old.route) : old.route[i] \in Stages
      /\ \A i \in 1..Len(new.route) : new.route[i] \in Stages
  BY MessageType, RouteType
<1>2. new.type = old.type /\ new.request = old.request
      /\ SameStages(old.route, new.route, old.stage)
      /\ (Fixed(old) => SameWay(old.route, new.route))
  BY DEF Carried
<1>3. ASSUME NEW k \in 1..Done(new) PROVE HasRun(history, new.route[k], new.request)
  <2>1. /\ k \in 1..Done(old) /\ k \in 1..Len(old.route) /\ k \in 1..Len(new.route)
        /\ new.route[k].server = old.route[k].server /\ new.route[k].start = old.route[k].start
        /\ new.route[k].end = old.route[k].end
    <3>1. CASE old.type = "Prompt"
      BY <1>1, <1>2, <3>1 DEF Done, SameStages
    <3>2. CASE old.type # "Prompt"
      <4>1. SameWay(old.route, new.route)
        BY <1>2, <3>2 DEF Fixed
      <4> QED BY <1>1, <1>2, <3>2, <4>1 DEF Done, SameWay
    <3> QED BY <3>1, <3>2
  <2>2. HasRun(history, old.route[k], new.request)
    BY <1>2, <2>1 DEF Traced
  <2>3. [new.route[k] EXCEPT !.delta = "unset"] = [old.route[k] EXCEPT !.delta = "unset"]
    BY <1>1, <2>1, Timeless
  <2> QED BY <2>2, <2>3 DEF HasRun
<1> QED BY <1>3 DEF Traced


OnRoutes ==
  \A p \in Places : \A i \in DOMAIN Held[p] : IsRequest(Held[p][i]) =>
    Held[p][i] \in Message /\ Held[p][i].stage <= Len(Held[p][i].route)

LEMMA RoutesLong == PipelineInv => OnRoutes
BY OnItsRoute DEF OnRoutes

LEMMA RoutesLongNext == PipelineInv' => OnRoutes'
BY RoutesLong, PTL

LEMMA QuietTrace ==
  ASSUME PipelineInv, PipelineInv', TraceInv, Scheduler # "maxflow", CarriedOn,
         UNCHANGED prompt_ran
  PROVE  TracedMessages'
<1>1. ASSUME NEW x \in Places, NEW i \in DOMAIN Held'[x], IsRequest(Held'[x][i])
      PROVE  Traced(prompt_ran, Held'[x][i])
  <2>1. PICK p \in Places : \E j \in DOMAIN Held[p] :
          /\ IsRequest(Held[p][j]) /\ Carried(Held[p][j], Held'[x][i])
          /\ Held'[x][i].stage = Held[p][j].stage
    BY <1>1 DEF CarriedOn
  <2>2. PICK j \in DOMAIN Held[p] :
          /\ IsRequest(Held[p][j]) /\ Carried(Held[p][j], Held'[x][i])
          /\ Held'[x][i].stage = Held[p][j].stage
    BY <2>1
  <2>3. Held[p][j] \in Message /\ Held[p][j].stage <= Len(Held[p][j].route)
    BY <2>2, RoutesLong DEF OnRoutes
  <2>4. Held'[x][i] \in Message /\ Held'[x][i].stage <= Len(Held'[x][i].route)
    BY <1>1, RoutesLongNext DEF OnRoutes
  <2>5. Traced(prompt_ran, Held[p][j])
    BY <2>2 DEF TraceInv, TracedMessages
  <2> QED BY <2>2, <2>3, <2>4, <2>5, TraceCarried
<1> QED BY <1>1 DEF TracedMessages


\* A prompt has run nothing yet; a decode repeats a route that has been traced.
LEMMA LaunchTrace ==
  ASSUME PipelineInv, TraceInv, Scheduler # "maxflow", NEW r \in Requests,
         NEW type \in {"Prompt", "Decode"}, LaunchRequest(r, type)
  PROVE  TraceInv'
<1>1. /\ r \notin waiting /\ waiting' = waiting \union {r}
      /\ UNCHANGED <<saved_routing_dict, prompt_ran>>
  BY Zenon DEF LaunchRequest
<1>2. PICK route \in LaunchRoutes(type, r) :
        Enters([type |-> type, request |-> r, creation_time |-> CreationTime, stage |-> 0,
                route |-> route, buf |-> "tokens"])
  BY LaunchInv
<1> DEFINE msg == [type |-> type, request |-> r, creation_time |-> CreationTime, stage |-> 0,
                   route |-> route, buf |-> "tokens"]
<1>3. msg.type = type /\ msg.stage = 0 /\ msg.route = route /\ msg.request = r /\ Enters(msg)
  BY <1>2
<1> HIDE DEF msg
<1>4. Traced(prompt_ran, msg)
  <2>1. CASE type = "Prompt"
    BY <1>3, <2>1 DEF Traced, Done
  <2>2. CASE type = "Decode"
    <3>1. route = saved_routing_dict[r]
      BY <2>2 DEF LaunchRoutes
    <3>2. \A k \in 1..(Len(route) - 1) : HasRun(prompt_ran, route[k], r)
      BY <1>1, <3>1 DEF TraceInv, TracedRoutes
    <3> QED BY <1>3, <2>2, <3>2 DEF Traced, Done
  <2> QED BY <2>1, <2>2
<1>5. TracedMessages'
  <2>1. ASSUME NEW x \in Places, NEW i \in DOMAIN Held'[x], IsRequest(Held'[x][i])
        PROVE  Traced(prompt_ran, Held'[x][i])
    <3>1. \/ i \in DOMAIN Held[x] /\ Held'[x][i] = Held[x][i]
          \/ Held'[x][i] = msg
      BY <1>3, EnteredSpots
    <3> QED BY <1>4, <2>1, <3>1 DEF TraceInv, TracedMessages
  <2> QED BY <1>1, <2>1 DEF TracedMessages
<1>6. TracedRoutes'
  BY <1>1 DEF TraceInv, TracedRoutes
<1> QED BY <1>1, <1>5, <1>6 DEF TraceInv

\* The route saved of an answer is the one the answer has taken.
LEMMA AnswerTraced ==
  ASSUME NEW history, NEW msg \in Answered, Traced(history, msg), NEW k \in 1..(Len(SavedRoute(msg)) - 1)
  PROVE  HasRun(history, SavedRoute(msg)[k], msg.request)
<1>1. /\ msg.route \in Routes /\ Len(msg.route) \in Nat /\ DOMAIN msg.route = 1..Len(msg.route)
      /\ msg.stage \in Nat /\ msg.stage + 1 = Len(msg.route)
      /\ \A i \in 1..Len(msg.route) : msg.route[i] \in Stages
  BY MessageType, RouteType DEF Answered
<1>2. SavedRoute(msg)
        = [i \in 1..Len(msg.route) |-> Stage(msg.route[i].server, msg.route[i].start, msg.route[i].end)]
  BY <1>1 DEF SavedRoute
<1>3. SavedRoute(msg) \in Routes /\ DOMAIN SavedRoute(msg) = 1..Len(SavedRoute(msg))
      /\ Len(SavedRoute(msg)) \in Nat
  BY RouteSaved, RouteType
<1>4. Len(SavedRoute(msg)) = Len(msg.route)
  <2>1. DOMAIN SavedRoute(msg) = 1..Len(msg.route)
    BY <1>2
  <2> QED BY <1>1, <1>3, <2>1
<1>5. k \in 1..Len(msg.route) /\ k \in 1..Done(msg)
  BY <1>1, <1>4 DEF Done
<1>6. SavedRoute(msg)[k] = [msg.route[k] EXCEPT !.delta = "unset"]
  <2>1. SavedRoute(msg)[k] = Stage(msg.route[k].server, msg.route[k].start, msg.route[k].end)
    BY <1>2, <1>5
  <2> QED BY <1>1, <1>5, <2>1, Timeless
<1>7. [SavedRoute(msg)[k] EXCEPT !.delta = "unset"] = [msg.route[k] EXCEPT !.delta = "unset"]
  BY <1>1, <1>5, <1>6 DEF Stages
<1>8. HasRun(history, msg.route[k], msg.request)
  BY <1>5 DEF Traced
<1> QED BY <1>7, <1>8 DEF HasRun

LEMMA GatherTrace ==
  ASSUME PipelineInv, PipelineInv', TraceInv, Scheduler # "maxflow", GatherFinished
  PROVE  TraceInv'
<1>1. /\ waiting' = waiting \ FinishedRequests /\ UNCHANGED prompt_ran
      /\ saved_routing_dict' =
           [r \in Requests |-> IF r \in FinishedRequests THEN SavedRoute(LastMessage(finish_queue, r))
                                                         ELSE saved_routing_dict[r]]
  BY Zenon DEF GatherFinished
<1>2. /\ FinishedRequests = Ids(finish_queue) /\ Emptied(<<"finish_queue", Host>>)
      /\ \A i \in DOMAIN finish_queue :
           /\ IsRequest(finish_queue[i])
           /\ LastMessage(finish_queue, finish_queue[i].request) = finish_queue[i]
  BY GatherFinishedInv
<1>3. finish_queue \in Seq(Answered)
  BY DEF PipelineInv, MessagesInv, QueuesInv
<1>4. CarriedOn
  BY <1>2, Losses, ShortenedCarried, PlaceNames
<1>5. TracedMessages'
  BY <1>1, <1>4, QuietTrace
<1>6. ASSUME NEW r \in Requests \ waiting', NEW k \in 1..(Len(saved_routing_dict'[r]) - 1)
      PROVE  HasRun(prompt_ran, saved_routing_dict'[r][k], r)
  <2>1. CASE r \in FinishedRequests
    <3>1. PICK i \in DOMAIN finish_queue : finish_queue[i].request = r
      BY <1>2, <2>1, IdsOf
    <3> DEFINE msg == finish_queue[i]
    <3>2. msg \in Answered /\ msg.request = r
      BY <1>3, <3>1, ElementIn
    <3>3. saved_routing_dict'[r] = SavedRoute(msg)
      BY <1>1, <1>2, <2>1, <3>1
    <3>4. Traced(prompt_ran, msg)
      <4>1. <<"finish_queue", Host>> \in Places /\ Held[<<"finish_queue", Host>>] = finish_queue
        BY HeldNow, PlaceNames
      <4> QED BY <1>2, <4>1 DEF TraceInv, TracedMessages
    <3> HIDE DEF msg
    <3> QED BY <1>6, <3>2, <3>3, <3>4, AnswerTraced
  <2>2. CASE r \notin FinishedRequests
    <3>1. r \in Requests \ waiting /\ saved_routing_dict'[r] = saved_routing_dict[r]
      BY <1>1, <1>6, <2>2
    <3> QED BY <1>6, <3>1 DEF TraceInv, TracedRoutes
  <2> QED BY <2>1, <2>2
<1>7. TracedRoutes'
  BY <1>1, <1>6 DEF TracedRoutes, HasRun
<1> QED BY <1>1, <1>5, <1>7 DEF TraceInv


\* Two requests held at different spots are different.
LEMMA OneSpot ==
  ASSUME PipelineInv, NEW p \in Places, NEW i \in DOMAIN Held[p], NEW q \in Places,
         NEW j \in DOMAIN Held[q], IsRequest(Held[p][i]), IsRequest(Held[q][j]),
         Held[p][i].request = Held[q][j].request
  PROVE  p = q /\ i = j /\ Held[p][i].request \in waiting
<1>1. Once(Held, waiting)
  BY DEF PipelineInv
<1>2. Held[p][i].request \in Ids(Held[p]) /\ Held[q][j].request \in Ids(Held[q])
  BY IdsOf
<1>3. p = q /\ Held[p][i].request \in waiting
  BY <1>1, <1>2 DEF Once
<1> QED BY <1>1, <1>3 DEF Once, Distinct

\* The stage a prompt has run on w becomes part of its trace.
LEMMA SubmitTrace ==
  ASSUME PipelineInv, TraceInv, Scheduler # "maxflow", NEW w \in Workers, Submit(w)
  PROVE  TraceInv'
<1> DEFINE p   == <<"on_the_fly", w>>
           q   == <<"compute_send_queue", w>>
           got == requests_on_the_fly[w][Head(computing[w])]
           r   == Head(computing[w])
           new == Computed(w, got)
           ran == [got.route[got.stage + 1] EXCEPT !.delta = "unset"]
<1>1. /\ Goes(p, q, 1) /\ got = Head(Held[p]) /\ got \in AtWorker(w) /\ got.request = r
  BY SubmitInv
<1>2. /\ compute_send_queue' = [compute_send_queue EXCEPT ![w] = Push(@, new)]
      /\ prompt_ran' = IF got.type = "Prompt"
                         THEN [prompt_ran EXCEPT ![r] = IF got.stage = 0 THEN {ran}
                                                        ELSE @ \union {ran}]
                         ELSE prompt_ran
      /\ UNCHANGED client_vars
  BY Zenon DEF Submit, Computed
<1>3. p \in Places /\ q \in Places /\ p # q
      /\ Held'[q] = compute_send_queue'[w] /\ Held[q] = compute_send_queue[w]
  BY PlaceNames, HeldNow, HeldNext
<1> HIDE DEF p, q
<1>4. PICK msg \in Message : Moved(Held, Held', p, q, msg)
  BY <1>1 DEF Goes
<1>5. SpotsMoved(Held, Held', p, q, msg)
  <2>1. Held \in [Places -> Seq(Message)]
    BY HeldSeqs
  <2> QED BY <1>3, <1>4, <2>1, MovedSpots
<1>6. new = msg
  <2>2. compute_send_queue \in [Workers -> Seq(Message)]
    BY DEF PipelineInv, MessagesInv, QueuesInv
  <2> HIDE DEF new, got, r, ran
  <2>3. compute_send_queue'[w] = Append(compute_send_queue[w], new)
    <3>1. compute_send_queue' = [compute_send_queue EXCEPT ![w] = Push(@, new)]
      BY <1>2
    <3> QED BY <2>2, <3>1 DEF Push
  <2>4. Held'[q] = Append(Held[q], msg)
    BY <1>4 DEF Moved
  <2> DEFINE s == compute_send_queue[w]
  <2>5. s \in Seq(Message) /\ Append(s, new) = Append(s, msg)
    BY <1>3, <2>2, <2>3, <2>4
  <2> HIDE DEF s
  <2>6. Append(s, new)[Len(s) + 1] = new /\ Append(s, msg)[Len(s) + 1] = msg
    BY <2>5
  <2> QED BY <2>5, <2>6
<1>7. /\ got \in Message /\ IsRequest(got) /\ got.stage \in Nat /\ r \in Requests
      /\ got.route \in Routes /\ got.stage + 1 \in 1..Len(got.route) /\ ran \in Stages
      /\ new.type = got.type /\ new.request = r /\ new.stage = got.stage + 1
      /\ new.route = got.route
  <2>1. got \in Message /\ IsRequest(got) /\ got.stage < Len(got.route)
    BY <1>1 DEF AtWorker
  <2>2. got.stage \in Nat /\ got.route \in Routes /\ Len(got.route) \in Nat /\ got.request \in Requests
        /\ \A i \in 1..Len(got.route) : got.route[i] \in Stages
    BY <2>1, MessageType, RouteType
  <2>3. got.stage + 1 \in 1..Len(got.route)
    BY <2>1, <2>2
  <2>4. ran \in Stages
    <3>1. got.route[got.stage + 1] \in Stages
      BY <2>2, <2>3
    <3> HIDE DEF got
    <3> QED BY <3>1, Timeless
  <2>5. /\ Computed(w, got).request = got.request /\ Computed(w, got).stage = got.stage + 1
        /\ Computed(w, got).route = got.route /\ Carried(got, Computed(w, got))
    BY <1>1, RequestSubmitted
  <2> QED BY <1>1, <2>1, <2>2, <2>3, <2>4, <2>5 DEF Carried
<1> HIDE DEF got, r, new, ran
<1>8. prompt_ran \in [Requests -> SUBSET Stages]
  BY DEF TraceInv
<1>9. /\ prompt_ran' \in [Requests -> SUBSET Stages]
      /\ \A x \in Requests : x # r => prompt_ran'[x] = prompt_ran[x]
      /\ got.type = "Prompt" => ran \in prompt_ran'[r]
      /\ got.type # "Prompt" \/ got.stage # 0 => prompt_ran[r] \subseteq prompt_ran'[r]
  BY <1>2, <1>7, <1>8
<1>10. ASSUME NEW m \in Message, m.request # r, Traced(prompt_ran, m) PROVE Traced(prompt_ran', m)
  <2>1. m.request \in Requests
    BY MessageType
  <2> QED BY <1>9, <1>10, <2>1 DEF Traced, HasRun, Done
<1>11. Traced(prompt_ran', new)
  <2>1. Traced(prompt_ran, got)
    BY <1>1, <1>3, <1>5, <1>7 DEF TraceInv, TracedMessages, SpotsMoved
  <2>2. ASSUME NEW k \in 1..Done(new) PROVE HasRun(prompt_ran', new.route[k], r)
    <3>1. CASE got.type = "Prompt" /\ k = got.stage + 1
      BY <1>7, <1>9, <3>1 DEF HasRun, ran
    <3>2. CASE got.type = "Prompt" /\ k # got.stage + 1
      <4>1. k \in 1..Done(got) /\ got.stage # 0
        BY <1>7, <2>2, <3>2 DEF Done
      <4>2. HasRun(prompt_ran, got.route[k], r)
        BY <1>1, <2>1, <4>1 DEF Traced
      <4> QED BY <1>7, <1>9, <4>1, <4>2 DEF HasRun
    <3>3. CASE got.type # "Prompt"
      <4>1. k \in 1..Done(got)
        BY <1>7, <2>2, <3>3 DEF Done
      <4>2. HasRun(prompt_ran, got.route[k], r)
        BY <1>1, <2>1, <4>1 DEF Traced
      <4> QED BY <1>7, <1>9, <3>3, <4>2 DEF HasRun
    <3> QED BY <3>1, <3>2, <3>3
  <2>3. \A k \in 1..Done(new) : HasRun(prompt_ran', new.route[k], new.request)
    BY <1>7, <2>2
  <2> QED BY <2>3 DEF Traced, Done
<1>12. TracedMessages'
  <2>1. ASSUME NEW x \in Places, NEW i \in DOMAIN Held'[x], IsRequest(Held'[x][i])
        PROVE  Traced(prompt_ran', Held'[x][i])
    <3>1. ASSUME NEW y \in Places, NEW j \in DOMAIN Held[y], Held'[x][i] = Held[y][j],
                 y # p \/ j # 1
          PROVE  Traced(prompt_ran', Held'[x][i])
      <4>1. Held[y][j] \in Message /\ Traced(prompt_ran, Held[y][j])
        BY <2>1, <3>1, RoutesLong DEF OnRoutes, TraceInv, TracedMessages
      <4>2. Held[y][j].request # r
        BY <1>1, <1>3, <1>5, <1>7, <2>1, <3>1, OneSpot DEF SpotsMoved
      <4> QED BY <1>10, <3>1, <4>1, <4>2
    <3>2. CASE x = p
      <4>1. i + 1 \in DOMAIN Held[p] /\ Held'[x][i] = Held[p][i + 1] /\ i + 1 # 1
        BY <1>5, <3>2 DEF SpotsMoved
      <4> QED BY <1>3, <3>1, <4>1
    <3>3. CASE x = q /\ i \in DOMAIN Held[q] /\ Held'[q][i] = Held[q][i]
      BY <1>3, <3>1, <3>3
    <3>4. CASE x = q /\ Held'[q][i] = msg
      BY <1>6, <1>11, <3>4
    <3>5. CASE x # p /\ x # q
      BY <1>5, <3>1, <3>5 DEF SpotsMoved
    <3> QED BY <1>5, <3>2, <3>3, <3>4, <3>5 DEF SpotsMoved
  <2> QED BY <2>1 DEF TracedMessages
<1>13. TracedRoutes'
  <2>1. r \in waiting
    BY <1>1, <1>3, <1>5, <1>7, OneSpot DEF SpotsMoved
  <2>2. UNCHANGED <<waiting, saved_routing_dict>>
    BY <1>2 DEF client_vars
  <2>3. ASSUME NEW x \in Requests \ waiting, NEW k \in 1..(Len(saved_routing_dict[x]) - 1)
        PROVE  HasRun(prompt_ran', saved_routing_dict[x][k], x)
    <3>1. HasRun(prompt_ran, saved_routing_dict[x][k], x) /\ x # r
      BY <2>1, <2>3 DEF TraceInv, TracedRoutes
    <3> QED BY <1>9, <2>2, <3>1 DEF HasRun
  <2> QED BY <2>2, <2>3 DEF TracedRoutes, HasRun
<1> QED BY <1>9, <1>12, <1>13 DEF TraceInv


LEMMA TraceStep ==
  ASSUME PipelineInv, PipelineInv', TraceInv, Scheduler # "maxflow", [Next]_vars
  PROVE  TraceInv'
<1>1. ASSUME NEW r \in Requests, NEW type \in {"Prompt", "Decode"}, LaunchRequest(r, type)
      PROVE  TraceInv'
  BY <1>1, LaunchTrace
<1>2. ASSUME NEW w \in Workers, Submit(w) PROVE TraceInv'
  BY <1>2, SubmitTrace
<1>3. CASE GatherFinished
  BY <1>3, GatherTrace
<1>4. CASE CarriedOn /\ UNCHANGED <<client_vars, prompt_ran>>
  <2>1. TracedMessages'
    BY <1>4, QuietTrace
  <2>2. TracedRoutes'
    BY <1>4 DEF TraceInv, TracedRoutes, client_vars
  <2> QED BY <1>4, <2>1, <2>2 DEF TraceInv
<1> QED BY <1>1, <1>2, <1>3, <1>4, StepCarried

LEMMA TraceInit == Init => TraceInv
<1> SUFFICES ASSUME Init PROVE TraceInv
  OBVIOUS
<1>1. saved_routing_dict = [r \in Requests |-> <<>>] /\ prompt_ran = [r \in Requests |-> {}]
  BY DEF Init
<1>2. TracedMessages
  BY HeldInit DEF TracedMessages
<1>3. TracedRoutes
  BY <1>1 DEF TracedRoutes
<1> QED BY <1>1, <1>2, <1>3 DEF TraceInv

\* Where the cluster decides the routes, what the host saves and every request
\* carries leads over the stages the request's last prompt has run.
THEOREM TraceInvariance == ASSUME Scheduler # "maxflow" PROVE Spec => []TraceInv
<1>1. PipelineInv /\ PipelineInv' /\ TraceInv /\ [Next]_vars => TraceInv'
  BY TraceStep
<1> QED BY <1>1, TraceInit, Invariance, PTL DEF Spec

\* Where the cluster decides the routes, a decode finds the cache of its request
\* on every worker it comes to, for the layers it is to run there.
THEOREM DecodesFindCache == ASSUME Scheduler # "maxflow" PROVE Spec => []DecodeFollowsPrompt
<1>1. ASSUME PipelineInv, TraceInv, NEW l \in LocatedRequests,
             l.kind = "recv_compute_queue", l.msg.type = "Decode"
      PROVE  HasRun(prompt_ran, l.msg.route[l.msg.stage + 1], l.msg.request)
  <2>1. l \in Located /\ IsRequest(l.msg) /\ BatchInv
    BY <1>1 DEF LocatedRequests, PipelineInv, MessagesInv
  <2>2. PICK p \in Places : \E i \in DOMAIN Held[p] : l = Spot(p, i)
    BY <2>1, LocatedSpot
  <2>3. PICK i \in DOMAIN Held[p] : l = Spot(p, i)
    BY <2>2
  <2>4. Traced(prompt_ran, l.msg)
    <3>1. l.msg = Held[p][i]
      BY <2>3 DEF Spot
    <3> QED BY <1>1, <2>1, <3>1 DEF TraceInv, TracedMessages
  <2>5. l.at[2] \in Workers /\ l.msg \in AtWorker(l.at[2])
    BY <1>1, <2>1, LocatedKinds
  <2> DEFINE msg == l.msg
             w   == l.at[2]
  <2>6. /\ msg \in Message /\ msg.stage < Len(msg.route) /\ msg.route[msg.stage + 1].server = w
        /\ RouteSoFar(msg, msg.stage + 1, msg.stage + 1)
    BY <2>5 DEF AtWorker
  <2>7. msg.stage \in Nat /\ Len(msg.route) \in Nat
    BY <2>6, MessageType, RouteType
  <2>8. msg.route[Len(msg.route)].server = Host
    BY <1>1, <2>6 DEF RouteSoFar, Fixed, FullRoute, Returns
  <2>9. msg.stage + 1 # Len(msg.route)
    BY <2>5, <2>6, <2>8, TopologyTypes
  <2>10. msg.stage + 1 \in 1..Done(msg)
    <3>1. Done(msg) = Len(msg.route) - 1
      BY <1>1 DEF Done
    <3> HIDE DEF msg
    <3> QED BY <2>6, <2>7, <2>9, <3>1
  <2> QED BY <2>4, <2>10 DEF Traced
<1>2. PipelineInv /\ TraceInv => DecodeFollowsPrompt
  BY <1>1 DEF DecodeFollowsPrompt, HasRun
<1> QED BY <1>2, Invariance, TraceInvariance, PTL


-------------------------------------------------------------------------------
(* A request is not lost while no link drops.                              *)

\* A request is about to be sent.
Sending ==
  \/ launch_queue # <<>> /\ IsRequest(Head(launch_queue))
  \/ \E w \in Workers : compute_send_queue[w] # <<>> /\ IsRequest(Head(compute_send_queue[w]))

\* Every connection stands, and whenever a request is about to be sent there is
\* room for it.
NoLoss == subscribed = Edges /\ (Sending => LinksUp)

\* What the client waits for is somewhere.
PlacedInv == \A r \in waiting : \E p \in Places : r \in Ids(Held[p])

\* What a place held is held somewhere after the step.
IdsKept == \A p \in Places : \A r \in Ids(Held[p]) : \E q \in Places : r \in Ids(Held'[q])

LEMMA TailOrHead ==
  ASSUME NEW q \in Seq(Message), q # <<>>, NEW r \in Ids(q)
  PROVE  r \in Ids(Tail(q)) \/ (IsRequest(Head(q)) /\ r = Head(q).request)
<1>1. /\ DOMAIN q = 1..Len(q) /\ Len(q) \in Nat /\ Head(q) = q[1]
      /\ DOMAIN Tail(q) = 1..(Len(q) - 1)
      /\ \A i \in 1..(Len(q) - 1) : Tail(q)[i] = q[i + 1]
  BY NotEmpty
<1>2. PICK i \in DOMAIN q : IsRequest(q[i]) /\ q[i].request = r
  BY IdsOf
<1>3. CASE i = 1
  BY <1>1, <1>2, <1>3
<1>4. CASE i # 1
  <2> DEFINE k == i - 1
             t == Tail(q)
  <2>1. k \in 1..(Len(q) - 1) /\ k + 1 = i
    BY <1>1, <1>4
  <2>2. k \in DOMAIN t /\ t[k] = q[i]
    BY <1>1, <2>1
  <2> HIDE DEF k, t
  <2>3. r \in Ids(t)
    BY <1>2, <2>2, IdsOf
  <2> QED BY <2>3 DEF t
<1> QED BY <1>3, <1>4

LEMMA PushedIds ==
  ASSUME NEW q \in Seq(Message), NEW msg \in Message
  PROVE  /\ Ids(q) \subseteq Ids(Append(q, msg))
         /\ IsRequest(msg) => msg.request \in Ids(Append(q, msg))
<1> DEFINE p == Append(q, msg)
<1>1. /\ DOMAIN q = 1..Len(q) /\ Len(q) \in Nat /\ DOMAIN p = 1..(Len(q) + 1)
      /\ p[Len(q) + 1] = msg /\ \A i \in DOMAIN q : p[i] = q[i]
  OBVIOUS
<1> HIDE DEF p
<1>2. \A i \in DOMAIN q : i \in DOMAIN p
  BY <1>1
<1>3. Len(q) + 1 \in DOMAIN p
  BY <1>1
<1>4. ASSUME NEW r \in Ids(q) PROVE r \in Ids(p)
  <2>1. PICK i \in DOMAIN q : IsRequest(q[i]) /\ q[i].request = r
    BY <1>4, IdsOf
  <2> QED BY <1>1, <1>2, <2>1, IdsOf
<1>5. ASSUME IsRequest(msg) PROVE msg.request \in Ids(p)
  BY <1>1, <1>3, <1>5, IdsOf
<1> QED BY <1>4, <1>5 DEF p

LEMMA GoesKeeps ==
  ASSUME PipelineInv, NEW p \in Places, NEW q \in Places, NEW n, Goes(p, q, n)
  PROVE  IdsKept
<1>1. PICK msg \in Message :
        /\ Moved(Held, Held', p, q, msg)
        /\ IsRequest(Head(Held[p])) <=> IsRequest(msg)
  BY DEF Goes
<1>2. /\ p # q /\ Held[p] # <<>> /\ Held'[p] = Tail(Held[p]) /\ Held'[q] = Append(Held[q], msg)
      /\ (IsRequest(msg) => msg.request = Head(Held[p]).request)
      /\ \A x \in Places : x # p /\ x # q => Held'[x] = Held[x]
  BY <1>1 DEF Moved
<1>3. Held[p] \in Seq(Message) /\ Held[q] \in Seq(Message)
  BY HeldSeqs
<1>4. ASSUME NEW x \in Places, NEW r \in Ids(Held[x]) PROVE \E y \in Places : r \in Ids(Held'[y])
  <2>1. CASE x = p
    <3>1. r \in Ids(Held'[p]) \/ (IsRequest(Head(Held[p])) /\ r = Head(Held[p]).request)
      BY <1>2, <1>3, <1>4, <2>1, TailOrHead
    <3>2. IsRequest(msg) => msg.request \in Ids(Held'[q])
      BY <1>2, <1>3, PushedIds
    <3> QED BY <1>1, <1>2, <3>1, <3>2
  <2>2. CASE x = q
    BY <1>2, <1>3, <1>4, <2>2, PushedIds
  <2>3. CASE x # p /\ x # q
    BY <1>2, <1>4, <2>3
  <2> QED BY <2>1, <2>2, <2>3
<1> QED BY <1>4 DEF IdsKept

\* A sender drops no request while there is room for it.
LEMMA LeavesKeeps ==
  ASSUME PipelineInv, NEW p \in Places, Leaves(p),
         Held[p] # <<>> /\ IsRequest(Head(Held[p])) => LinksUp
  PROVE  IdsKept
<1>1. CASE Dropped(p)
  <2>1. /\ Held[p] # <<>> /\ Held'[p] = Tail(Held[p]) /\ ~IsRequest(Head(Held[p]))
        /\ \A x \in Places : x # p => Held'[x] = Held[x]
    BY <1>1 DEF Dropped
  <2>2. Held[p] \in Seq(Message)
    BY HeldSeqs
  <2>3. ASSUME NEW r \in Ids(Held[p]) PROVE r \in Ids(Held'[p])
    BY <2>1, <2>2, <2>3, TailOrHead
  <2> QED BY <2>1, <2>3 DEF IdsKept
<1>2. CASE \E e \in Edges : Goes(p, <<"link", e>>, 0)
  <2>1. PICK e \in Edges : Goes(p, <<"link", e>>, 0)
    BY <1>2
  <2> QED BY <2>1, GoesKeeps, PlaceNames
<1> QED BY <1>1, <1>2 DEF Leaves

LEMMA TogetherKeeps ==
  ASSUME NEW p \in Places, NEW q \in Places, GoTogether(p, q)
  PROVE  IdsKept
<1>1. ASSUME NEW x \in Places, NEW r \in Ids(Held[x]) PROVE \E y \in Places : r \in Ids(Held'[y])
  <2>1. CASE x = p
    BY <1>1, <2>1 DEF GoTogether
  <2>2. CASE x = q
    BY <1>1, <2>2, NoIds DEF GoTogether
  <2>3. CASE x # p /\ x # q
    BY <1>1, <2>3 DEF GoTogether
  <2> QED BY <2>1, <2>2, <2>3
<1> QED BY <1>1 DEF IdsKept

LEMMA EntersKeeps ==
  ASSUME PipelineInv, NEW msg \in Message, Enters(msg)
  PROVE  /\ IdsKept
         /\ IsRequest(msg) => \E p \in Places : msg.request \in Ids(Held'[p])
<1> DEFINE p == <<"launch_queue", Host>>
<1>1. p \in Places /\ Held[p] \in Seq(Message)
  BY PlaceNames, HeldSeqs
<1>2. Held'[p] = Append(Held[p], msg) /\ \A x \in Places : x # p => Held'[x] = Held[x]
  BY DEF Enters
<1> HIDE DEF p
<1>3. Ids(Held[p]) \subseteq Ids(Held'[p]) /\ (IsRequest(msg) => msg.request \in Ids(Held'[p]))
  BY <1>1, <1>2, PushedIds
<1> QED BY <1>1, <1>2, <1>3 DEF IdsKept


LEMMA LaunchEnters ==
  ASSUME PipelineInv, NEW r \in Requests, NEW type \in {"Prompt", "Decode"}, LaunchRequest(r, type)
  PROVE  /\ waiting' = waiting \union {r} /\ UNCHANGED subscribed
         /\ \E msg \in AtSender(Host) :
              Enters(msg) /\ IsRequest(msg) /\ msg.request = r /\ msg.stage = 0
              /\ msg.creation_time = CreationTime
<1>1. /\ r \notin waiting /\ waiting' = waiting \union {r} /\ UNCHANGED links
      /\ type = "Decode" => Scheduler = "maxflow" \/ launched[r] > 0
  BY Zenon DEF LaunchRequest
<1>2. PICK route \in LaunchRoutes(type, r) :
        Enters([type |-> type, request |-> r, creation_time |-> CreationTime, stage |-> 0,
                route |-> route, buf |-> "tokens"])
  BY LaunchInv
<1> DEFINE msg == [type |-> type, request |-> r, creation_time |-> CreationTime, stage |-> 0,
                   route |-> route, buf |-> "tokens"]
<1>3. ClientInv
  BY DEF PipelineInv, MessagesInv
<1>4. msg \in AtSender(Host) /\ IsRequest(msg)
  BY <1>1, <1>3, RequestLaunched
<1>5. msg.request = r /\ msg.stage = 0 /\ msg.creation_time = CreationTime /\ Enters(msg)
  BY <1>2
<1> HIDE DEF msg
<1>6. UNCHANGED subscribed
  BY <1>1 DEF links
<1> QED BY <1>1, <1>4, <1>5, <1>6

LEMMA PlacedSame ==
  ASSUME PlacedInv, IdsKept, UNCHANGED waiting
  PROVE  PlacedInv'
<1>1. ASSUME NEW r \in waiting PROVE \E q \in Places : r \in Ids(Held'[q])
  BY DEF PlacedInv, IdsKept
<1> QED BY <1>1 DEF PlacedInv

LEMMA PlacedStep ==
  ASSUME PipelineInv, PlacedInv, NoLoss, NoLoss', [Next]_vars
  PROVE  PlacedInv'
<1>1. ASSUME NEW r \in Requests, NEW type \in {"Prompt", "Decode"}, LaunchRequest(r, type)
      PROVE  PlacedInv'
  <2>1. PICK msg \in AtSender(Host) : Enters(msg) /\ IsRequest(msg) /\ msg.request = r
    BY <1>1, LaunchEnters
  <2>2. msg \in Message
    BY DEF AtSender
  <2>3. waiting' = waiting \union {r}
    BY <1>1, LaunchEnters
  <2>4. IdsKept /\ \E p \in Places : r \in Ids(Held'[p])
    BY <2>1, <2>2, EntersKeeps
  <2>5. ASSUME NEW x \in waiting PROVE \E q \in Places : x \in Ids(Held'[q])
    BY <2>4 DEF PlacedInv, IdsKept
  <2> QED BY <2>3, <2>4, <2>5 DEF PlacedInv
<1>2. CASE GatherFinished
  <2>1. FinishedRequests = Ids(finish_queue) /\ Emptied(<<"finish_queue", Host>>)
    BY <1>2, GatherFinishedInv
  <2>2. waiting' = waiting \ FinishedRequests
    BY <1>2, Zenon DEF GatherFinished
  <2>3. Held[<<"finish_queue", Host>>] = finish_queue
    BY HeldNow
  <2>4. \A x \in Places : x # <<"finish_queue", Host>> => Held'[x] = Held[x]
    BY <2>1 DEF Emptied
  <2> QED BY <2>1, <2>2, <2>3, <2>4 DEF PlacedInv
<1>3. CASE ScatterSend
  <2> DEFINE p == <<"launch_queue", Host>>
  <2>1. Leaves(p) /\ p \in Places /\ Held[p] = launch_queue
    BY <1>3, ScatterSendInv, PlaceNames, HeldNow
  <2> HIDE DEF p
  <2>2. Held[p] # <<>> /\ IsRequest(Head(Held[p])) => LinksUp
    BY <2>1 DEF NoLoss, Sending
  <2>3. IdsKept
    BY <2>1, <2>2, LeavesKeeps
  <2>4. UNCHANGED waiting
    BY <1>3, SenderKeeps DEF client_vars
  <2> QED BY <2>3, <2>4, PlacedSame
<1>4. CASE GatherPushInfo
  <2>1. UNCHANGED waiting
    BY <1>4, Zenon DEF GatherPushInfo, client_vars
  <2> QED BY <1>4, <2>1, GatherPushInfoInv, EntersKeeps, PlacedSame
<1>5. ASSUME NEW w \in Workers, WorkerStep(w) \/ WorkerSend(w) PROVE PlacedInv'
  <2>1. CASE Fetch(w)
    <3>1. UNCHANGED waiting
      BY <2>1, Zenon DEF Fetch, client_vars
    <3> QED BY <2>1, <3>1, FetchInv, TogetherKeeps, PlaceNames, PlacedSame
  <2>2. CASE Submit(w)
    <3>1. UNCHANGED waiting
      BY <2>2, Zenon DEF Submit, client_vars
    <3> QED BY <2>2, <3>1, SubmitInv, GoesKeeps, PlaceNames, PlacedSame
  <2>3. CASE WorkerSend(w)
    <3> DEFINE p == <<"compute_send_queue", w>>
    <3>1. Leaves(p) /\ p \in Places /\ Held[p] = compute_send_queue[w]
      BY <2>3, WorkerSendInv, PlaceNames, HeldNow
    <3> HIDE DEF p
    <3>2. Held[p] # <<>> /\ IsRequest(Head(Held[p])) => LinksUp
      BY <3>1 DEF NoLoss, Sending
    <3>3. IdsKept
      BY <3>1, <3>2, LeavesKeeps
    <3>4. UNCHANGED waiting
      BY <2>3, SenderKeeps DEF client_vars
    <3> QED BY <3>3, <3>4, PlacedSame
  <2> QED BY <1>5, <2>1, <2>2, <2>3 DEF WorkerStep
<1>6. ASSUME NEW m \in Machines, NEW n \in Machines, LinkStep(m, n) PROVE PlacedInv'
  <2>1. CASE n \in Workers /\ ReceiveRequest(m, n)
    <3>1. <<m, n>> \in Edges
      BY <2>1, Zenon DEF ReceiveRequest, Poll
    <3>2. IdsKept
      BY <2>1, <3>1, ReceiveRequestInv, GoesKeeps, PlaceNames
    <3> QED BY <1>6, <3>2, ReceiveKeeps, PlacedSame DEF client_vars
  <2>2. CASE n \in Workers /\ ReceiveSwarmInfo(m, n)
    <3>1. <<m, n>> \in Edges
      BY <2>2, Zenon DEF ReceiveSwarmInfo, Poll
    <3>2. IdsKept
      BY <2>2, <3>1, ReceiveSwarmInfoInv, GoesKeeps, PlaceNames
    <3> QED BY <1>6, <3>2, ReceiveKeeps, PlacedSame DEF client_vars
  <2>3. CASE n = Host /\ GatherRequest(m)
    <3>1. Goes(<<"link", <<m, Host>>>>, <<"finish_queue", Host>>, 0) /\ <<m, Host>> \in Edges
      BY <2>3, GatherRequestInv
    <3>2. IdsKept
      BY <3>1, GoesKeeps, PlaceNames
    <3> QED BY <1>6, <3>2, ReceiveKeeps, PlacedSame DEF client_vars
  <2> QED BY <1>6, <2>1, <2>2, <2>3 DEF LinkStep
<1>7. ASSUME NEW e \in Edges, BreakLink(e) PROVE FALSE
  <2>1. subscribed' = subscribed \ {e}
    BY <1>7, Zenon DEF BreakLink
  <2> QED BY <2>1 DEF NoLoss
<1>8. ASSUME NEW e \in Edges, RestoreLink(e) PROVE FALSE
  <2>1. e \in Edges \ subscribed
    BY <1>8, Zenon DEF RestoreLink
  <2> QED BY <2>1 DEF NoLoss
<1>9. CASE UNCHANGED vars \/ AllServed
  <2>1. UNCHANGED waiting /\ Held' = Held
    BY <1>9, SameInv DEF vars, AllServed, links, client_vars
  <2> QED BY <2>1 DEF PlacedInv
<1> QED BY <1>1, <1>2, <1>3, <1>4, <1>5, <1>6, <1>7, <1>8, <1>9 DEF Next

LEMMA PlacedOnce == PipelineInv /\ PlacedInv => OneCopyWhileWaiting
BY HeldCopies DEF PlacedInv, OneCopyWhileWaiting

\* As long as no connection breaks and no request meets a full link, what the
\* client waits for is in exactly one place, and nothing else is anywhere.
THEOREM NothingLost == Spec /\ []NoLoss => []OneCopyWhileWaiting
<1>1. Init => PlacedInv
  BY DEF Init, PlacedInv
<1>2. PipelineInv /\ PlacedInv /\ NoLoss /\ NoLoss' /\ [Next]_vars => PlacedInv'
  BY PlacedStep
<1> QED BY <1>1, <1>2, PlacedOnce, Invariance, PTL DEF Spec


\* Without swarm there are no messages but requests, and without connections
\* that break all links stay subscribed.
AllRequests == \A p \in Places : \A i \in DOMAIN Held[p] : IsRequest(Held[p][i])

CalmInv == subscribed = Edges /\ gather_info = <<>> /\ AllRequests

LEMMA GoesRequests ==
  ASSUME PipelineInv, AllRequests, NEW p \in Places, NEW q \in Places, NEW n, Goes(p, q, n)
  PROVE  AllRequests'
<1>1. PICK msg \in Message : Moved(Held, Held', p, q, msg) /\ (IsRequest(Head(Held[p])) <=> IsRequest(msg))
  BY DEF Goes
<1>2. SpotsMoved(Held, Held', p, q, msg)
  <2>1. Held \in [Places -> Seq(Message)]
    BY HeldSeqs
  <2> QED BY <1>1, <2>1, MovedSpots
<1>3. IsRequest(msg)
  BY <1>1, <1>2 DEF AllRequests, SpotsMoved
<1>4. ASSUME NEW x \in Places, NEW i \in DOMAIN Held'[x] PROVE IsRequest(Held'[x][i])
  <2>1. CASE x = p
    BY <1>2, <1>4, <2>1 DEF AllRequests, SpotsMoved
  <2>2. CASE x = q
    BY <1>2, <1>3, <1>4, <2>2 DEF AllRequests, SpotsMoved
  <2>3. CASE x # p /\ x # q
    <3>1. Held'[x] = Held[x]
      BY <1>2, <2>3 DEF SpotsMoved
    <3> QED BY <1>4, <3>1 DEF AllRequests
  <2> QED BY <2>1, <2>2, <2>3
<1> QED BY <1>4 DEF AllRequests

LEMMA ShortenedRequests ==
  ASSUME AllRequests, NEW p \in Places, Shortened(p)
  PROVE  AllRequests'
<1>1. ASSUME NEW x \in Places, NEW i \in DOMAIN Held'[x] PROVE IsRequest(Held'[x][i])
  <2>1. CASE x = p
    BY <1>1, <2>1 DEF AllRequests, Shortened
  <2>2. CASE x # p
    BY <1>1, <2>2 DEF AllRequests, Shortened
  <2> QED BY <2>1, <2>2
<1> QED BY <1>1 DEF AllRequests

LEMMA TogetherRequests ==
  ASSUME AllRequests, NEW p \in Places, NEW q \in Places, GoTogether(p, q)
  PROVE  AllRequests'
<1>1. ASSUME NEW x \in Places, NEW i \in DOMAIN Held'[x] PROVE IsRequest(Held'[x][i])
  <2>1. CASE x = p
    BY <1>1, <2>1 DEF GoTogether
  <2>2. CASE x = q
    BY <1>1, <2>2 DEF AllRequests, GoTogether
  <2>3. CASE x # p /\ x # q
    BY <1>1, <2>3 DEF AllRequests, GoTogether
  <2> QED BY <2>1, <2>2, <2>3
<1> QED BY <1>1 DEF AllRequests

LEMMA LeavesRequests ==
  ASSUME PipelineInv, AllRequests, NEW p \in Places, Leaves(p)
  PROVE  AllRequests'
<1>1. CASE Dropped(p)
  BY <1>1, Losses, ShortenedRequests
<1>2. CASE \E e \in Edges : Goes(p, <<"link", e>>, 0)
  <2>1. PICK e \in Edges : Goes(p, <<"link", e>>, 0)
    BY <1>2
  <2> QED BY <2>1, GoesRequests, PlaceNames
<1> QED BY <1>1, <1>2 DEF Leaves

LEMMA EntersRequests ==
  ASSUME PipelineInv, AllRequests, NEW msg, IsRequest(msg), Enters(msg)
  PROVE  AllRequests'
<1>1. ASSUME NEW x \in Places, NEW i \in DOMAIN Held'[x] PROVE IsRequest(Held'[x][i])
  BY <1>1, EnteredSpots DEF AllRequests
<1> QED BY <1>1 DEF AllRequests

LEMMA CalmStep ==
  ASSUME Scheduler # "swarm", Breakable = {}, PipelineInv, CalmInv, [Next]_vars
  PROVE  CalmInv'
<1>1. ASSUME NEW r \in Requests, NEW type \in {"Prompt", "Decode"}, LaunchRequest(r, type)
      PROVE  CalmInv'
  <2>1. \E msg \in AtSender(Host) : Enters(msg) /\ IsRequest(msg)
    BY <1>1, LaunchEnters
  <2>2. UNCHANGED <<gather_info, subscribed>>
    <3>1. UNCHANGED gather_info
      BY <1>1, Zenon DEF LaunchRequest
    <3> QED BY <1>1, <3>1, LaunchEnters
  <2> QED BY <2>1, <2>2, EntersRequests DEF CalmInv
<1>2. CASE GatherFinished
  <2>1. Emptied(<<"finish_queue", Host>>)
    BY <1>2, GatherFinishedInv
  <2>2. UNCHANGED <<gather_info, subscribed>>
    BY <1>2, Zenon DEF GatherFinished, links
  <2> QED BY <2>1, <2>2, Losses, ShortenedRequests, PlaceNames DEF CalmInv
<1>3. CASE ScatterSend
  <2>1. Leaves(<<"launch_queue", Host>>)
    BY <1>3, ScatterSendInv
  <2>2. UNCHANGED gather_info
    BY <1>3, Zenon DEF ScatterSend
  <2> QED BY <1>3, <2>1, <2>2, SenderKeeps, LeavesRequests, PlaceNames DEF CalmInv
<1>4. CASE GatherPushInfo
  <2>1. gather_info # <<>>
    BY <1>4, Zenon DEF GatherPushInfo
  <2> QED BY <2>1 DEF CalmInv
<1>5. ASSUME NEW w \in Workers, WorkerStep(w) \/ WorkerSend(w) PROVE CalmInv'
  <2>1. CASE Fetch(w)
    <3>1. UNCHANGED <<gather_info, subscribed>>
      BY <2>1, Zenon DEF Fetch, host_vars, links
    <3> QED BY <2>1, <3>1, FetchInv, TogetherRequests, PlaceNames DEF CalmInv
  <2>2. CASE Submit(w)
    <3>1. UNCHANGED <<gather_info, subscribed>>
      BY <2>2, Zenon DEF Submit, host_vars, links
    <3> QED BY <2>2, <3>1, SubmitInv, GoesRequests, PlaceNames DEF CalmInv
  <2>3. CASE WorkerSend(w)
    <3>1. UNCHANGED gather_info
      BY <2>3, Zenon DEF WorkerSend, host_vars
    <3> QED BY <2>3, <3>1, WorkerSendInv, SenderKeeps, LeavesRequests, PlaceNames DEF CalmInv
  <2> QED BY <1>5, <2>1, <2>2, <2>3 DEF WorkerStep
<1>6. ASSUME NEW m \in Machines, NEW n \in Machines, LinkStep(m, n) PROVE CalmInv'
  <2>1. CASE n \in Workers /\ ReceiveRequest(m, n)
    <3>1. <<m, n>> \in Edges /\ UNCHANGED gather_info
      BY <2>1, Zenon DEF ReceiveRequest, Poll, host_vars
    <3> QED BY <1>6, <2>1, <3>1, ReceiveRequestInv, ReceiveKeeps, GoesRequests, PlaceNames DEF CalmInv
  <2>2. CASE n \in Workers /\ ReceiveSwarmInfo(m, n)
    <3>1. <<m, n>> \in Edges /\ UNCHANGED gather_info
      BY <2>2, Zenon DEF ReceiveSwarmInfo, Poll, host_vars
    <3> QED BY <1>6, <2>2, <3>1, ReceiveSwarmInfoInv, ReceiveKeeps, GoesRequests, PlaceNames DEF CalmInv
  <2>3. CASE n = Host /\ GatherRequest(m)
    <3>1. Goes(<<"link", <<m, Host>>>>, <<"finish_queue", Host>>, 0) /\ <<m, Host>> \in Edges
      BY <2>3, GatherRequestInv
    <3>2. gather_info' = IF Scheduler = "swarm" THEN <<SwarmInfo(Head(chan[<<m, Host>>]))>> ELSE <<>>
      BY <2>3, Zenon DEF GatherRequest
    <3> QED BY <1>6, <3>1, <3>2, ReceiveKeeps, GoesRequests, PlaceNames DEF CalmInv
  <2> QED BY <1>6, <2>1, <2>2, <2>3 DEF LinkStep
<1>7. ASSUME NEW e \in Edges, BreakLink(e) PROVE FALSE
  BY <1>7, Zenon DEF BreakLink
<1>8. ASSUME NEW e \in Edges, RestoreLink(e) PROVE FALSE
  <2>1. e \in Edges \ subscribed
    BY <1>8, Zenon DEF RestoreLink
  <2> QED BY <2>1 DEF CalmInv
<1>9. CASE UNCHANGED vars \/ AllServed
  <2>1. UNCHANGED <<gather_info, subscribed>> /\ Held' = Held
    BY <1>9, SameInv DEF vars, AllServed, links, host_vars
  <2> QED BY <2>1 DEF CalmInv, AllRequests
<1> QED BY <1>1, <1>2, <1>3, <1>4, <1>5, <1>6, <1>7, <1>8, <1>9 DEF Next


\* A queue of requests, all different and none of them r, is shorter than the
\* number of requests.
LEMMA FewerThanAll ==
  ASSUME NEW q \in Seq(Message), Distinct(q), \A i \in DOMAIN q : IsRequest(q[i]),
         NEW r \in Requests, r \notin Ids(q)
  PROVE  Len(q) < Cardinality(Requests)
<1> DEFINE ids == [i \in 1..Len(q) |-> q[i].request]
           T   == Requests \ {r}
<1>1. DOMAIN q = 1..Len(q) /\ Len(q) \in Nat
  OBVIOUS
<1>2. ASSUME NEW i \in 1..Len(q) PROVE q[i].request \in T
  <2>1. q[i].request \in Requests
    BY <1>1, ElementIn, MessageType
  <2>2. q[i].request \in Ids(q)
    BY <1>1, IdsOf
  <2> QED BY <2>1, <2>2
<1>3. \A i, j \in 1..Len(q) : q[i].request = q[j].request => i = j
  BY <1>1 DEF Distinct
<1>4. ids \in Injection(1..Len(q), T)
  <2>1. ids \in [1..Len(q) -> T]
    BY <1>2
  <2>2. IsInjective(ids)
    BY <1>3 DEF IsInjective
  <2> QED BY <2>1, <2>2 DEF Injection
<1>5. IsFiniteSet(Requests)
  BY PipelineConstants
<1>6. IsFiniteSet(T) /\ Cardinality(T) = Cardinality(Requests) - 1
  BY <1>5, FS_RemoveElement
<1>7. Cardinality(1..Len(q)) <= Cardinality(T)
  <2> HIDE DEF ids, T
  <2> QED BY <1>4, <1>6, FS_Injection
<1>8. Cardinality(1..Len(q)) = Len(q)
  <2> DEFINE n == Len(q)
  <2>1. n \in Nat
    BY <1>1
  <2> HIDE DEF n
  <2>2. Cardinality(1..n) = IF 1 > n THEN 0 ELSE n - 1 + 1
    BY <2>1, FS_Interval
  <2>3. Cardinality(1..n) = n
    BY <2>1, <2>2
  <2> QED BY <2>3 DEF n
<1>9. Cardinality(Requests) \in Nat
  BY <1>5, FS_CardinalityType
<1> QED BY <1>1, <1>6, <1>7, <1>8, <1>9

LEMMA RoomForAll ==
  ASSUME Cardinality(Requests) <= HWM, PipelineInv, CalmInv
  PROVE  NoLoss
<1>1. Once(Held, waiting)
  BY DEF PipelineInv
<1>2. ASSUME NEW p \in Places, p[1] # "link", Held[p] # <<>>, NEW e \in Edges
      PROVE  Len(chan[e]) < HWM
  <2> DEFINE q == <<"link", e>>
             r == Held[p][1].request
  <2>1. q \in Places /\ p # q /\ Held[q] = chan[e]
    BY <1>2, PlaceNames, HeldNow
  <2>2. 1 \in DOMAIN Held[p]
    <3>1. Held[p] \in Seq(Message) /\ DOMAIN Held[p] = 1..Len(Held[p])
      BY HeldSeqs
    <3> QED BY <1>2, <3>1, NotEmpty
  <2>3. IsRequest(Held[p][1])
    BY <2>2 DEF CalmInv, AllRequests
  <2>4. r \in Requests
    BY <2>2, HeldSeqs, ElementIn, MessageType
  <2>5. r \in Ids(Held[p])
    BY <2>2, <2>3, IdsOf
  <2> HIDE DEF q, r
  <2>6. r \notin Ids(Held[q]) /\ Distinct(Held[q])
    BY <1>1, <2>1, <2>5 DEF Once
  <2>7. Held[q] \in Seq(Message) /\ \A i \in DOMAIN Held[q] : IsRequest(Held[q][i])
    BY <2>1, HeldSeqs DEF CalmInv, AllRequests
  <2>8. Len(chan[e]) < Cardinality(Requests)
    BY <2>1, <2>4, <2>6, <2>7, FewerThanAll
  <2>9. Len(chan[e]) \in Nat /\ Cardinality(Requests) \in Nat /\ HWM \in Nat
    BY <2>1, HeldSeqs, PipelineConstants, FS_CardinalityType
  <2> QED BY <2>8, <2>9
<1>3. ASSUME Sending PROVE \A e \in Edges : Len(chan[e]) < HWM
  <2>1. CASE launch_queue # <<>>
    <3>1. Held[<<"launch_queue", Host>>] = launch_queue /\ <<"launch_queue", Host>> \in Places
      BY HeldNow, PlaceNames
    <3> QED BY <1>2, <2>1, <3>1
  <2>2. ASSUME NEW w \in Workers, compute_send_queue[w] # <<>>
        PROVE  \A e \in Edges : Len(chan[e]) < HWM
    <3>1. /\ Held[<<"compute_send_queue", w>>] = compute_send_queue[w]
          /\ <<"compute_send_queue", w>> \in Places
      BY HeldNow, PlaceNames
    <3> QED BY <1>2, <2>2, <3>1
  <2> QED BY <1>3, <2>1, <2>2 DEF Sending
<1> QED BY <1>3 DEF NoLoss, CalmInv, LinksUp

\* Over connections that stand, without swarm, a high-water mark that is not
\* below the number of requests the client has loses nothing, whatever the
\* interleaving and however often the requests are launched.
THEOREM OneCopyInQueues ==
  ASSUME Scheduler # "swarm", Breakable = {}, Cardinality(Requests) <= HWM
  PROVE  Spec => []OneCopyWhileWaiting
<1>1. Init => CalmInv
  BY HeldInit DEF Init, CalmInv, AllRequests
<1>2. PipelineInv /\ CalmInv /\ [Next]_vars => CalmInv'
  BY CalmStep
<1>3. PipelineInv /\ CalmInv => NoLoss
  BY RoomForAll
<1> QED BY <1>1, <1>2, <1>3, NothingLost, Invariance, PTL DEF Spec


-------------------------------------------------------------------------------
(* Requests that take the same way keep their order.  A spot is a place and *)
(* a position in it; its way is the servers of the stages its request has   *)
(* reached.                                                                 *)

Spots(c) == {s \in Places \X Nat : s[2] \in DOMAIN c[s[1]] /\ IsRequest(c[s[1]][s[2]])}

In(c, s) == c[s[1]][s[2]]

Reach(c, s) == In(c, s).stage + Passed(s[1])

Time(c, s) == In(c, s).creation_time

\* The way of s is part of the way of t, or the same.
Along(c, s, t) ==
  /\ Reach(c, s) <= Reach(c, t)
  /\ \A n \in 1..Reach(c, s) : In(c, s).route[n].server = In(c, t).route[n].server

Beside(c, s, t) == Along(c, s, t) /\ Reach(c, t) = Reach(c, s)

\* How far a place is along a machine: its link, then its queues in turn.
Rank(p) == CASE p[1] = "link" -> 1
             [] p[1] \in {"recv_compute_queue", "finish_queue"} -> 2
             [] p[1] = "on_the_fly" -> 3
             [] p[1] \in {"launch_queue", "compute_send_queue"} -> 4

Before(s, t) == (s[1] = t[1] /\ s[2] < t[2]) \/ Rank(t[1]) < Rank(s[1])

\* None that was launched later is further along the same way: neither on a later
\* stage nor closer to the next.
InOrder(c, T) ==
  /\ \A s \in Spots(c) : Time(c, s) < T
  /\ \A s, t \in Spots(c) : Time(c, s) < Time(c, t) /\ Along(c, s, t) => Reach(c, t) = Reach(c, s)
  /\ \A s, t \in Spots(c) : Beside(c, s, t) /\ Before(s, t) => Time(c, s) <= Time(c, t)

\* The way and the rank tell the place; only launch_queue is before every stage.
WayTells(c) ==
  /\ \A s, t \in Spots(c) : Beside(c, s, t) /\ Rank(s[1]) = Rank(t[1]) => s[1] = t[1]
  /\ \A s \in Spots(c) : Reach(c, s) = 0 => s[1] = <<"launch_queue", Host>>

LEMMA RankType ==
  ASSUME NEW p \in Places
  PROVE  Rank(p) \in 1..4 /\ Passed(p) \in 0..1
BY PlaceKinds DEF Rank, Passed

LEMMA Ranked == \A p \in Places : Rank(p) \in Nat
<1>1. ASSUME NEW p \in Places PROVE Rank(p) \in Nat
  <2>1. Rank(p) \in 1..4
    BY RankType
  <2> QED BY <2>1
<1> QED BY <1>1

LEMMA SpotType ==
  ASSUME NEW c \in [Places -> Seq(Message)], NEW s \in Spots(c)
  PROVE  /\ s[1] \in Places /\ s[2] \in DOMAIN c[s[1]] /\ s[2] \in Nat /\ s[2] > 0
         /\ s = <<s[1], s[2]>>
         /\ In(c, s) \in Message /\ IsRequest(In(c, s))
         /\ Reach(c, s) \in Nat /\ Time(c, s) \in Nat
<1>1. /\ s[1] \in Places /\ s[2] \in DOMAIN c[s[1]] /\ s[2] \in Nat /\ s = <<s[1], s[2]>>
      /\ IsRequest(In(c, s))
  BY DEF Spots, In
<1>2. c[s[1]] \in Seq(Message)
  BY <1>1
<1>3. s[2] > 0 /\ c[s[1]][s[2]] \in Message
  BY <1>1, <1>2
<1>4. In(c, s).stage \in Nat /\ In(c, s).creation_time \in Nat
  BY <1>3, MessageType DEF In
<1>5. Passed(s[1]) \in 0..1
  BY <1>1, RankType
<1>6. Reach(c, s) \in Nat /\ Time(c, s) \in Nat
  BY <1>4, <1>5 DEF Reach, Time
<1> QED BY <1>1, <1>3, <1>6 DEF In

\* Where the head and the last spots of a queue are.
LEMMA SpotIs ==
  ASSUME NEW c, NEW p \in Places, NEW i \in Nat, i \in DOMAIN c[p], IsRequest(c[p][i])
  PROVE  <<p, i>> \in Spots(c) /\ In(c, <<p, i>>) = c[p][i]
BY DEF Spots, In

-------------------------------------------------------------------------------

\* s of d is o of c, with the same way.
Same(c, d, o, s) ==
  /\ o \in Spots(c)
  /\ Time(d, s) = Time(c, o) /\ Reach(d, s) = Reach(c, o)
  /\ \A n \in 1..Reach(c, o) : In(d, s).route[n].server = In(c, o).route[n].server

LEMMA AlongSame ==
  ASSUME NEW c \in [Places -> Seq(Message)], NEW d \in [Places -> Seq(Message)],
         NEW s \in Spots(d), NEW t \in Spots(d), NEW o, NEW u, Same(c, d, o, s), Same(c, d, u, t)
  PROVE  /\ Along(d, s, t) => Along(c, o, u)
         /\ Beside(d, s, t) => Beside(c, o, u)
<1>1. Reach(c, o) \in Nat /\ Reach(c, u) \in Nat
  BY SpotType DEF Same
<1>2. ASSUME Along(d, s, t) PROVE Along(c, o, u)
  <2>1. ASSUME NEW n \in 1..Reach(c, o)
        PROVE  In(c, o).route[n].server = In(c, u).route[n].server
    <3>1. n \in 1..Reach(c, u) /\ n \in 1..Reach(d, s)
      BY <1>1, <1>2 DEF Same, Along
    <3> QED BY <1>2, <3>1 DEF Same, Along
  <2> QED BY <1>2, <2>1 DEF Same, Along
<1> QED BY <1>2 DEF Beside, Same

\* A spot that keeps its way keeps its order with the others, when nobody gets
\* before another one on the same way.
LEMMA OrderKept ==
  ASSUME NEW c \in [Places -> Seq(Message)], NEW d \in [Places -> Seq(Message)],
         NEW T \in Nat, InOrder(c, T), NEW org,
         \A s \in Spots(d) : Same(c, d, org[s], s),
         \A s, t \in Spots(d) :
           Beside(c, org[s], org[t]) /\ Before(s, t) => Before(org[s], org[t])
  PROVE  InOrder(d, T)
<1>1. ASSUME NEW s \in Spots(d) PROVE Time(d, s) < T
  BY DEF Same, InOrder
<1>2. ASSUME NEW s \in Spots(d), NEW t \in Spots(d), Time(d, s) < Time(d, t), Along(d, s, t)
      PROVE  Reach(d, t) = Reach(d, s)
  <2>1. Same(c, d, org[s], s) /\ Same(c, d, org[t], t)
    OBVIOUS
  <2>2. Along(c, org[s], org[t])
    BY <1>2, <2>1, AlongSame
  <2> QED BY <1>2, <2>1, <2>2 DEF Same, InOrder
<1>3. ASSUME NEW s \in Spots(d), NEW t \in Spots(d), Beside(d, s, t), Before(s, t)
      PROVE  Time(d, s) <= Time(d, t)
  <2>1. Same(c, d, org[s], s) /\ Same(c, d, org[t], t)
    OBVIOUS
  <2>2. Beside(c, org[s], org[t])
    BY <1>3, <2>1, AlongSame
  <2> QED BY <1>3, <2>1, <2>2 DEF Same, InOrder
<1> QED BY <1>1, <1>2, <1>3 DEF InOrder

\* What stays where it is.
LEMMA SameThere ==
  ASSUME NEW c, NEW d, NEW s \in Spots(d), NEW i \in Nat, i \in DOMAIN c[s[1]],
         d[s[1]][s[2]] = c[s[1]][i]
  PROVE  Same(c, d, <<s[1], i>>, s)
<1>1. s[1] \in Places /\ IsRequest(d[s[1]][s[2]])
  BY DEF Spots
<1>2. <<s[1], i>> \in Spots(c)
  BY <1>1, SpotIs
<1> QED BY <1>2 DEF Same, Time, Reach, In


-------------------------------------------------------------------------------

\* Lost requests leave the others in order.
LEMMA OrderShortened ==
  ASSUME NEW c \in [Places -> Seq(Message)], NEW d \in [Places -> Seq(Message)], NEW T \in Nat,
         InOrder(c, T), NEW p \in Places, NEW skip \in Nat,
         \A i \in DOMAIN d[p] : i + skip \in DOMAIN c[p] /\ d[p][i] = c[p][i + skip],
         \A x \in Places : x # p => d[x] = c[x]
  PROVE  InOrder(d, T)
<1> DEFINE org == [s \in Spots(d) |-> IF s[1] = p THEN <<p, s[2] + skip>> ELSE s]
<1>1. ASSUME NEW s \in Spots(d)
      PROVE  /\ s[1] \in Places /\ s[2] \in Nat /\ s[2] \in DOMAIN d[s[1]] /\ s = <<s[1], s[2]>>
             /\ org[s][1] = s[1]
             /\ org[s][2] = IF s[1] = p THEN s[2] + skip ELSE s[2]
  BY SpotType
<1>2. ASSUME NEW s \in Spots(d) PROVE Same(c, d, org[s], s)
  <2>1. CASE s[1] = p
    <3>1. /\ s[2] + skip \in Nat /\ s[2] + skip \in DOMAIN c[s[1]]
          /\ d[s[1]][s[2]] = c[s[1]][s[2] + skip]
      BY <1>1, <2>1
    <3>2. Same(c, d, <<s[1], s[2] + skip>>, s)
      BY <3>1, SameThere
    <3> QED BY <2>1, <3>2
  <2>2. CASE s[1] # p
    <3>1. s[2] \in Nat /\ s[2] \in DOMAIN c[s[1]] /\ d[s[1]][s[2]] = c[s[1]][s[2]]
      BY <1>1, <2>2
    <3>2. Same(c, d, <<s[1], s[2]>>, s)
      BY <3>1, SameThere
    <3> QED BY <1>1, <2>2, <3>2
  <2> QED BY <2>1, <2>2
<1> HIDE DEF org
<1>3. ASSUME NEW s \in Spots(d), NEW t \in Spots(d), Before(s, t)
      PROVE  Before(org[s], org[t])
  <2>1. CASE s[1] = t[1] /\ s[2] < t[2]
    <3>1. s[2] \in Nat /\ t[2] \in Nat /\ org[s][1] = s[1] /\ org[t][1] = t[1]
      BY <1>1
    <3>2. org[s][2] = IF s[1] = p THEN s[2] + skip ELSE s[2]
      BY <1>1
    <3>3. org[t][2] = IF t[1] = p THEN t[2] + skip ELSE t[2]
      BY <1>1
    <3>4. org[s][1] = org[t][1] /\ org[s][2] < org[t][2]
      BY <2>1, <3>1, <3>2, <3>3
    <3> QED BY <3>4 DEF Before
  <2>2. CASE Rank(t[1]) < Rank(s[1])
    BY <1>1, <2>2 DEF Before
  <2> QED BY <1>3, <2>1, <2>2 DEF Before
<1> QED BY <1>2, <1>3, OrderKept

\* Where a spot was before the head of p became the last of q.
Origin(c, p, q, s) ==
  IF s[1] = p THEN <<p, s[2] + 1>> ELSE IF s = <<q, Len(c[q]) + 1>> THEN <<p, 1>> ELSE s

\* The spot s was o: the head of p, which has become the last of q behind n others,
\* or at the same place.
Moves(p, q, n, s, o) == s[1] = q /\ s[2] = n + 1 /\ o = <<p, 1>>

Stays(p, q, n, s, o) ==
  o[1] = s[1] /\ o[2] = (IF s[1] = p THEN s[2] + 1 ELSE s[2]) /\ (s[1] = q => s[2] <= n)

LEMMA MoveOrdered ==
  ASSUME NEW p, NEW q, NEW n \in Nat, NEW s, NEW t, NEW o, NEW u, Before(s, t),
         s[2] \in Nat, t[2] \in Nat, t[2] > 0,
         Rank(p) \in Nat, Rank(s[1]) \in Nat, Rank(t[1]) \in Nat,
         Rank(o[1]) = Rank(u[1]) => o[1] = u[1],
         Stays(p, q, n, s, o) \/ (Moves(p, q, n, s, o) /\ Rank(q) = Rank(p) + 1),
         Stays(p, q, n, t, u) \/ (Moves(p, q, n, t, u) /\ Rank(q) = Rank(p) + 1)
  PROVE  Before(o, u)
<1>1. CASE Stays(p, q, n, s, o) /\ Stays(p, q, n, t, u)
  <2>1. s[1] = t[1] /\ s[2] < t[2] => o[2] < u[2]
    BY <1>1 DEF Stays
  <2> QED BY <1>1, <2>1 DEF Before, Stays
<1>2. CASE Moves(p, q, n, s, o) /\ Rank(q) = Rank(p) + 1 /\ Stays(p, q, n, t, u)
  <2>1. Rank(t[1]) < Rank(p) + 1
    BY <1>2 DEF Before, Moves, Stays
  <2>2. o[1] = p /\ o[2] = 1 /\ u[1] = t[1]
    BY <1>2 DEF Moves, Stays
  <2>3. CASE Rank(t[1]) = Rank(p)
    <3>1. t[1] = p
      BY <2>2, <2>3
    <3>2. o[2] < u[2]
      BY <1>2, <2>2, <3>1 DEF Stays
    <3> QED BY <2>2, <3>1, <3>2 DEF Before
  <2>4. CASE Rank(t[1]) # Rank(p)
    <3>1. Rank(t[1]) < Rank(p)
      BY <2>1, <2>4
    <3> QED BY <2>2, <3>1 DEF Before
  <2> QED BY <2>3, <2>4
<1>3. CASE Stays(p, q, n, s, o) /\ Moves(p, q, n, t, u) /\ Rank(q) = Rank(p) + 1
  <2>1. u[1] = p /\ o[1] = s[1] /\ t[1] = q
    BY <1>3 DEF Moves, Stays
  <2>2. s[1] = q \/ Rank(q) < Rank(s[1])
    BY <2>1 DEF Before
  <2>3. Rank(p) < Rank(s[1])
    BY <1>3, <2>2
  <2> QED BY <2>1, <2>3 DEF Before
<1>4. CASE Moves(p, q, n, s, o) /\ Moves(p, q, n, t, u)
  BY <1>4 DEF Moves, Before
<1> QED BY <1>1, <1>2, <1>3, <1>4

LEMMA OriginIs ==
  ASSUME NEW c \in [Places -> Seq(Message)], NEW d \in [Places -> Seq(Message)],
         NEW p \in Places, NEW q \in Places, p # q, NEW msg, SpotsMoved(c, d, p, q, msg),
         NEW s \in Spots(d)
  PROVE  \/ Moves(p, q, Len(c[q]), s, Origin(c, p, q, s)) /\ s = <<q, Len(c[q]) + 1>>
            /\ In(d, s) = msg /\ IsRequest(msg)
         \/ Stays(p, q, Len(c[q]), s, Origin(c, p, q, s)) /\ Same(c, d, Origin(c, p, q, s), s)
<1>1. /\ s[1] \in Places /\ s[2] \in Nat /\ s[2] > 0 /\ s[2] \in DOMAIN d[s[1]] /\ s = <<s[1], s[2]>>
      /\ IsRequest(In(d, s))
  BY SpotType
<1>2. Len(c[q]) \in Nat /\ DOMAIN c[q] = 1..Len(c[q])
  BY DEF SpotsMoved
<1>3. CASE s[1] = p
  <2>1. s[2] + 1 \in Nat /\ s[2] + 1 \in DOMAIN c[s[1]] /\ d[s[1]][s[2]] = c[s[1]][s[2] + 1]
    BY <1>1, <1>3 DEF SpotsMoved
  <2>2. Same(c, d, <<s[1], s[2] + 1>>, s)
    BY <2>1, SameThere
  <2>3. Origin(c, p, q, s) = <<s[1], s[2] + 1>>
    BY <1>3 DEF Origin
  <2> QED BY <1>3, <2>2, <2>3 DEF Stays
<1>4. CASE s[1] # p /\ ~(s[1] = q /\ s[2] = Len(c[q]) + 1)
  <2>1. s[2] \in DOMAIN c[s[1]] /\ d[s[1]][s[2]] = c[s[1]][s[2]]
    BY <1>1, <1>4 DEF SpotsMoved
  <2>2. Same(c, d, <<s[1], s[2]>>, s)
    BY <1>1, <2>1, SameThere
  <2>3. Origin(c, p, q, s) = s
    BY <1>1, <1>4 DEF Origin
  <2>4. s[1] = q => s[2] <= Len(c[q])
    BY <1>2, <2>1
  <2>5. Same(c, d, s, s)
    BY <1>1, <2>2
  <2> QED BY <1>4, <2>3, <2>4, <2>5 DEF Stays
<1>5. CASE s[1] = q /\ s[2] = Len(c[q]) + 1
  <2>1. s = <<q, Len(c[q]) + 1>>
    BY <1>1, <1>5
  <2>2. In(d, s) = msg
    <3>1. Len(c[q]) + 1 \notin DOMAIN c[q]
      BY <1>2
    <3> QED BY <1>1, <1>5, <3>1 DEF SpotsMoved, In
  <2>3. Origin(c, p, q, s) = <<p, 1>>
    BY <1>5, <2>1 DEF Origin
  <2> QED BY <1>1, <1>5, <2>1, <2>2, <2>3 DEF Moves
<1> QED BY <1>3, <1>4, <1>5

\* On its way through a machine a request moves to the next place, behind those
\* that came there before it.
LEMMA OrderMoved ==
  ASSUME NEW c \in [Places -> Seq(Message)], NEW d \in [Places -> Seq(Message)], NEW T \in Nat,
         InOrder(c, T), WayTells(c), NEW p \in Places, NEW q \in Places, p # q, NEW msg,
         SpotsMoved(c, d, p, q, msg), IsRequest(msg) => Rank(q) = Rank(p) + 1,
         \A s \in Spots(d) : s = <<q, Len(c[q]) + 1>> => Same(c, d, <<p, 1>>, s)
  PROVE  InOrder(d, T)
<1> DEFINE org == [s \in Spots(d) |-> Origin(c, p, q, s)]
           n   == Len(c[q])
<1>0. \A s \in Spots(d) : org[s] = Origin(c, p, q, s)
  OBVIOUS
<1> HIDE DEF org
<1>1. ASSUME NEW s \in Spots(d)
      PROVE  /\ Same(c, d, org[s], s)
             /\ Stays(p, q, n, s, org[s]) \/ (Moves(p, q, n, s, org[s]) /\ Rank(q) = Rank(p) + 1)
  <2>1. CASE Moves(p, q, n, s, org[s]) /\ s = <<q, n + 1>> /\ IsRequest(msg)
    <3>1. org[s] = <<p, 1>>
      BY <2>1 DEF Moves
    <3> QED BY <2>1, <3>1
  <2>2. CASE Stays(p, q, n, s, org[s]) /\ Same(c, d, org[s], s)
    BY <2>2
  <2> QED BY <1>0, <2>1, <2>2, OriginIs
<1>2. Rank(p) \in Nat /\ n \in Nat
  BY Ranked DEF SpotsMoved
<1>3. ASSUME NEW s \in Spots(d) PROVE Rank(s[1]) \in Nat /\ s[2] \in Nat /\ s[2] > 0
  BY SpotType, Ranked
<1> HIDE DEF n
<1>4. ASSUME NEW s \in Spots(d), NEW t \in Spots(d), Beside(c, org[s], org[t]), Before(s, t)
      PROVE  Before(org[s], org[t])
  <2>1. org[s] \in Spots(c) /\ org[t] \in Spots(c)
    BY <1>1 DEF Same
  <2>2. Rank(org[s][1]) = Rank(org[t][1]) => org[s][1] = org[t][1]
    BY <1>4, <2>1 DEF WayTells
  <2> QED BY <1>1, <1>2, <1>3, <1>4, <2>2, MoveOrdered
<1> QED BY <1>1, <1>4, OrderKept

\* A batch is fetched in its order.
LEMMA OrderTogether ==
  ASSUME NEW c \in [Places -> Seq(Message)], NEW d \in [Places -> Seq(Message)], NEW T \in Nat,
         InOrder(c, T), WayTells(c), NEW p \in Places, NEW q \in Places, p # q,
         Rank(q) = Rank(p) + 1, Passed(q) = Passed(p),
         d[p] = <<>>, c[q] = <<>>, d[q] = c[p], \A x \in Places : x # p /\ x # q => d[x] = c[x]
  PROVE  InOrder(d, T)
<1> DEFINE org == [s \in Spots(d) |-> IF s[1] = q THEN <<p, s[2]>> ELSE s]
<1>1. ASSUME NEW s \in Spots(d)
      PROVE  /\ s[1] \in Places /\ s[2] \in Nat /\ s[2] \in DOMAIN d[s[1]] /\ s = <<s[1], s[2]>>
             /\ s[1] # p /\ IsRequest(d[s[1]][s[2]])
             /\ org[s][1] = (IF s[1] = q THEN p ELSE s[1]) /\ org[s][2] = s[2]
  <2>1. /\ s[1] \in Places /\ s[2] \in DOMAIN d[s[1]] /\ s[2] \in Nat /\ s = <<s[1], s[2]>>
        /\ IsRequest(In(d, s))
    BY SpotType
  <2>2. s[1] # p
    <3>1. DOMAIN d[p] = {}
      OBVIOUS
    <3> QED BY <2>1, <3>1
  <2>3. org[s] = IF s[1] = q THEN <<p, s[2]>> ELSE s
    OBVIOUS
  <2> HIDE DEF org
  <2>4. org[s][1] = (IF s[1] = q THEN p ELSE s[1]) /\ org[s][2] = s[2]
    BY <2>3
  <2> QED BY <2>1, <2>2, <2>4 DEF In
<1>2. ASSUME NEW s \in Spots(d) PROVE Same(c, d, org[s], s)
  <2>1. CASE s[1] = q
    <3>1. s[2] \in DOMAIN c[p] /\ d[s[1]][s[2]] = c[p][s[2]]
      BY <1>1, <2>1
    <3>2. <<p, s[2]>> \in Spots(c) /\ In(c, <<p, s[2]>>) = In(d, s)
      BY <1>1, <3>1, SpotIs DEF In
    <3>3. Same(c, d, <<p, s[2]>>, s)
      BY <2>1, <3>2 DEF Same, Time, Reach
    <3> QED BY <2>1, <3>3
  <2>2. CASE s[1] # q
    <3>1. s[2] \in DOMAIN c[s[1]] /\ d[s[1]][s[2]] = c[s[1]][s[2]]
      BY <1>1, <2>2
    <3>2. Same(c, d, <<s[1], s[2]>>, s)
      BY <1>1, <3>1, SameThere
    <3> QED BY <1>1, <2>2, <3>2
  <2> QED BY <2>1, <2>2
<1>3. Rank(p) \in Nat /\ \A x \in Places : Rank(x) \in Nat
  BY Ranked
<1>4. ASSUME NEW s \in Spots(d), NEW t \in Spots(d), Beside(c, org[s], org[t]), Before(s, t)
      PROVE  Before(org[s], org[t])
  <2>1. /\ org[s] \in Spots(c) /\ org[t] \in Spots(c)
        /\ Rank(s[1]) \in Nat /\ Rank(t[1]) \in Nat
    BY <1>1, <1>2, <1>3 DEF Same
  <2>2. Rank(org[s][1]) = Rank(org[t][1]) => org[s][1] = org[t][1]
    BY <1>4, <2>1 DEF WayTells
  <2> HIDE DEF org
  <2>3. CASE s[1] = t[1]
    <3>1. s[2] < t[2]
      BY <1>4, <2>1, <2>3 DEF Before
    <3>2. org[s][1] = org[t][1] /\ org[s][2] < org[t][2]
      BY <1>1, <2>3, <3>1
    <3> QED BY <3>2 DEF Before
  <2>4. CASE s[1] # t[1] /\ s[1] = q
    <3>1. org[s][1] = p /\ org[t][1] = t[1] /\ t[1] # p /\ Rank(t[1]) < Rank(p) + 1
      BY <1>1, <1>4, <2>4 DEF Before
    <3>2. Rank(t[1]) # Rank(p)
      BY <2>2, <3>1
    <3> QED BY <1>3, <2>1, <3>1, <3>2 DEF Before
  <2>5. CASE s[1] # t[1] /\ t[1] = q
    <3>1. org[s][1] = s[1] /\ org[t][1] = p /\ Rank(p) + 1 < Rank(s[1])
      BY <1>1, <1>4, <2>5 DEF Before
    <3> QED BY <1>3, <2>1, <3>1 DEF Before
  <2>6. CASE s[1] # q /\ t[1] # q
    BY <1>1, <1>4, <2>6 DEF Before
  <2> QED BY <2>3, <2>4, <2>5, <2>6
<1> HIDE DEF org
<1> QED BY <1>2, <1>4, OrderKept


-------------------------------------------------------------------------------

\* s of d is o of c, one stage further on.
Further(c, d, o, s) ==
  /\ o \in Spots(c)
  /\ Time(d, s) = Time(c, o) /\ Reach(d, s) = Reach(c, o) + 1
  /\ \A n \in 1..Reach(c, o) : In(d, s).route[n].server = In(c, o).route[n].server

LEMMA BesideTurned ==
  ASSUME NEW c, NEW s, NEW t, Beside(c, s, t)
  PROVE  Beside(c, t, s) /\ Along(c, t, s)
<1>1. Reach(c, s) = Reach(c, t)
  BY DEF Beside
<1>2. Reach(c, t) <= Reach(c, s)
  BY <1>1 DEF Beside, Along
<1> QED BY <1>1, <1>2 DEF Beside, Along

\* What the spot that went on has behind it was part of the way before.
LEMMA AheadAlong ==
  ASSUME NEW c \in [Places -> Seq(Message)], NEW d, NEW s, NEW t, NEW h, NEW u,
         Further(c, d, h, s), Same(c, d, u, t), Along(d, s, t)
  PROVE  Along(c, h, u) /\ Reach(c, u) # Reach(c, h)
<1>1. Reach(c, h) \in Nat /\ Reach(c, u) \in Nat /\ Reach(c, h) + 1 <= Reach(c, u)
  BY SpotType DEF Further, Same, Along
<1>2. ASSUME NEW n \in 1..Reach(c, h)
      PROVE  In(c, h).route[n].server = In(c, u).route[n].server
  <2>1. n \in 1..Reach(c, u) /\ n \in 1..Reach(d, s)
    BY <1>1, <1>2 DEF Further
  <2> QED BY <1>2, <2>1 DEF Further, Same, Along
<1> QED BY <1>1, <1>2 DEF Along

LEMMA BehindAlong ==
  ASSUME NEW c \in [Places -> Seq(Message)], NEW d, NEW s, NEW t, NEW o, NEW h,
         Same(c, d, o, s), Further(c, d, h, t), Along(d, s, t), Reach(d, t) # Reach(d, s)
  PROVE  Along(c, o, h)
<1>1. Reach(c, h) \in Nat /\ Reach(c, o) \in Nat /\ Reach(c, o) <= Reach(c, h) + 1
      /\ Reach(c, o) # Reach(c, h) + 1
  BY SpotType DEF Further, Same, Along
<1>2. ASSUME NEW n \in 1..Reach(c, o)
      PROVE  In(c, o).route[n].server = In(c, h).route[n].server
  <2>1. n \in 1..Reach(c, h) /\ n \in 1..Reach(d, s)
    BY <1>1, <1>2 DEF Same
  <2> QED BY <1>2, <2>1 DEF Further, Same, Along
<1> QED BY <1>1, <1>2 DEF Along

\* The numbers of a spot.
Sized(c, s) ==
  /\ Rank(s[1]) \in Nat /\ 1 <= Rank(s[1]) /\ Rank(s[1]) <= 4
  /\ s[2] \in Nat /\ 0 < s[2] /\ Time(c, s) \in Nat /\ Reach(c, s) \in Nat

LEMMA SpotSized ==
  ASSUME NEW c \in [Places -> Seq(Message)], NEW s \in Spots(c)
  PROVE  Sized(c, s)
<1>1. s[2] \in Nat /\ 0 < s[2] /\ Time(c, s) \in Nat /\ Reach(c, s) \in Nat
  BY SpotType
<1>2. Rank(s[1]) \in Nat /\ 1 <= Rank(s[1]) /\ Rank(s[1]) <= 4
  <2>1. Rank(s[1]) \in 1..4
    BY SpotType, RankType
  <2> QED BY <2>1
<1> QED BY <1>1, <1>2 DEF Sized

\* Who is last in its place is not before another one there, nor, on a link, before
\* any other.
LEMMA NotBefore ==
  ASSUME NEW d, NEW s, NEW t, NEW n \in Nat, Sized(d, s), Sized(d, t), s[2] = n,
         t[1] = s[1] => t[2] <= n, Rank(s[1]) = 1 \/ s[1] = t[1]
  PROVE  ~Before(s, t)
BY DEF Before, Sized

LEMMA NotLess ==
  ASSUME NEW a \in Nat, NEW b \in Nat, ~(a < b)
  PROVE  b <= a
OBVIOUS

LEMMA OneAbove ==
  ASSUME NEW a \in Nat, NEW b \in Nat, a <= b
  PROVE  a <= b + 1 /\ b + 1 \in Nat
OBVIOUS

LEMMA LastThere ==
  ASSUME NEW d, NEW t, NEW p, NEW q, NEW n \in Nat, NEW o, Sized(d, t),
         Moves(p, q, n, t, o) \/ Stays(p, q, n, t, o)
  PROVE  t[1] = q => t[2] <= n + 1
BY DEF Moves, Stays, Sized

\* A request that leaves a machine is the first of those with its way that are
\* to go on.
LEMMA OrderLeft ==
  ASSUME NEW c \in [Places -> Seq(Message)], NEW d \in [Places -> Seq(Message)], NEW T \in Nat,
         InOrder(c, T), WayTells(c), NEW p \in Places, NEW q \in Places, p # q, NEW msg,
         SpotsMoved(c, d, p, q, msg), Rank(p) = 4, Rank(q) = 1,
         \A s \in Spots(d) : s = <<q, Len(c[q]) + 1>> => Further(c, d, <<p, 1>>, s)
  PROVE  InOrder(d, T)
<1> DEFINE n == Len(c[q])
           h == <<p, 1>>
           org(s) == Origin(c, p, q, s)
           Left(s) == Moves(p, q, n, s, org(s)) /\ Further(c, d, h, s)
           Still(s) == Stays(p, q, n, s, org(s)) /\ Same(c, d, org(s), s)
<1>1. ASSUME NEW s \in Spots(d) PROVE Left(s) \/ Still(s)
  BY OriginIs
<1>2. h[1] = p /\ h[2] = 1 /\ n \in Nat
  BY DEF SpotsMoved
<1>3. ASSUME NEW s \in Spots(d) PROVE Sized(d, s)
  BY SpotSized
<1> HIDE DEF n, h, org
\* h is before every other spot with the same way.
<1>4. ASSUME NEW s \in Spots(d), Still(s), Beside(c, h, org(s)), h \in Spots(c)
      PROVE  Time(c, h) <= Time(c, org(s))
  <2>1. org(s) \in Spots(c) /\ org(s)[1] = s[1] /\ (s[1] = p => org(s)[2] = s[2] + 1)
    BY <1>4 DEF Stays, Same
  <2>2. Rank(org(s)[1]) \in 1..4
    BY <2>1, SpotType, RankType
  <2>3. CASE Rank(org(s)[1]) = 4
    <3>1. org(s)[1] = p
      BY <1>2, <1>4, <2>1, <2>3 DEF WayTells
    <3>2. s[2] \in Nat /\ 0 < s[2]
      BY <1>3 DEF Sized
    <3>3. h[1] = org(s)[1] /\ h[2] < org(s)[2]
      BY <1>2, <2>1, <3>1, <3>2
    <3> QED BY <1>4, <2>1, <3>3 DEF InOrder, Before
  <2>4. CASE Rank(org(s)[1]) < 4
    <3>1. Before(h, org(s))
      BY <1>2, <2>4 DEF Before
    <3> QED BY <1>4, <2>1, <3>1 DEF InOrder
  <2> QED BY <2>2, <2>3, <2>4
<1>5. ASSUME NEW s \in Spots(d) PROVE Time(d, s) < T
  <2>1. (Left(s) => h \in Spots(c) /\ Time(d, s) = Time(c, h))
        /\ (Still(s) => org(s) \in Spots(c) /\ Time(d, s) = Time(c, org(s)))
    BY DEF Further, Same
  <2> QED BY <1>1, <2>1 DEF InOrder
<1>6. ASSUME NEW s \in Spots(d), NEW t \in Spots(d), Time(d, s) < Time(d, t), Along(d, s, t)
      PROVE  Reach(d, t) = Reach(d, s)
  <2>1. CASE Still(s) /\ Still(t)
    <3>1. Along(c, org(s), org(t))
      BY <1>6, <2>1, AlongSame
    <3> QED BY <1>6, <2>1, <3>1 DEF InOrder, Same
  <2>2. CASE Left(s) /\ Still(t)
    <3>1. Along(c, h, org(t)) /\ Reach(c, org(t)) # Reach(c, h)
      BY <1>6, <2>2, AheadAlong
    <3>2. Time(c, h) < Time(c, org(t)) /\ h \in Spots(c) /\ org(t) \in Spots(c)
      BY <1>6, <2>2 DEF Further, Same
    <3> QED BY <3>1, <3>2 DEF InOrder
  <2>3. CASE Still(s) /\ Left(t)
    <3> SUFFICES ASSUME Reach(d, t) # Reach(d, s) PROVE FALSE
      OBVIOUS
    <3>1. Along(c, org(s), h)
      BY <1>6, <2>3, BehindAlong
    <3>2. /\ Time(c, org(s)) < Time(c, h) /\ h \in Spots(c) /\ org(s) \in Spots(c)
      BY <1>6, <2>3 DEF Further, Same
    <3>3. Beside(c, org(s), h)
      BY <3>1, <3>2 DEF InOrder, Beside
    <3>4. Time(c, h) <= Time(c, org(s))
      BY <1>4, <2>3, <3>2, <3>3, BesideTurned
    <3>5. Time(c, h) \in Nat /\ Time(c, org(s)) \in Nat
      BY <3>2, SpotType
    <3> QED BY <3>2, <3>4, <3>5
  <2>4. CASE Left(s) /\ Left(t)
    <3>1. Time(d, s) = Time(d, t)
      BY <2>4 DEF Further
    <3>2. Time(d, s) \in Nat
      BY <1>3 DEF Sized
    <3> QED BY <1>6, <3>1, <3>2
  <2> QED BY <1>1, <2>1, <2>2, <2>3, <2>4
<1>7. ASSUME NEW s \in Spots(d), NEW t \in Spots(d), Beside(d, s, t), Before(s, t)
      PROVE  Time(d, s) <= Time(d, t)
  <2>1. CASE Still(s) /\ Still(t)
    <3>1. Beside(c, org(s), org(t))
      BY <1>7, <2>1, AlongSame
    <3>2. org(s) \in Spots(c) /\ org(t) \in Spots(c)
      BY <2>1 DEF Same
    <3>3. Rank(org(s)[1]) = Rank(org(t)[1]) => org(s)[1] = org(t)[1]
      BY <3>1, <3>2 DEF WayTells
    <3>4. Before(org(s), org(t))
      <4>1. /\ s[2] \in Nat /\ t[2] \in Nat /\ t[2] > 0 /\ Rank(p) \in Nat
            /\ Rank(s[1]) \in Nat /\ Rank(t[1]) \in Nat
        <5>1. Sized(d, s) /\ Sized(d, t)
          BY <1>3
        <5> QED BY <5>1 DEF Sized
      <4>2. Stays(p, q, n, s, org(s)) /\ Stays(p, q, n, t, org(t))
        BY <2>1
      <4> HIDE DEF Still, Left
      <4> QED BY <1>2, <1>7, <3>3, <4>1, <4>2, MoveOrdered
    <3> QED BY <2>1, <3>1, <3>2, <3>4 DEF InOrder, Same
  <2>2. CASE Left(s)
    <3>1. s[1] = q /\ s[2] = n + 1
      BY <2>2 DEF Moves
    <3>2. Sized(d, t)
      BY <1>3
    <3>3. Moves(p, q, n, t, org(t)) \/ Stays(p, q, n, t, org(t))
      BY <1>1
    <3>4. t[1] = q => t[2] <= n + 1
      BY <1>2, <3>2, <3>3, LastThere
    <3>5. Rank(s[1]) = 1
      BY <3>1
    <3>6. n + 1 \in Nat /\ Sized(d, s)
      BY <1>2, <1>3
    <3>7. ~Before(s, t)
      BY <3>1, <3>2, <3>4, <3>5, <3>6, NotBefore
    <3> QED BY <1>7, <3>7
  <2>3. CASE Still(s) /\ Left(t)
    <3>1. Along(d, t, s)
      BY <1>7, BesideTurned
    <3>2. Along(c, h, org(s)) /\ Reach(c, org(s)) # Reach(c, h)
      BY <2>3, <3>1, AheadAlong
    <3>3. h \in Spots(c) /\ org(s) \in Spots(c) /\ Time(d, t) = Time(c, h) /\ Time(d, s) = Time(c, org(s))
      BY <2>3 DEF Further, Same
    <3>4. ~(Time(c, h) < Time(c, org(s)))
      BY <3>2, <3>3 DEF InOrder
    <3>5. Time(d, t) \in Nat /\ Time(d, s) \in Nat /\ ~(Time(d, t) < Time(d, s))
      BY <1>3, <3>3, <3>4 DEF Sized
    <3> QED BY <3>5, NotLess
  <2> QED BY <1>1, <2>1, <2>2, <2>3
<1> QED BY <1>5, <1>6, <1>7 DEF InOrder

\* d is c and a request launched at time T behind the n messages of p.
Joined(c, d, p, n, T) ==
  \A s \in Spots(d) :
    \/ Same(c, d, s, s) /\ (s[1] = p => s[2] <= n)
    \/ s[1] = p /\ s[2] = n + 1 /\ Reach(d, s) = 0 /\ Time(d, s) = T

\* A request that is launched is behind all others.
LEMMA OrderEntered ==
  ASSUME NEW c \in [Places -> Seq(Message)], NEW d \in [Places -> Seq(Message)],
         NEW T \in Nat, NEW later \in Nat, T < later, InOrder(c, T), WayTells(c),
         NEW p \in Places, p = <<"launch_queue", Host>>, NEW n \in Nat, Joined(c, d, p, n, T)
  PROVE  InOrder(d, later)
<1> DEFINE Old(s) == Same(c, d, s, s) /\ (s[1] = p => s[2] <= n)
           New(s) == s[1] = p /\ s[2] = n + 1 /\ Reach(d, s) = 0 /\ Time(d, s) = T
<1>1. ASSUME NEW s \in Spots(d) PROVE Old(s) \/ New(s)
  BY DEF Joined
<1>2. ASSUME NEW s \in Spots(d)
      PROVE  Sized(d, s) /\ Time(d, s) <= T /\ (Old(s) => Time(d, s) < T)
  <2>1. Sized(d, s)
    BY SpotSized
  <2>2. Old(s) => Time(d, s) < T
    BY DEF Same, InOrder
  <2>3. Time(d, s) <= T
    <3>1. New(s) => Time(d, s) = T
      OBVIOUS
    <3> HIDE DEF Old, New
    <3> QED BY <1>1, <2>1, <2>2, <3>1 DEF Sized
  <2> QED BY <2>1, <2>2, <2>3
<1>3. ASSUME NEW s \in Spots(d), NEW t \in Spots(d), Time(d, s) < Time(d, t), Along(d, s, t)
      PROVE  Reach(d, t) = Reach(d, s)
  <2>0. Sized(d, s) /\ Sized(d, t) /\ Time(d, t) <= T
    BY <1>2
  <2>1. CASE Old(s) /\ Old(t)
    <3>1. Along(c, s, t)
      BY <1>3, <2>1, AlongSame
    <3> QED BY <1>3, <2>1, <3>1 DEF InOrder, Same
  <2>2. CASE New(s)
    <3>1. Time(d, s) = T
      BY <2>2
    <3> QED BY <1>3, <2>0, <3>1 DEF Sized
  <2>3. CASE New(t)
    <3>1. Reach(d, s) <= Reach(d, t) /\ Reach(d, t) = 0
      BY <1>3, <2>3 DEF Along
    <3> QED BY <2>0, <3>1 DEF Sized
  <2> QED BY <1>1, <2>1, <2>2, <2>3
<1>4. ASSUME NEW s \in Spots(d), NEW t \in Spots(d), Beside(d, s, t), Before(s, t)
      PROVE  Time(d, s) <= Time(d, t)
  <2>1. CASE Old(s) /\ Old(t)
    <3>1. Beside(c, s, t)
      BY <1>4, <2>1, AlongSame
    <3> QED BY <1>4, <2>1, <3>1 DEF InOrder, Same
  <2>2. CASE New(t)
    BY <1>2, <2>2
  <2>3. CASE New(s) /\ Old(t)
    <3>1. Reach(d, t) = 0
      BY <1>4, <2>3 DEF Beside
    <3>2. t \in Spots(c) /\ Reach(c, t) = 0
      BY <2>3, <3>1 DEF Same
    <3>3. t[1] = p /\ s[1] = p
      BY <2>3, <3>2 DEF WayTells
    <3>4. s[2] = n + 1 /\ t[2] <= n
      BY <2>3, <3>3
    <3>5. Sized(d, s) /\ Sized(d, t)
      BY <1>2
    <3>6. t[2] \in Nat
      BY <3>5 DEF Sized
    <3>7. t[2] <= n + 1 /\ n + 1 \in Nat
      BY <3>4, <3>6, OneAbove
    <3> QED BY <1>4, <3>3, <3>4, <3>5, <3>7, NotBefore
  <2> QED BY <1>1, <2>1, <2>2, <2>3
<1>5. ASSUME NEW s \in Spots(d) PROVE Time(d, s) < later
  <2>1. Time(d, s) <= T /\ Sized(d, s)
    BY <1>2
  <2> QED BY <2>1 DEF Sized
<1> QED BY <1>3, <1>4, <1>5 DEF InOrder


-------------------------------------------------------------------------------

\* The place a way leads to.
PlaceOf(c, s) ==
  LET n     == Reach(c, s)
      at(k) == In(c, s).route[k].server
  IN  CASE Rank(s[1]) = 1 -> <<"link", <<IF n = 1 THEN Host ELSE at(n - 1), at(n)>>>>
        [] Rank(s[1]) = 2 -> IF at(n) = Host THEN <<"finish_queue", Host>>
                                             ELSE <<"recv_compute_queue", at(n)>>
        [] Rank(s[1]) = 3 -> <<"on_the_fly", at(n)>>
        [] Rank(s[1]) = 4 -> IF n = 0 THEN <<"launch_queue", Host>>
                                      ELSE <<"compute_send_queue", at(n)>>

LEMMA Whereabouts ==
  ASSUME PipelineInv, NEW s \in Spots(Held)
  PROVE  s[1] = PlaceOf(Held, s) /\ (Reach(Held, s) = 0 => Rank(s[1]) = 4)
<1> DEFINE p == s[1]
           k == Held[p][s[2]]
           n == Reach(Held, s)
<1>0. QueuesInv /\ BatchInv /\ Host \notin Workers
  BY TopologyTypes DEF PipelineInv, MessagesInv
<1>1. p \in Places /\ s[2] \in DOMAIN Held[p] /\ IsRequest(k)
  BY DEF Spots
<1>2. k \in Message /\ k.stage \in Nat /\ In(Held, s) = k
  BY <1>0, <1>1, HeldKinds, MessageType DEF In
<1>3. CASE p = <<"launch_queue", Host>>
  <2>1. k \in AtSender(Host)
    BY <1>0, <1>1, <1>3, HeldKinds
  <2>2. k.stage = 0
    BY <2>1 DEF AtSender, SentBy
  <2>3. Rank(p) = 4 /\ Passed(p) = 0
    BY <1>3 DEF Rank, Passed
  <2>4. n = 0
    BY <1>2, <2>2, <2>3 DEF Reach
  <2> QED BY <1>3, <2>3, <2>4 DEF PlaceOf
<1>4. CASE \E w \in Workers : p = <<"compute_send_queue", w>>
  <2>1. PICK w \in Workers : p = <<"compute_send_queue", w>>
    BY <1>4
  <2>2. k \in AtSender(w)
    BY <1>0, <1>1, <2>1, HeldKinds
  <2>3. k.stage # 0 /\ (k.stage > 0 => k.route[k.stage].server = w)
    BY <1>0, <2>2 DEF AtSender, SentBy
  <2>4. Rank(p) = 4 /\ Passed(p) = 0
    BY <2>1 DEF Rank, Passed
  <2>7. n = k.stage
    BY <1>2, <2>4 DEF Reach
  <2> HIDE DEF n, k, p
  <2>5. n # 0 /\ k.route[n].server = w
    BY <1>2, <2>3, <2>7
  <2>6. PlaceOf(Held, s) = <<"compute_send_queue", w>>
    BY <1>2, <2>4, <2>5 DEF PlaceOf, n, p
  <2> QED BY <2>1, <2>4, <2>6 DEF p
<1>5. CASE \E e \in Edges : p = <<"link", e>>
  <2>1. PICK e \in Edges : p = <<"link", e>>
    BY <1>5
  <2>2. k \in OnLink(e[1], e[2])
    BY <1>0, <1>1, <2>1, HeldKinds
  <2>3. /\ (k.stage = 0 <=> e[1] = Host) /\ (k.stage > 0 => k.route[k.stage].server = e[1])
        /\ k.route[k.stage + 1].server = e[2]
    BY <2>2 DEF OnLink, SentBy
  <2>4. Rank(p) = 1 /\ Passed(p) = 1 /\ e = <<e[1], e[2]>>
    BY <2>1, TopologyTypes DEF Rank, Passed
  <2>5. n = k.stage + 1
    BY <1>2, <2>4 DEF Reach
  <2> HIDE DEF n, k, p
  <2>6. n # 0 /\ k.route[n].server = e[2] /\ e[1] = IF n = 1 THEN Host ELSE k.route[n - 1].server
    <3>1. n \in Nat /\ n # 0 /\ n - 1 = k.stage
      BY <1>2, <2>5
    <3>2. n = 1 <=> k.stage = 0
      BY <1>2, <2>5
    <3>3. k.stage # 0 => k.stage > 0
      BY <1>2
    <3> QED BY <2>3, <2>5, <3>1, <3>2, <3>3
  <2>7. PlaceOf(Held, s) = <<"link", <<e[1], e[2]>>>>
    BY <1>2, <2>4, <2>6 DEF PlaceOf, n, p
  <2> QED BY <2>1, <2>4, <2>6, <2>7 DEF p, n
<1>6. ASSUME p[1] \in {"recv_compute_queue", "on_the_fly", "finish_queue"}
      PROVE  n = k.stage + 1 /\ n # 0
  <2>1. Passed(p) = 1
    BY <1>6 DEF Passed
  <2> QED BY <1>2, <2>1 DEF Reach
<1>7. CASE \E w \in Workers : p = <<"recv_compute_queue", w>>
  <2>1. PICK w \in Workers : p = <<"recv_compute_queue", w>>
    BY <1>7
  <2>2. k \in AtWorker(w)
    BY <1>0, <1>1, <2>1, HeldKinds
  <2>3. k.route[n].server = w /\ w # Host /\ n # 0
    BY <1>0, <1>6, <2>1, <2>2 DEF AtWorker
  <2>4. Rank(p) = 2
    BY <2>1 DEF Rank
  <2> HIDE DEF n, k, p
  <2>5. PlaceOf(Held, s) = <<"recv_compute_queue", w>>
    BY <1>2, <2>3, <2>4 DEF PlaceOf, n, p
  <2> QED BY <2>1, <2>3, <2>5 DEF p, n
<1>8. CASE \E w \in Workers : p = <<"on_the_fly", w>>
  <2>1. PICK w \in Workers : p = <<"on_the_fly", w>>
    BY <1>8
  <2>2. k \in AtWorker(w)
    BY <1>0, <1>1, <2>1, HeldKinds
  <2>3. k.route[n].server = w /\ n # 0
    BY <1>6, <2>1, <2>2 DEF AtWorker
  <2>4. Rank(p) = 3
    BY <2>1 DEF Rank
  <2> HIDE DEF n, k, p
  <2>5. PlaceOf(Held, s) = <<"on_the_fly", w>>
    BY <1>2, <2>3, <2>4 DEF PlaceOf, n, p
  <2> QED BY <2>1, <2>3, <2>5 DEF p, n
<1>9. CASE p = <<"finish_queue", Host>>
  <2>1. k \in Answered
    BY <1>0, <1>1, <1>9, HeldKinds
  <2>2. k.route[k.stage + 1].server = Host
    BY <2>1 DEF Answered, FullRoute, Returns
  <2>3. k.route[n].server = Host /\ n # 0
    BY <1>6, <1>9, <2>2
  <2>4. Rank(p) = 2
    BY <1>9 DEF Rank
  <2> HIDE DEF n, k, p
  <2>5. PlaceOf(Held, s) = <<"finish_queue", Host>>
    BY <1>2, <2>3, <2>4 DEF PlaceOf, n, p
  <2> QED BY <1>9, <2>3, <2>5 DEF p, n
<1> QED BY <1>1, <1>3, <1>4, <1>5, <1>7, <1>8, <1>9, PlaceKinds

LEMMA HeldWays ==
  ASSUME PipelineInv
  PROVE  WayTells(Held)
<1>1. ASSUME NEW s \in Spots(Held), NEW t \in Spots(Held), Beside(Held, s, t), Rank(s[1]) = Rank(t[1])
      PROVE  s[1] = t[1]
  <2> DEFINE n == Reach(Held, s)
  <2>1. /\ n \in Nat /\ Reach(Held, t) = n
        /\ \A k \in 1..n : In(Held, s).route[k].server = In(Held, t).route[k].server
    BY <1>1, HeldSeqs, SpotType DEF Beside, Along
  <2>2. s[1] = PlaceOf(Held, s) /\ t[1] = PlaceOf(Held, t) /\ (n = 0 => Rank(s[1]) = 4)
    BY Whereabouts
  <2>3. Rank(s[1]) \in 1..4
    BY HeldSeqs, SpotType, RankType
  <2> HIDE DEF n
  <2>4. CASE n = 0
    <3>1. PlaceOf(Held, s) = <<"launch_queue", Host>> /\ PlaceOf(Held, t) = <<"launch_queue", Host>>
      BY <1>1, <2>1, <2>2, <2>4 DEF PlaceOf, n
    <3> QED BY <2>2, <3>1
  <2>5. CASE n # 0
    <3>1. n \in 1..n /\ (n # 1 => n - 1 \in 1..n)
      BY <2>1, <2>5
    <3>2. /\ In(Held, s).route[n].server = In(Held, t).route[n].server
          /\ n # 1 => In(Held, s).route[n - 1].server = In(Held, t).route[n - 1].server
      BY <2>1, <3>1
    <3>3. PlaceOf(Held, s) = PlaceOf(Held, t)
      BY <1>1, <2>1, <2>3, <2>5, <3>2 DEF PlaceOf, n
    <3> QED BY <2>2, <3>3
  <2> QED BY <2>4, <2>5
<1>2. ASSUME NEW s \in Spots(Held), Reach(Held, s) = 0
      PROVE  s[1] = <<"launch_queue", Host>>
  <2>1. s[1] = PlaceOf(Held, s) /\ Rank(s[1]) = 4
    BY <1>2, Whereabouts
  <2> QED BY <1>2, <2>1 DEF PlaceOf
<1> QED BY <1>1, <1>2 DEF WayTells


-------------------------------------------------------------------------------

HeldTyped == Held \in [Places -> Seq(Message)]

LEMMA HeldIsTyped == PipelineInv => HeldTyped
BY HeldSeqs DEF HeldTyped

LEMMA HeldIsTypedNext == PipelineInv' => Held' \in [Places -> Seq(Message)]
<1>1. PipelineInv' => HeldTyped'
  BY HeldIsTyped, PTL
<1> QED BY <1>1 DEF HeldTyped

LEMMA StageSum ==
  ASSUME NEW stage \in Nat, NEW n \in 0..1, NEW x \in 0..1, NEW y \in 0..1
  PROVE  /\ n + x = y => stage + n + x = stage + y
         /\ n + x = y + 1 => stage + n + x = stage + y + 1
OBVIOUS

\* The message that went from p to q had been the head of p.
LEMMA HeadCame ==
  ASSUME NEW c \in [Places -> Seq(Message)], NEW d \in [Places -> Seq(Message)],
         NEW p \in Places, NEW q \in Places, p # q, NEW n \in 0..1, NEW msg \in Message,
         SpotsMoved(c, d, p, q, msg),
         IsRequest(msg) =>
           /\ IsRequest(c[p][1]) /\ Carried(c[p][1], msg) /\ msg.stage = c[p][1].stage + n
           /\ \A k \in 1..(c[p][1].stage + Passed(p)) :
                msg.route[k].server = c[p][1].route[k].server,
         NEW s \in Spots(d), s = <<q, Len(c[q]) + 1>>
  PROVE  /\ n + Passed(q) = Passed(p) => Same(c, d, <<p, 1>>, s)
         /\ n + Passed(q) = Passed(p) + 1 => Further(c, d, <<p, 1>>, s)
<1> DEFINE h == <<p, 1>>
<1>1. In(d, s) = msg /\ IsRequest(msg)
  <2>1. Len(c[q]) \in Nat
    BY DEF SpotsMoved
  <2>2. ~Stays(p, q, Len(c[q]), s, Origin(c, p, q, s))
    BY <2>1 DEF Stays
  <2> QED BY <2>2, OriginIs
<1>2. h \in Spots(c) /\ In(c, h) = c[p][1]
  BY <1>1, SpotIs DEF SpotsMoved
<1>3. In(c, h).stage \in Nat /\ Passed(p) \in 0..1 /\ Passed(q) \in 0..1
  BY <1>2, SpotType, MessageType, RankType
<1>4. Time(d, s) = Time(c, h)
  BY <1>1, <1>2 DEF Carried, Time
<1>5. Reach(d, s) = In(c, h).stage + n + Passed(q) /\ Reach(c, h) = In(c, h).stage + Passed(p)
  BY <1>1, <1>2 DEF Reach
<1>6. \A k \in 1..Reach(c, h) : In(d, s).route[k].server = In(c, h).route[k].server
  BY <1>1, <1>2, <1>5
<1>7. ASSUME n + Passed(q) = Passed(p) PROVE Reach(d, s) = Reach(c, h)
  BY <1>3, <1>5, <1>7, StageSum
<1>8. ASSUME n + Passed(q) = Passed(p) + 1 PROVE Reach(d, s) = Reach(c, h) + 1
  BY <1>3, <1>5, <1>8, StageSum
<1> QED BY <1>2, <1>4, <1>6, <1>7, <1>8 DEF Same, Further

LEMMA OrderGoes ==
  ASSUME PipelineInv, PipelineInv', NEW T \in Nat, InOrder(Held, T),
         NEW p \in Places, NEW q \in Places, NEW n \in 0..1, Goes(p, q, n),
         IsRequest(Head(Held[p])) =>
           \/ Rank(q) = Rank(p) + 1 /\ n + Passed(q) = Passed(p)
           \/ Rank(p) = 4 /\ Rank(q) = 1 /\ n + Passed(q) = Passed(p) + 1
  PROVE  InOrder(Held', T)
<1>1. PICK msg \in Message :
        /\ Moved(Held, Held', p, q, msg)
        /\ IsRequest(Head(Held[p])) <=> IsRequest(msg)
        /\ IsRequest(msg) =>
             /\ Carried(Head(Held[p]), msg) /\ msg.stage = Head(Held[p]).stage + n
             /\ \A k \in 1..(Head(Held[p]).stage + Passed(p)) :
                  msg.route[k].server = Head(Held[p]).route[k].server
  BY DEF Goes
<1>2. Held \in [Places -> Seq(Message)] /\ Held' \in [Places -> Seq(Message)] /\ WayTells(Held)
  BY HeldSeqs, HeldIsTypedNext, HeldWays
<1>3. SpotsMoved(Held, Held', p, q, msg) /\ p # q
  BY <1>1, <1>2, MovedSpots DEF Moved
<1>4. Head(Held[p]) = Held[p][1]
  BY <1>3 DEF SpotsMoved
<1>5. ASSUME NEW s \in Spots(Held'), s = <<q, Len(Held[q]) + 1>>
      PROVE  /\ n + Passed(q) = Passed(p) => Same(Held, Held', <<p, 1>>, s)
             /\ n + Passed(q) = Passed(p) + 1 => Further(Held, Held', <<p, 1>>, s)
  BY <1>1, <1>2, <1>3, <1>4, <1>5, HeadCame
<1>6. CASE ~IsRequest(msg)
  <2>1. ASSUME NEW s \in Spots(Held'), s = <<q, Len(Held[q]) + 1>> PROVE FALSE
    <3>1. Len(Held[q]) \in Nat
      BY HeldSeqs
    <3>2. ~Stays(p, q, Len(Held[q]), s, Origin(Held, p, q, s))
      BY <2>1, <3>1 DEF Stays
    <3> QED BY <1>2, <1>3, <1>6, <3>2, OriginIs
  <2> QED BY <1>2, <1>3, <1>6, <2>1, OrderMoved
<1>7. CASE Rank(q) = Rank(p) + 1 /\ n + Passed(q) = Passed(p)
  BY <1>2, <1>3, <1>5, <1>7, OrderMoved
<1>8. CASE Rank(p) = 4 /\ Rank(q) = 1 /\ n + Passed(q) = Passed(p) + 1
  BY <1>2, <1>3, <1>5, <1>8, OrderLeft
<1> QED BY <1>1, <1>6, <1>7, <1>8

LEMMA OrderLosses ==
  ASSUME PipelineInv, PipelineInv', NEW T \in Nat, InOrder(Held, T), NEW p \in Places, Shortened(p)
  PROVE  InOrder(Held', T)
<1>1. Held \in [Places -> Seq(Message)] /\ Held' \in [Places -> Seq(Message)]
  BY HeldSeqs, HeldIsTypedNext
<1>2. PICK skip \in Nat : \A i \in DOMAIN Held'[p] :
        i + skip \in DOMAIN Held[p] /\ Held'[p][i] = Held[p][i + skip]
  BY DEF Shortened
<1>3. \A x \in Places : x # p => Held'[x] = Held[x]
  BY DEF Shortened
<1> QED BY <1>1, <1>2, <1>3, OrderShortened

LEMMA OrderLeaves ==
  ASSUME PipelineInv, PipelineInv', NEW T \in Nat, InOrder(Held, T), NEW p \in Places, Leaves(p),
         Rank(p) = 4, Passed(p) = 0
  PROVE  InOrder(Held', T)
<1>1. CASE Dropped(p)
  BY <1>1, Losses, OrderLosses
<1>2. CASE \E e \in Edges : Goes(p, <<"link", e>>, 0)
  <2>1. PICK e \in Edges : Goes(p, <<"link", e>>, 0)
    BY <1>2
  <2> DEFINE q == <<"link", e>>
  <2>2. q \in Places /\ Rank(q) = 1 /\ Passed(q) = 1
    BY PlaceNames DEF Rank, Passed
  <2>3. 0 + Passed(q) = Passed(p) + 1 /\ 0 \in 0..1
    BY <2>2
  <2> HIDE DEF q
  <2> QED BY <2>1, <2>2, <2>3, OrderGoes DEF q
<1> QED BY <1>1, <1>2 DEF Leaves

LEMMA OrderInfo ==
  ASSUME PipelineInv, PipelineInv', NEW T \in Nat, InOrder(Held, T),
         NEW msg \in Message, ~IsRequest(msg), Enters(msg)
  PROVE  InOrder(Held', T)
<1> DEFINE org == [s \in Spots(Held') |-> s]
<1>1. Held \in [Places -> Seq(Message)] /\ Held' \in [Places -> Seq(Message)]
  BY HeldSeqs, HeldIsTypedNext
<1>2. ASSUME NEW s \in Spots(Held') PROVE Same(Held, Held', org[s], s)
  <2>1. /\ s[1] \in Places /\ s[2] \in DOMAIN Held'[s[1]] /\ s[2] \in Nat /\ s = <<s[1], s[2]>>
        /\ IsRequest(Held'[s[1]][s[2]])
    BY <1>1, SpotType DEF In
  <2>2. s[2] \in DOMAIN Held[s[1]] /\ Held'[s[1]][s[2]] = Held[s[1]][s[2]]
    BY <2>1, EnteredSpots
  <2>3. Same(Held, Held', <<s[1], s[2]>>, s)
    BY <2>1, <2>2, SameThere
  <2> QED BY <2>1, <2>3
<1>3. \A s, t \in Spots(Held') :
        Beside(Held, org[s], org[t]) /\ Before(s, t) => Before(org[s], org[t])
  OBVIOUS
<1> HIDE DEF org
<1> QED BY <1>1, <1>2, <1>3, OrderKept


\* The time of a launch is later than that of every earlier one.
LEMMA LaterLaunch ==
  ASSUME launched \in [Requests -> Nat], NEW r \in Requests,
         launched' = [launched EXCEPT ![r] = @ + 1]
  PROVE  CreationTime \in Nat /\ CreationTime' \in Nat /\ CreationTime < CreationTime'
<1> DEFINE A == UNION {{x} \X (1..launched[x]) : x \in Requests}
           B == UNION {{x} \X (1..launched'[x]) : x \in Requests}
           y == <<r, launched[r] + 1>>
<1>1. launched' \in [Requests -> Nat] /\ launched'[r] = launched[r] + 1
      /\ \A x \in Requests : launched[x] <= launched'[x] /\ launched[x] \in Nat
  OBVIOUS
<1>2. IsFiniteSet(A) /\ IsFiniteSet(B)
  BY <1>1, LaunchesFinite
<1>3. A \subseteq B
  <2>1. ASSUME NEW a \in A PROVE a \in B
    <3>1. PICK x \in Requests : a \in {x} \X (1..launched[x])
      OBVIOUS
    <3>2. a \in {x} \X (1..launched'[x])
      BY <1>1, <3>1
    <3> QED BY <3>2
  <2> QED BY <2>1
<1>4. y \in B
  <2>1. y \in {r} \X (1..launched'[r])
    BY <1>1
  <2> QED BY <2>1
<1>5. y \notin A
  <2>1. ASSUME NEW x \in Requests, y \in {x} \X (1..launched[x]) PROVE FALSE
    <3>1. x = r /\ launched[r] + 1 <= launched[r]
      BY <2>1
    <3> QED BY <1>1, <3>1
  <2> QED BY <2>1
<1> HIDE DEF A, B, y
<1>6. Cardinality(A) \in Nat /\ Cardinality(B) \in Nat /\ Cardinality(A) < Cardinality(B)
  <2>1. Cardinality(A) <= Cardinality(B) /\ (Cardinality(B) = Cardinality(A) => B = A)
    BY <1>2, <1>3, FS_Subset
  <2>2. Cardinality(A) \in Nat /\ Cardinality(B) \in Nat /\ A # B
    BY <1>2, <1>4, <1>5, FS_CardinalityType
  <2> QED BY <2>1, <2>2
<1>7. CreationTime = Cardinality(A) + 1 /\ CreationTime' = Cardinality(B) + 1
  BY DEF CreationTime, Launches, A, B
<1> QED BY <1>6, <1>7

LEMMA OrderLaunched ==
  ASSUME PipelineInv, PipelineInv', InOrder(Held, CreationTime),
         NEW r \in Requests, NEW type \in {"Prompt", "Decode"}, LaunchRequest(r, type)
  PROVE  InOrder(Held', CreationTime')
<1> DEFINE p == <<"launch_queue", Host>>
           n == Len(Held[p])
<1>1. Held \in [Places -> Seq(Message)] /\ Held' \in [Places -> Seq(Message)] /\ WayTells(Held)
  BY HeldSeqs, HeldIsTypedNext, HeldWays
<1>2. PICK msg \in AtSender(Host) :
        Enters(msg) /\ IsRequest(msg) /\ msg.stage = 0 /\ msg.creation_time = CreationTime
  BY LaunchEnters
<1>3. CreationTime \in Nat /\ CreationTime' \in Nat /\ CreationTime < CreationTime'
  <2>1. launched' = [launched EXCEPT ![r] = @ + 1]
    BY Zenon DEF LaunchRequest
  <2> QED BY <2>1, LaterLaunch DEF PipelineInv, MessagesInv, ClientInv
<1>4. p \in Places /\ n \in Nat /\ DOMAIN Held[p] = 1..n /\ Passed(p) = 0
  BY PlaceNames, HeldSeqs DEF Passed
<1>5. ASSUME NEW s \in Spots(Held')
      PROVE  \/ Same(Held, Held', s, s) /\ (s[1] = p => s[2] <= n)
             \/ s[1] = p /\ s[2] = n + 1 /\ Reach(Held', s) = 0 /\ Time(Held', s) = CreationTime
  <2>1. /\ s[1] \in Places /\ s[2] \in DOMAIN Held'[s[1]] /\ s[2] \in Nat /\ s = <<s[1], s[2]>>
    BY <1>1, SpotType
  <2>2. CASE s[2] \in DOMAIN Held[s[1]] /\ Held'[s[1]][s[2]] = Held[s[1]][s[2]]
    <3>1. Same(Held, Held', <<s[1], s[2]>>, s)
      BY <2>1, <2>2, SameThere
    <3>2. s[1] = p => s[2] <= n
      <4> HIDE DEF p, n
      <4> QED BY <1>4, <2>2
    <3> QED BY <2>1, <3>1, <3>2
  <2>3. CASE s[1] = p /\ s[2] = n + 1 /\ Held'[s[1]][s[2]] = msg
    <3>1. In(Held', s) = msg
      BY <2>3 DEF In
    <3>2. Reach(Held', s) = 0 /\ Time(Held', s) = CreationTime
      BY <1>2, <1>4, <2>3, <3>1 DEF Reach, Time
    <3> QED BY <2>3, <3>2
  <2> QED BY <1>2, <2>1, <2>2, <2>3, EnteredSpots
<1>6. Joined(Held, Held', p, n, CreationTime)
  BY <1>5 DEF Joined
<1> HIDE DEF n
<1> QED BY <1>1, <1>3, <1>4, <1>6, OrderEntered


-------------------------------------------------------------------------------

OrderInv == InOrder(Held, CreationTime)

\* But for a launch, a step leaves the time of the next launch.
LEMMA StepTime ==
  ASSUME UNCHANGED launched
  PROVE  CreationTime' = CreationTime
BY DEF CreationTime, Launches

LEMMA Ranks ==
  ASSUME NEW x
  PROVE  /\ Rank(<<"link", x>>) = 1 /\ Passed(<<"link", x>>) = 1
         /\ Rank(<<"recv_compute_queue", x>>) = 2 /\ Passed(<<"recv_compute_queue", x>>) = 1
         /\ Rank(<<"finish_queue", x>>) = 2 /\ Passed(<<"finish_queue", x>>) = 1
         /\ Rank(<<"on_the_fly", x>>) = 3 /\ Passed(<<"on_the_fly", x>>) = 1
         /\ Rank(<<"launch_queue", x>>) = 4 /\ Passed(<<"launch_queue", x>>) = 0
         /\ Rank(<<"compute_send_queue", x>>) = 4 /\ Passed(<<"compute_send_queue", x>>) = 0
<1>1. Rank(<<"link", x>>) = 1 /\ Passed(<<"link", x>>) = 1
  BY DEF Rank, Passed
<1>2. Rank(<<"recv_compute_queue", x>>) = 2 /\ Passed(<<"recv_compute_queue", x>>) = 1
  BY DEF Rank, Passed
<1>3. Rank(<<"finish_queue", x>>) = 2 /\ Passed(<<"finish_queue", x>>) = 1
  BY DEF Rank, Passed
<1>4. Rank(<<"on_the_fly", x>>) = 3 /\ Passed(<<"on_the_fly", x>>) = 1
  BY DEF Rank, Passed
<1>5. Rank(<<"launch_queue", x>>) = 4 /\ Passed(<<"launch_queue", x>>) = 0
  BY DEF Rank, Passed
<1>6. Rank(<<"compute_send_queue", x>>) = 4 /\ Passed(<<"compute_send_queue", x>>) = 0
  BY DEF Rank, Passed
<1> QED BY <1>1, <1>2, <1>3, <1>4, <1>5, <1>6

\* Trails are compared stage by stage.
LEMMA PrefixAgrees ==
  ASSUME NEW m \in Nat, NEW n \in Nat, NEW f, NEW g,
         IsPrefix([x \in 1..m |-> f[x]], [x \in 1..n |-> g[x]])
  PROVE  m <= n /\ \A x \in 1..m : f[x] = g[x]
<1> DEFINE a == [x \in 1..m |-> f[x]]
           b == [x \in 1..n |-> g[x]]
<1>1. Len(a) = m /\ Len(b) = n
  OBVIOUS
<1>2. m <= n /\ SubSeq(a, 1, m) = SubSeq(b, 1, m)
  BY <1>1 DEF IsPrefix
<1>3. ASSUME NEW x \in 1..m PROVE f[x] = g[x]
  <2>1. SubSeq(a, 1, m)[x] = f[x]
    OBVIOUS
  <2>2. SubSeq(b, 1, m)[x] = g[x]
    BY <1>2
  <2> QED BY <1>2, <2>1, <2>2
<1> QED BY <1>2, <1>3

LEMMA OrderStep ==
  ASSUME PipelineInv, PipelineInv', OrderInv, [Next]_vars
  PROVE  OrderInv'
<1> DEFINE T == CreationTime
<1>0. T \in Nat /\ InOrder(Held, T)
  BY CreationTimeType DEF PipelineInv, MessagesInv, ClientInv, OrderInv
<1> HIDE DEF T
<1>1. ASSUME InOrder(Held', T), UNCHANGED launched PROVE OrderInv'
  <2>1. CreationTime' = T
    BY <1>1, StepTime DEF T
  <2> QED BY <1>1, <2>1 DEF OrderInv
<1>2. ASSUME NEW r \in Requests, NEW type \in {"Prompt", "Decode"}, LaunchRequest(r, type)
      PROVE  OrderInv'
  BY <1>2, OrderLaunched DEF OrderInv
<1>3. CASE GatherFinished
  <2>1. InOrder(Held', T)
    <3>1. Shortened(<<"finish_queue", Host>>)
      BY <1>3, GatherFinishedInv, Losses, PlaceNames
    <3> QED BY <1>0, <3>1, OrderLosses, PlaceNames
  <2>2. UNCHANGED launched
    BY <1>3, Zenon DEF GatherFinished
  <2> QED BY <1>1, <2>1, <2>2
<1>4. CASE ScatterSend
  <2> DEFINE p == <<"launch_queue", Host>>
  <2>1. p \in Places /\ Rank(p) = 4 /\ Passed(p) = 0
    BY PlaceNames, Ranks
  <2>2. Leaves(p)
    BY <1>4, ScatterSendInv
  <2> HIDE DEF p
  <2>3. InOrder(Held', T)
    BY <1>0, <2>1, <2>2, OrderLeaves
  <2>4. UNCHANGED launched
    BY <1>4, SenderKeeps DEF client_vars
  <2> QED BY <1>1, <2>3, <2>4
<1>5. CASE GatherPushInfo
  <2>1. PICK msg \in Message : ~IsRequest(msg) /\ Enters(msg)
    BY <1>5, GatherPushInfoInv
  <2>2. InOrder(Held', T)
    BY <1>0, <2>1, OrderInfo
  <2>3. UNCHANGED launched
    BY <1>5, Zenon DEF GatherPushInfo, client_vars
  <2> QED BY <1>1, <2>2, <2>3
<1>6. ASSUME NEW w \in Workers, Fetch(w) PROVE OrderInv'
  <2> DEFINE p == <<"recv_compute_queue", w>>
             q == <<"on_the_fly", w>>
  <2>1. p \in Places /\ q \in Places /\ Rank(p) = 2 /\ Rank(q) = 3 /\ Passed(p) = 1 /\ Passed(q) = 1
    BY PlaceNames, Ranks
  <2>2. GoTogether(p, q)
    BY <1>6, FetchInv
  <2> HIDE DEF p, q
  <2>3. /\ p # q /\ Held'[p] = <<>> /\ Held[q] = <<>> /\ Held'[q] = Held[p]
        /\ \A x \in Places : x # p /\ x # q => Held'[x] = Held[x]
    BY <2>2 DEF GoTogether
  <2>4. Held \in [Places -> Seq(Message)] /\ Held' \in [Places -> Seq(Message)] /\ WayTells(Held)
    BY HeldSeqs, HeldIsTypedNext, HeldWays
  <2>5. Rank(q) = Rank(p) + 1 /\ Passed(q) = Passed(p)
    BY <2>1
  <2>6. InOrder(Held', T)
    BY <1>0, <2>1, <2>3, <2>4, <2>5, OrderTogether
  <2>7. UNCHANGED launched
    BY <1>6, Zenon DEF Fetch, client_vars
  <2> QED BY <1>1, <2>6, <2>7
<1>7. ASSUME NEW w \in Workers, Submit(w) PROVE OrderInv'
  <2> DEFINE p == <<"on_the_fly", w>>
             q == <<"compute_send_queue", w>>
  <2>1. p \in Places /\ q \in Places
    BY PlaceNames
  <2>2. Goes(p, q, 1)
    BY <1>7, SubmitInv
  <2>5. Rank(p) = 3 /\ Passed(p) = 1 /\ Rank(q) = 4 /\ Passed(q) = 0
    BY Ranks
  <2> HIDE DEF p, q
  <2>6. Rank(q) = Rank(p) + 1 /\ 1 + Passed(q) = Passed(p)
    BY <2>5
  <2>3. InOrder(Held', T)
    BY <1>0, <2>1, <2>2, <2>6, OrderGoes
  <2>4. UNCHANGED launched
    BY <1>7, Zenon DEF Submit, client_vars
  <2> QED BY <1>1, <2>3, <2>4
<1>8. ASSUME NEW w \in Workers, WorkerSend(w) PROVE OrderInv'
  <2> DEFINE p == <<"compute_send_queue", w>>
  <2>1. p \in Places /\ Rank(p) = 4 /\ Passed(p) = 0
    BY PlaceNames, Ranks
  <2>2. Leaves(p)
    BY <1>8, WorkerSendInv
  <2> HIDE DEF p
  <2>3. InOrder(Held', T)
    BY <1>0, <2>1, <2>2, OrderLeaves
  <2>4. UNCHANGED launched
    BY <1>8, SenderKeeps DEF client_vars
  <2> QED BY <1>1, <2>3, <2>4
<1>9. ASSUME NEW m \in Machines, NEW n \in Machines, LinkStep(m, n) PROVE OrderInv'
  <2> DEFINE p == <<"link", <<m, n>>>>
  <2>0. UNCHANGED launched
    BY <1>9, ReceiveKeeps DEF client_vars
  <2>1. CASE n \in Workers /\ ReceiveRequest(m, n)
    <3> DEFINE q == <<"recv_compute_queue", n>>
    <3>1. <<m, n>> \in Edges
      BY <2>1, Zenon DEF ReceiveRequest, Poll
    <3>2. p \in Places /\ q \in Places
      BY <2>1, <3>1, PlaceNames
    <3>3. Goes(p, q, 0)
      BY <2>1, ReceiveRequestInv
    <3>5. Rank(p) = 1 /\ Passed(p) = 1 /\ Rank(q) = 2 /\ Passed(q) = 1
      BY Ranks
    <3> HIDE DEF p, q
    <3>6. Rank(q) = Rank(p) + 1 /\ 0 + Passed(q) = Passed(p)
      BY <3>5
    <3>4. InOrder(Held', T)
      BY <1>0, <3>2, <3>3, <3>6, OrderGoes
    <3> QED BY <1>1, <2>0, <3>4
  <2>2. CASE n \in Workers /\ ReceiveSwarmInfo(m, n)
    <3> DEFINE q == <<"compute_send_queue", n>>
    <3>1. <<m, n>> \in Edges /\ ~IsRequest(Head(chan[<<m, n>>]))
      BY <2>2, Zenon DEF ReceiveSwarmInfo, Poll
    <3>2. p \in Places /\ q \in Places /\ ~IsRequest(Head(Held[p]))
      BY <2>2, <3>1, PlaceNames, HeldNow
    <3>3. Goes(p, q, 1)
      BY <2>2, ReceiveSwarmInfoInv
    <3> HIDE DEF p, q
    <3>4. InOrder(Held', T)
      BY <1>0, <3>2, <3>3, OrderGoes
    <3> QED BY <1>1, <2>0, <3>4
  <2>3. CASE n = Host /\ GatherRequest(m)
    <3> DEFINE q == <<"finish_queue", Host>>
    <3>1. Goes(p, q, 0) /\ <<m, n>> \in Edges
      BY <2>3, GatherRequestInv
    <3>2. p \in Places /\ q \in Places
      BY <3>1, PlaceNames
    <3>3. Rank(p) = 1 /\ Passed(p) = 1 /\ Rank(q) = 2 /\ Passed(q) = 1
      BY Ranks
    <3> HIDE DEF p, q
    <3>4. Rank(q) = Rank(p) + 1 /\ 0 + Passed(q) = Passed(p)
      BY <3>3
    <3>5. InOrder(Held', T)
      BY <1>0, <3>1, <3>2, <3>4, OrderGoes
    <3> QED BY <1>1, <2>0, <3>5
  <2> QED BY <1>9, <2>1, <2>2, <2>3 DEF LinkStep
<1>10. ASSUME NEW e \in Edges, BreakLink(e) PROVE OrderInv'
  <2>1. Shortened(<<"link", e>>)
    BY <1>10, BreakLinkInv, Losses, PlaceNames
  <2>2. InOrder(Held', T)
    BY <1>0, <2>1, OrderLosses, PlaceNames
  <2>3. UNCHANGED launched
    BY <1>10, Zenon DEF BreakLink, client_vars
  <2> QED BY <1>1, <2>2, <2>3
<1>11. ASSUME NEW e \in Edges, RestoreLink(e) PROVE OrderInv'
  <2>1. Held' = Held /\ UNCHANGED launched
    BY <1>11, SameInv DEF RestoreLink, client_vars
  <2> QED BY <1>0, <1>1, <2>1
<1>12. CASE UNCHANGED vars \/ AllServed
  <2>1. Held' = Held /\ UNCHANGED launched
    BY <1>12, SameInv DEF vars, AllServed, links, client_vars
  <2> QED BY <1>0, <1>1, <2>1
<1> QED BY <1>2, <1>3, <1>4, <1>5, <1>6, <1>7, <1>8, <1>9, <1>10, <1>11, <1>12
        DEF Next, WorkerStep

\* Where the client's requests are, later launches are not further along the same
\* way than earlier ones.
THEOREM OrderInvariance == Spec => []OrderInv
<1>1. Init => OrderInv
  <2> SUFFICES ASSUME Init PROVE OrderInv
    OBVIOUS
  <2>1. \A p \in Places : Held[p] = <<>>
    BY HeldInit
  <2>2. Spots(Held) = {}
    BY <2>1 DEF Spots
  <2> QED BY <2>2 DEF OrderInv, InOrder
<1>2. PipelineInv /\ PipelineInv' /\ OrderInv /\ [Next]_vars => OrderInv'
  BY OrderStep
<1> QED BY <1>1, <1>2, Invariance, PTL DEF Spec

\* Links and queues keep the order of launches: no request gets past an earlier
\* one whose way so far is part of its own, whatever is lost meanwhile.
THEOREM OrderKeeps == Spec => []NoOvertaking
<1>1. ASSUME PipelineInv, OrderInv, NEW k \in LocatedRequests, NEW l \in LocatedRequests,
             k.msg.creation_time < l.msg.creation_time, IsPrefix(k.trail, l.trail)
      PROVE  k.trail = l.trail
  <2>1. k \in Located /\ l \in Located /\ IsRequest(k.msg) /\ IsRequest(l.msg) /\ BatchInv
    BY <1>1 DEF LocatedRequests, PipelineInv, MessagesInv
  <2>2. PICK p \in Places : \E i \in DOMAIN Held[p] : k = Spot(p, i)
    BY <2>1, LocatedSpot
  <2>3. PICK i \in DOMAIN Held[p] : k = Spot(p, i)
    BY <2>2
  <2>4. PICK q \in Places : \E j \in DOMAIN Held[q] : l = Spot(q, j)
    BY <2>1, LocatedSpot
  <2>5. PICK j \in DOMAIN Held[q] : l = Spot(q, j)
    BY <2>4
  <2> DEFINE s == <<p, i>>
             t == <<q, j>>
             m == Reach(Held, s)
             n == Reach(Held, t)
  <2>6. i \in Nat /\ j \in Nat
    <3>1. DOMAIN Held[p] = 1..Len(Held[p]) /\ Len(Held[p]) \in Nat
      BY <1>1, HeldSeqs
    <3>2. DOMAIN Held[q] = 1..Len(Held[q]) /\ Len(Held[q]) \in Nat
      BY <1>1, HeldSeqs
    <3>3. i \in 1..Len(Held[p]) /\ j \in 1..Len(Held[q])
      BY <3>1, <3>2
    <3> QED BY <3>3
  <2>7. k.msg = Held[p][i] /\ l.msg = Held[q][j]
    BY <2>3, <2>5 DEF Spot
  <2>8. s \in Spots(Held) /\ t \in Spots(Held) /\ In(Held, s) = k.msg /\ In(Held, t) = l.msg
    BY <2>1, <2>6, <2>7, SpotIs
  <2> DEFINE f == [x \in 1..m |-> In(Held, s).route[x].server]
             g == [x \in 1..n |-> In(Held, t).route[x].server]
  <2>9. m \in Nat /\ n \in Nat
    <3>1. Held \in [Places -> Seq(Message)]
      BY <1>1, HeldSeqs
    <3> QED BY <1>1, <2>8, <3>1, SpotType
  <2>10. Time(Held, s) < Time(Held, t)
    BY <1>1, <2>8 DEF Time
  <2>11. k.trail = f
    BY <2>3, <2>7, <2>8 DEF Spot, Reach
  <2>12. l.trail = g
    BY <2>5, <2>7, <2>8 DEF Spot, Reach
  <2>13. f = [x \in 1..m |-> f[x]] /\ g = [x \in 1..n |-> g[x]]
    OBVIOUS
  <2>14. IsPrefix(f, g)
    BY <1>1, <2>11, <2>12
  <2> HIDE DEF f, g, m, n
  <2>15. m <= n /\ \A x \in 1..m : f[x] = g[x]
    <3>1. IsPrefix([x \in 1..m |-> f[x]], [x \in 1..n |-> g[x]])
      BY <2>13, <2>14
    <3> QED BY <2>9, <3>1, PrefixAgrees
  <2>16. Along(Held, s, t)
    <3>1. ASSUME NEW x \in 1..m
          PROVE  In(Held, s).route[x].server = In(Held, t).route[x].server
      <4>1. x \in 1..n
        BY <2>9, <2>15
      <4>2. f[x] = In(Held, s).route[x].server
        BY DEF f
      <4>3. g[x] = In(Held, t).route[x].server
        BY <4>1 DEF g
      <4> QED BY <2>15, <4>2, <4>3
    <3> QED BY <2>15, <3>1 DEF Along, m, n
  <2>17. n = m
    BY <2>8, <2>10, <2>16, <1>1 DEF OrderInv, InOrder, m, n
  <2> QED BY <2>11, <2>12, <2>13, <2>15, <2>17
<1>2. PipelineInv /\ OrderInv => NoOvertaking
  BY <1>1 DEF NoOvertaking
<1> QED BY <1>2, Invariance, OrderInvariance, PTL
===============================================================================
