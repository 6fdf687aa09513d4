---------------------------- MODULE RequestPipeline ----------------------------
(***************************************************************************)
(* The main loops: a request launched on the host is scattered to a first  *)
(* worker, hops from worker to worker along its route, and comes back to   *)
(* the host with one token id.  On a machine, threads meet only in the     *)
(* thread-safe queues below; between machines, in one PUB/SUB link for     *)
(* each edge.  The handshake of ClusterInit has ended, so every link is    *)
(* subscribed; a PUB socket still drops what exceeds its high-water mark,  *)
(* and what it publishes while a broken connection is not back.            *)
(*                                                                         *)
(* A message is a Header and its buffer.  current_stage counts from 0, so  *)
(* the stage in progress is route[stage + 1].  swarm_delta of a stage is   *)
(* abstracted to what it stands for: "unset" (0), "stamp" (an absolute     *)
(* time) or "elapsed" (a difference of two stamps).                        *)
(***************************************************************************)
EXTENDS Topology, Integers, Sequences, SequencesExt

CONSTANTS
  Scheduler,      (* "maxflow", "swarm" or "random"                        *)
  StartLayer,     (* model_start_layer_index of each worker                *)
  EndLayer,       (* model_end_layer_index of each worker                  *)
  NumLayers,      (* layers of the model                                   *)
  HWM,            (* messages a link holds before PUB drops                *)
  Requests,       (* request ids                                           *)
  Breakable,      (* links whose TCP connection may break                  *)
  MaxLaunches,    (* bound: launches of each request id                    *)
  ClientRoutes    (* routes the client chooses from under maxflow          *)

NoLayer == -1

ASSUME PipelineConstants ==
  /\ Scheduler \in {"maxflow", "swarm", "random"}
  /\ NumLayers \in Nat \ {0}
  /\ HWM \in Nat \ {0}
  /\ Breakable \subseteq Edges
  /\ IsFiniteSet(Requests)
  /\ MaxLaunches \in [Requests -> Nat]

\* The layers fit the links: a link leads to a worker that continues where its
\* source stops and goes further, the host feeds layer 0, and a worker that feeds
\* the host feeds nothing else and holds the last layer.
ASSUME LayersFit ==
  /\ StartLayer \in [Workers -> 0..NumLayers] /\ EndLayer \in [Workers -> 1..NumLayers]
  /\ OutNodes(Host) \subseteq Workers
  /\ \A w \in OutNodes(Host) : StartLayer[w] = 0
  /\ \A v, w \in Workers : <<v, w>> \in Edges =>
       StartLayer[w] <= EndLayer[v] /\ EndLayer[v] < EndLayer[w]
  /\ \A w \in InNodes(Host) : IsLastLayer(w) /\ EndLayer[w] = NumLayers

-------------------------------------------------------------------------------
(* Routes.                                                                 *)

\* A stage of a header's route; swarm_delta of the stage is its delta.
Deltas == {"unset", "stamp", "elapsed"}

Stages == [server : Machines, start : NoLayer..NumLayers, end : NoLayer..NumLayers, delta : Deltas]

\* A stage for each layer, and the one back to the host.  A header has room for
\* 16 (MAX_HOP), which nothing in the code compares with the model it runs.
MaxStages == NumLayers + 1

Routes == {route \in Seq(Stages) : Len(route) <= MaxStages}

\* A route starts at the host and goes on from worker to worker.
FollowsLinks(route) ==
  /\ route # <<>> => <<Host, route[1].server>> \in Edges
  /\ \A i \in 1..(Len(route) - 1) :
       route[i].server \in Workers /\ <<route[i].server, route[i + 1].server>> \in Edges

Returns(route) == Len(route) >= 2 /\ route[Len(route)].server = Host

\* The first k stages run the layers of the model from 0, each once and in
\* order, each on a worker that holds them.
LayersRun(route, k) ==
  \A i \in 1..k :
    /\ route[i].start = IF i = 1 THEN 0 ELSE route[i - 1].end
    /\ StartLayer[route[i].server] <= route[i].start
    /\ route[i].start < route[i].end
    /\ route[i].end <= EndLayer[route[i].server]

\* A route through the whole model and back.
FullRoute(route) ==
  /\ FollowsLinks(route) /\ Returns(route)
  /\ LayersRun(route, Len(route) - 1)
  /\ route[Len(route) - 1].end = NumLayers

\* The routes a client gives under maxflow are such routes.
ASSUME ClientRoutesFit == \A route \in ClientRoutes : route \in Seq(Stages) /\ FullRoute(route)

VARIABLES
  launched,              (* launches of each request so far                *)
  waiting,               (* requests the client has in the cluster         *)
  saved_routing_dict,    (* route of a request's last pass, <<>>: no entry *)
  launch_queue,          (* host: client and gather thread -> scatter      *)
  finish_queue,          (* host: gather thread -> client                  *)
  gather_info,           (* host: SwarmInfo the gather thread still pushes *)
  chan,                  (* the PUB/SUB links                              *)
  subscribed,            (* links whose subscription the PUB knows         *)
  recv_compute_queue,    (* worker: receiver -> compute                    *)
  requests_on_the_fly,   (* worker: fetched and not submitted              *)
  computing,             (* worker: ids fetched, in the order of submission*)
  compute_send_queue,    (* worker: compute and receiver -> sender         *)
  ema,                   (* swarm weight each sender keeps for an output   *)
  prompt_ran             (* history: stages of a request's last prompt     *)

client_vars == <<launched, waiting, saved_routing_dict>>
host_vars   == <<launch_queue, finish_queue, gather_info>>
worker_vars == <<recv_compute_queue, requests_on_the_fly, computing, compute_send_queue>>
links       == <<chan, subscribed>>
vars == <<client_vars, host_vars, worker_vars, links, ema, prompt_ran>>

NoMessage == [type |-> "Invalid"]

Init ==
  /\ launched = [r \in Requests |-> 0]
  /\ waiting = {}
  /\ saved_routing_dict = [r \in Requests |-> <<>>]
  /\ launch_queue = <<>>
  /\ finish_queue = <<>>
  /\ gather_info = <<>>
  /\ chan = [e \in Edges |-> <<>>]
  /\ subscribed = Edges
  /\ recv_compute_queue = [w \in Workers |-> <<>>]
  /\ requests_on_the_fly = [w \in Workers |-> [r \in Requests |-> NoMessage]]
  /\ computing = [w \in Workers |-> <<>>]
  /\ compute_send_queue = [w \in Workers |-> <<>>]
  /\ ema = [e \in Edges |-> "initial"]
  /\ prompt_ran = [r \in Requests |-> {}]

-------------------------------------------------------------------------------
(* Queues and links.                                                       *)

\* A queue that keeps only one element.
Push_Bounded(q, msg) == IF q = <<>> THEN <<msg>> ELSE q

\* A stack in place of a queue.
Push_Front(q, msg) == <<msg>> \o q

\* ThreadSafeQueue::push.
Push(q, msg) == Append(q, msg)

\* The ids of a batch of messages, and the message a map filled from the batch
\* ends up with for an id.
RequestsIn(batch) == {batch[i].request : i \in DOMAIN batch}

LastMessage(batch, r) ==
  batch[CHOOSE i \in DOMAIN batch :
          /\ batch[i].request = r
          /\ \A j \in DOMAIN batch : batch[j].request = r => j <= i]

\* The server the current stage of a message names.
NextServer(msg) == msg.route[msg.stage + 1].server

\* PollServer::send on the socket of the output the header names.  The socket
\* drops the message when its queue is full or nobody is subscribed.
Publish(m, msg) ==
  LET e == <<m, NextServer(msg)>>
  IN  /\ chan' = IF e \in subscribed /\ Len(chan[e]) < HWM
                    THEN [chan EXCEPT ![e] = Append(@, msg)] ELSE chan
      /\ UNCHANGED subscribed

\* PollingClient::poll_once.
Poll(m, n) ==
  /\ <<m, n>> \in Edges
  /\ chan[<<m, n>>] # <<>>
  /\ chan' = [chan EXCEPT ![<<m, n>>] = Tail(@)]
  /\ UNCHANGED subscribed

\* A connection breaks: what has not reached the SUB's side is gone.
BreakLink(e) ==
  /\ e \in Breakable \intersect subscribed
  /\ subscribed' = subscribed \ {e}
  /\ \E kept \in 0..Len(chan[e]) : chan' = [chan EXCEPT ![e] = SubSeq(@, 1, kept)]
  /\ UNCHANGED <<client_vars, host_vars, worker_vars, ema, prompt_ran>>

\* libzmq reconnects by itself and the subscription is sent again.
RestoreLink(e) ==
  /\ e \in Edges \ subscribed
  /\ subscribed' = subscribed \union {e}
  /\ UNCHANGED <<client_vars, host_vars, worker_vars, chan, ema, prompt_ran>>

-------------------------------------------------------------------------------
(* The header.                                                             *)

Stage(server, start, end) ==
  [server |-> server, start |-> start, end |-> end, delta |-> "unset"]

IsRequest(msg) == msg.type \in {"Prompt", "Decode"}

\* Header::add_stage(n, -1, -1).
AddStage(msg, n) == [msg EXCEPT !.route = Append(@, Stage(n, NoLayer, NoLayer))]

\* A decode is given a stage as well.
Routed_DecodeToo(m, msg) ==
  IF Scheduler # "maxflow" THEN {AddStage(msg, n) : n \in OutNodes(m)} ELSE {msg}

\* Where a sender may send a request: a prompt goes to the output the swarm
\* scheduler or the random generator picks, anything else follows its route.
Routed(m, msg) ==
  IF msg.type = "Prompt" /\ Scheduler # "maxflow"
    THEN {AddStage(msg, n) : n \in OutNodes(m)}
    ELSE {msg}

\* get_time() - t for the time t a stage holds.
Elapsed(delta) == IF delta = "stamp" THEN "elapsed" ELSE "stamp"

\* Under swarm a sender turns the time of the finished stage into a duration
\* and stamps the stage that begins.
Timed(m, msg) ==
  IF Scheduler # "swarm" THEN msg
  ELSE IF m = Host THEN [msg EXCEPT !.route[msg.stage + 1].delta = "stamp"]
  ELSE [msg EXCEPT !.route[msg.stage].delta = Elapsed(@),
                   !.route[msg.stage + 1].delta = "stamp"]

\* The worker runs all its layers, whatever the prompt has been through.
WithLayers_AllMine(w, msg) ==
  IF msg.type = "Prompt" /\ Scheduler # "maxflow"
    THEN [msg EXCEPT !.route[msg.stage + 1].start = StartLayer[w],
                     !.route[msg.stage + 1].end = EndLayer[w]]
    ELSE msg

\* A prompt's layers on worker w are decided on arrival: from where the last
\* stage stopped to the end of w.
WithLayers(w, msg) ==
  IF msg.type = "Prompt" /\ Scheduler # "maxflow"
    THEN [msg EXCEPT !.route[msg.stage + 1].start =
                         IF msg.stage = 0 THEN 0 ELSE msg.route[msg.stage].end,
                     !.route[msg.stage + 1].end = EndLayer[w]]
    ELSE msg

-------------------------------------------------------------------------------
(* The client: the program that calls launch_request and                   *)
(* gather_finished_requests from one thread.                               *)

\* creation_time orders the launches; their number stands for it.
Launches == UNION {{r} \X (1..launched[r]) : r \in Requests}

CreationTime == Cardinality(Launches) + 1

\* The route a header carries when it enters launch_queue.
LaunchRoutes(type, r) ==
  IF Scheduler = "maxflow" THEN ClientRoutes
  ELSE IF type = "Decode" THEN {saved_routing_dict[r]} ELSE {<<>>}

\* A request id is launched again only once it is gathered and, where the
\* cluster decides the route, decoded only after a prompt of it was gathered.
\* The buffer holds the prompt's tokens or [-1].
LaunchRequest(r, type) ==
  /\ r \notin waiting
  /\ launched[r] < MaxLaunches[r]
  /\ type = "Decode" => Scheduler = "maxflow" \/ launched[r] > 0
  /\ \E route \in LaunchRoutes(type, r) :
       launch_queue' = Push(launch_queue,
         [type |-> type, request |-> r, creation_time |-> CreationTime, stage |-> 0,
          route |-> route, buf |-> "tokens"])
  /\ launched' = [launched EXCEPT ![r] = @ + 1]
  /\ waiting' = waiting \union {r}
  /\ UNCHANGED <<saved_routing_dict, finish_queue, gather_info, worker_vars, links, ema, prompt_ran>>

\* A route as saved_routing_dict keeps it: the header's arrays without the
\* times, which a new header has as 0.
SavedRoute(msg) ==
  [i \in DOMAIN msg.route |-> Stage(msg.route[i].server, msg.route[i].start, msg.route[i].end)]

FinishedRequests == RequestsIn(finish_queue)

\* A route once saved is kept, as by insert instead of operator[].
GatherFinished_KeepRoute ==
  /\ finish_queue # <<>>
  /\ waiting' = waiting \ FinishedRequests
  /\ saved_routing_dict' =
       IF Scheduler = "maxflow" THEN saved_routing_dict
       ELSE [r \in Requests |-> IF r \in FinishedRequests /\ saved_routing_dict[r] = <<>>
                                  THEN SavedRoute(LastMessage(finish_queue, r)) ELSE saved_routing_dict[r]]
  /\ finish_queue' = <<>>
  /\ UNCHANGED <<launched, launch_queue, gather_info, worker_vars, links, ema, prompt_ran>>

\* gather_finished_requests.
GatherFinished ==
  /\ finish_queue # <<>>
  /\ waiting' = waiting \ FinishedRequests
  /\ saved_routing_dict' =
       IF Scheduler = "maxflow" THEN saved_routing_dict
       ELSE [r \in Requests |-> IF r \in FinishedRequests THEN SavedRoute(LastMessage(finish_queue, r))
                                                          ELSE saved_routing_dict[r]]
  /\ finish_queue' = <<>>
  /\ UNCHANGED <<launched, launch_queue, gather_info, worker_vars, links, ema, prompt_ran>>

-------------------------------------------------------------------------------
(* Senders.  pop_all hands the whole queue to its only consumer, which     *)
(* treats it in order: the same as taking one message at a time.           *)

\* One message of a sender's queue goes out; a SwarmInfo first updates the
\* weight of the output it measures.
SendFrom(m, msg) ==
  IF msg.type = "SwarmInfo"
    THEN /\ ema' = [ema EXCEPT ![<<m, NextServer(msg)>>] =
                      IF msg.route[msg.stage + 1].delta = "elapsed" /\ @ # "garbage"
                        THEN "measured" ELSE "garbage"]
         /\ Publish(m, msg)
    ELSE /\ \E routed \in Routed(m, msg) : Publish(m, Timed(m, routed))
         /\ UNCHANGED ema

\* msg_scatter_thread.
ScatterSend ==
  /\ launch_queue # <<>>
  /\ SendFrom(Host, Head(launch_queue))
  /\ launch_queue' = Tail(launch_queue)
  /\ UNCHANGED <<client_vars, finish_queue, gather_info, worker_vars, prompt_ran>>

\* A SwarmInfo goes on from the last worker too.
WorkerSend_PassInfoOn(w) ==
  /\ compute_send_queue[w] # <<>>
  /\ SendFrom(w, Head(compute_send_queue[w]))
  /\ compute_send_queue' = [compute_send_queue EXCEPT ![w] = Tail(@)]
  /\ UNCHANGED <<client_vars, host_vars, recv_compute_queue, requests_on_the_fly, computing, prompt_ran>>

\* sender_thread: a SwarmInfo ends on the last worker.
WorkerSend(w) ==
  /\ compute_send_queue[w] # <<>>
  /\ LET msg == Head(compute_send_queue[w])
     IN  IF msg.type = "SwarmInfo" /\ IsLastLayer(w) THEN UNCHANGED <<ema, links>>
                                                     ELSE SendFrom(w, msg)
  /\ compute_send_queue' = [compute_send_queue EXCEPT ![w] = Tail(@)]
  /\ UNCHANGED <<client_vars, host_vars, recv_compute_queue, requests_on_the_fly, computing, prompt_ran>>

-------------------------------------------------------------------------------
(* Receivers.                                                              *)

\* receiver_thread, a prompt or a decode.
ReceiveRequest(m, w) ==
  /\ Poll(m, w)
  /\ IsRequest(Head(chan[<<m, w>>]))
  /\ recv_compute_queue' =
       [recv_compute_queue EXCEPT ![w] = Push(@, WithLayers(w, Head(chan[<<m, w>>])))]
  /\ UNCHANGED <<client_vars, host_vars, requests_on_the_fly, computing, compute_send_queue, ema, prompt_ran>>

\* receiver_thread, a SwarmInfo: it bypasses the compute thread.
ReceiveSwarmInfo(m, w) ==
  /\ Poll(m, w)
  /\ ~IsRequest(Head(chan[<<m, w>>]))
  /\ compute_send_queue' =
       [compute_send_queue EXCEPT ![w] = Push(@, [Head(chan[<<m, w>>]) EXCEPT !.stage = @ + 1])]
  /\ UNCHANGED <<client_vars, host_vars, recv_compute_queue, requests_on_the_fly, computing, ema, prompt_ran>>

\* The SwarmInfo of a finished request repeats its servers and times.
SwarmInfo(msg) ==
  [type |-> "SwarmInfo", request |-> msg.request, creation_time |-> 0, stage |-> 0,
   route |-> [i \in DOMAIN msg.route |->
                [msg.route[i] EXCEPT !.start = NoLayer, !.end = NoLayer]],
   buf |-> "dummy"]

\* msg_gather_thread: the answer goes to the client.
GatherRequest(m) ==
  /\ gather_info = <<>>
  /\ Poll(m, Host)
  /\ IsRequest(Head(chan[<<m, Host>>]))
  /\ finish_queue' = Push(finish_queue, Head(chan[<<m, Host>>]))
  /\ gather_info' = IF Scheduler = "swarm" THEN <<SwarmInfo(Head(chan[<<m, Host>>]))>> ELSE <<>>
  /\ UNCHANGED <<client_vars, launch_queue, worker_vars, ema, prompt_ran>>

\* msg_gather_thread: then its SwarmInfo goes to the scatter thread.  The client
\* may gather the answer and launch again between the two.
GatherPushInfo ==
  /\ gather_info # <<>>
  /\ launch_queue' = Push(launch_queue, Head(gather_info))
  /\ gather_info' = <<>>
  /\ UNCHANGED <<client_vars, finish_queue, worker_vars, links, ema, prompt_ran>>

-------------------------------------------------------------------------------
(* The compute thread: fetch_new_requests, a computation, submit_requests  *)
(* with the ids in the order they were fetched.                            *)

\* A second batch is fetched before the first is submitted.
Fetch_Again(w) ==
  /\ recv_compute_queue[w] # <<>>
  /\ computing' = [computing EXCEPT
       ![w] = [i \in DOMAIN recv_compute_queue[w] |-> recv_compute_queue[w][i].request]]
  /\ requests_on_the_fly' =
       [requests_on_the_fly EXCEPT ![w] =
         [r \in Requests |-> IF r \in RequestsIn(recv_compute_queue[w])
                               THEN LastMessage(recv_compute_queue[w], r) ELSE @[r]]]
  /\ recv_compute_queue' = [recv_compute_queue EXCEPT ![w] = <<>>]
  /\ UNCHANGED <<client_vars, host_vars, compute_send_queue, links, ema, prompt_ran>>

\* fetch_new_requests: the whole queue becomes the flying batch.
Fetch(w) ==
  /\ computing[w] = <<>>
  /\ recv_compute_queue[w] # <<>>
  /\ LET messages == recv_compute_queue[w]
     IN  /\ computing' = [computing EXCEPT ![w] = [i \in DOMAIN messages |-> messages[i].request]]
         /\ requests_on_the_fly' =
              [requests_on_the_fly EXCEPT ![w] =
                [r \in Requests |-> IF r \in RequestsIn(messages)
                                      THEN LastMessage(messages, r) ELSE @[r]]]
  /\ recv_compute_queue' = [recv_compute_queue EXCEPT ![w] = <<>>]
  /\ UNCHANGED <<client_vars, host_vars, compute_send_queue, links, ema, prompt_ran>>

\* What a worker sends on: the last layer's token id, or activations.
Output(w) == IF IsLastLayer(w) THEN "token_id" ELSE "activations"

\* The request stays on the fly.
Submit_NoErase(w) ==
  /\ computing[w] # <<>>
  /\ LET msg == requests_on_the_fly[w][Head(computing[w])]
     IN  compute_send_queue' = [compute_send_queue EXCEPT
           ![w] = Push(@, [msg EXCEPT !.stage = @ + 1, !.buf = Output(w)])]
  /\ computing' = [computing EXCEPT ![w] = Tail(@)]
  /\ UNCHANGED <<client_vars, host_vars, recv_compute_queue, requests_on_the_fly, links, ema, prompt_ran>>

\* The stage counter stays.
Submit_SameStage(w) ==
  /\ computing[w] # <<>>
  /\ LET r == Head(computing[w])
     IN  /\ compute_send_queue' = [compute_send_queue EXCEPT
              ![w] = Push(@, [requests_on_the_fly[w][r] EXCEPT !.buf = Output(w)])]
         /\ requests_on_the_fly' = [requests_on_the_fly EXCEPT ![w][r] = NoMessage]
  /\ computing' = [computing EXCEPT ![w] = Tail(@)]
  /\ UNCHANGED <<client_vars, host_vars, recv_compute_queue, links, ema, prompt_ran>>

\* submit_requests, one request of the batch: other threads see each push.
Submit(w) ==
  /\ computing[w] # <<>>
  /\ LET r     == Head(computing[w])
         msg   == requests_on_the_fly[w][r]
         ran   == [msg.route[msg.stage + 1] EXCEPT !.delta = "unset"]
     IN  /\ compute_send_queue' = [compute_send_queue EXCEPT
              ![w] = Push(@, [msg EXCEPT !.stage = @ + 1, !.buf = Output(w)])]
         /\ requests_on_the_fly' = [requests_on_the_fly EXCEPT ![w][r] = NoMessage]
         /\ prompt_ran' = IF msg.type = "Prompt"
                            THEN [prompt_ran EXCEPT ![r] = IF msg.stage = 0 THEN {ran}
                                                           ELSE @ \union {ran}]
                            ELSE prompt_ran
  /\ computing' = [computing EXCEPT ![w] = Tail(@)]
  /\ UNCHANGED <<client_vars, host_vars, recv_compute_queue, links, ema>>

-------------------------------------------------------------------------------

\* Every launch the bound allows is done and gathered; the threads go on
\* finding their queues empty.
AllServed ==
  /\ waiting = {} /\ launched = MaxLaunches
  /\ launch_queue = <<>> /\ gather_info = <<>>
  /\ \A e \in Edges : chan[e] = <<>>
  /\ \A w \in Workers : compute_send_queue[w] = <<>>
  /\ UNCHANGED vars

WorkerStep(w) == Fetch(w) \/ Submit(w)

LinkStep(m, n) ==
  \/ n \in Workers /\ (ReceiveRequest(m, n) \/ ReceiveSwarmInfo(m, n))
  \/ n = Host /\ GatherRequest(m)

Next ==
  \/ \E r \in Requests, type \in {"Prompt", "Decode"} : LaunchRequest(r, type)
  \/ GatherFinished
  \/ ScatterSend
  \/ GatherPushInfo
  \/ \E w \in Workers : WorkerStep(w) \/ WorkerSend(w)
  \/ \E m, n \in Machines : LinkStep(m, n)
  \/ \E e \in Edges : BreakLink(e) \/ RestoreLink(e)
  \/ AllServed

Spec == Init /\ [][Next]_vars

\* Every thread keeps running, a SUB socket serves its links in turn, and the
\* client keeps gathering; nothing makes it launch.
Fairness ==
  /\ WF_vars(GatherFinished) /\ WF_vars(ScatterSend) /\ WF_vars(GatherPushInfo)
  /\ \A w \in Workers : WF_vars(WorkerStep(w)) /\ WF_vars(WorkerSend(w))
  /\ \A m, n \in Machines : WF_vars(LinkStep(m, n))

FairSpec == Spec /\ Fairness

-------------------------------------------------------------------------------
(* Where the messages are.  A location names the queue, the machines it     *)
(* belongs to and how many stages of the message's route lie behind it.     *)

Place(kind, m, n, q, passed) ==
  {[kind |-> kind, at |-> <<m, n>>, nth |-> i, msg |-> q[i],
    trail |-> [k \in 1..(q[i].stage + passed) |-> q[i].route[k].server]] : i \in DOMAIN q}

OnTheFly(w) == {r \in Requests : requests_on_the_fly[w][r] # NoMessage}

Located ==
  Place("launch_queue", Host, Host, launch_queue, 0)
  \union (UNION {Place("link", e[1], e[2], chan[e], 1) : e \in Edges})
  \union (UNION {Place("recv_compute_queue", w, w, recv_compute_queue[w], 1) : w \in Workers})
  \union (UNION {UNION {Place("on_the_fly", w, w, <<requests_on_the_fly[w][r]>>, 1) :
                          r \in OnTheFly(w)} : w \in Workers})
  \union (UNION {Place("compute_send_queue", w, w, compute_send_queue[w], 0) : w \in Workers})
  \union Place("finish_queue", Host, Host, finish_queue, 1)

LocatedRequests == {l \in Located : IsRequest(l.msg)}

Copies(r) == Cardinality({l \in LocatedRequests : l.msg.request = r})

-------------------------------------------------------------------------------
(* Properties.                                                             *)

Message ==
  [type : {"Prompt", "Decode", "SwarmInfo"}, request : Requests, creation_time : Nat,
   stage : 0..MaxStages, route : Routes, buf : {"tokens", "activations", "token_id", "dummy"}]

\* Types of the variables.  However often it is launched and whichever way it
\* goes, a request never has more stages than the model has layers, and one to
\* return: what MAX_HOP has to leave room for ("Too many stages!").
PipelineTypeOK ==
  /\ launched \in [Requests -> Nat] /\ waiting \subseteq Requests
  /\ \A l \in Located : l.msg \in Message
  /\ \A w \in Workers : \A i \in DOMAIN computing[w] : computing[w][i] \in Requests
  /\ ema \in [Edges -> {"initial", "measured", "garbage"}]

\* Whatever a link carries is addressed to its receiver ("Mis-routed request!"),
\* and what waits for a sender names one of its outputs, when its next hop is
\* already known.
RoutedAlongLinks ==
  \A l \in Located :
    /\ l.kind \in {"link", "recv_compute_queue", "on_the_fly"} => NextServer(l.msg) = l.at[2]
    /\ l.kind \in {"launch_queue", "compute_send_queue"} /\ Len(l.msg.route) > l.msg.stage =>
         <<l.at[1], NextServer(l.msg)>> \in Edges

\* The stages a request has reached run the layers of the model from 0, each
\* once and in order, each on a worker that holds them ("Bad infer setting!");
\* an answer has been through all of them.
LayersInOrder ==
  \A l \in LocatedRequests :
    LET route == l.msg.route
    IN  /\ l.kind \in {"recv_compute_queue", "on_the_fly", "compute_send_queue"} =>
             LayersRun(route, Len(l.trail))
        /\ l.kind = "finish_queue" => route[Len(route) - 1].end = NumLayers

\* fetch_new_requests reads the buffer as tokens exactly when the first layer
\* is 0 and as activations otherwise; the host reads one token id.
BufferMatchesLayers ==
  \A l \in LocatedRequests :
    /\ l.kind = "recv_compute_queue" =>
         l.msg.buf = IF l.msg.route[l.msg.stage + 1].start = 0 THEN "tokens" ELSE "activations"
    /\ l.kind = "finish_queue" => l.msg.buf = "token_id"

\* A request the client waits for exists in exactly one place of the cluster,
\* any other nowhere: it is never lost, duplicated or left on the fly
\* ("Request already exists!").
OneCopyWhileWaiting ==
  \A r \in Requests : Copies(r) = IF r \in waiting THEN 1 ELSE 0

\* With messages dropped at the high-water mark there is still never a second
\* copy of a request.
NeverTwoCopies ==
  \A r \in Requests : Copies(r) <= IF r \in waiting THEN 1 ELSE 0

\* The ids a worker's compute thread has to submit are exactly those on the fly,
\* so submit_requests never dereferences a missing entry.
SubmitFindsRequest ==
  \A w \in Workers :
    /\ {computing[w][i] : i \in DOMAIN computing[w]} = OnTheFly(w)
    /\ Len(computing[w]) = Cardinality(OnTheFly(w))

\* Requests that take the same way keep their order of launch: none gets past
\* an earlier one whose way so far is part of its own.
NoOvertaking ==
  \A k, l \in LocatedRequests :
    /\ k.msg.creation_time < l.msg.creation_time
    /\ IsPrefix(k.trail, l.trail)
    => k.trail = l.trail

\* Where the cluster decides the route, a decode runs every stage on the worker
\* and the layers the last prompt of the request ran on: its cache is there.
DecodeFollowsPrompt ==
  \A l \in LocatedRequests :
    l.kind = "recv_compute_queue" /\ l.msg.type = "Decode" =>
      [l.msg.route[l.msg.stage + 1] EXCEPT !.delta = "unset"] \in prompt_ran[l.msg.request]

\* A sender's swarm weights are fed with durations only, each for one of its
\* own outputs, and no SwarmInfo is sent to the host ("Swarm info should not be
\* passed back to host!").
SwarmWeightsSound ==
  /\ \A e \in Edges : ema[e] # "garbage"
  /\ \A l \in Located : l.msg.type = "SwarmInfo" =>
       /\ l.kind = "link" => l.at[2] # Host
       /\ l.kind \in {"launch_queue", "compute_send_queue"} /\ ~IsLastLayer(l.at[1]) =>
            /\ <<l.at[1], NextServer(l.msg)>> \in Edges
            /\ l.msg.route[l.msg.stage + 1].delta = "elapsed"

-------------------------------------------------------------------------------
(* The inductive invariant behind the properties of single messages: what  *)
(* a message looks like in each of the queues.                             *)

\* Where the route is complete when the request is launched.
Fixed(msg) == Scheduler = "maxflow" \/ msg.type # "Prompt"

\* The first k stages run all their worker has left of the model.
OwnLayers(route, k) ==
  /\ LayersRun(route, k)
  /\ \A i \in 1..k : i <= route[i].end /\ route[i].end = EndLayer[route[i].server]

\* Machine m has the message behind it, and msg.stage stages lie behind that.
SentBy(m, msg) ==
  /\ FollowsLinks(msg.route)
  /\ msg.stage = 0 <=> m = Host
  /\ msg.stage <= Len(msg.route)
  /\ msg.stage > 0 => msg.route[msg.stage].server = m

\* The route a request has while its last stage with layers is the k-th and
\* its last stage the n-th, if it is not fixed.
RouteSoFar(msg, k, n) ==
  IF Fixed(msg) THEN FullRoute(msg.route) ELSE Len(msg.route) = n /\ OwnLayers(msg.route, k)

\* Stages that end before the n-th are measured, the n-th is running.
Clocked(msg, n) ==
  Scheduler = "swarm" =>
    \A i \in 1..n : msg.route[i].delta = IF i < n THEN "elapsed" ELSE "stamp"

\* A SwarmInfo has the times of a whole route.
InfoComplete(msg) ==
  /\ FollowsLinks(msg.route) /\ Returns(msg.route)
  /\ \A i \in 1..(Len(msg.route) - 1) : msg.route[i].delta = "elapsed"

SentBuffer(m) == IF m = Host THEN "tokens" ELSE Output(m)

\* In launch_queue or compute_send_queue of m.
AtSender(m) ==
  {msg \in Message :
     /\ SentBy(m, msg)
     /\ IF IsRequest(msg)
          THEN /\ RouteSoFar(msg, msg.stage, msg.stage) /\ Clocked(msg, msg.stage)
               /\ msg.buf = SentBuffer(m)
          ELSE InfoComplete(msg)}

\* On the link from m to n.
OnLink(m, n) ==
  {msg \in Message :
     /\ SentBy(m, msg)
     /\ msg.stage < Len(msg.route) /\ msg.route[msg.stage + 1].server = n
     /\ IF IsRequest(msg)
          THEN /\ RouteSoFar(msg, msg.stage, msg.stage + 1) /\ Clocked(msg, msg.stage + 1)
               /\ msg.buf = SentBuffer(m)
          ELSE InfoComplete(msg) /\ n # Host}

\* In recv_compute_queue of w or on the fly there.
AtWorker(w) ==
  {msg \in Message :
     /\ IsRequest(msg)
     /\ FollowsLinks(msg.route)
     /\ msg.stage < Len(msg.route) /\ msg.route[msg.stage + 1].server = w
     /\ RouteSoFar(msg, msg.stage + 1, msg.stage + 1) /\ Clocked(msg, msg.stage + 1)
     /\ msg.buf = IF msg.stage = 0 THEN "tokens" ELSE "activations"}

\* In finish_queue.
Answered ==
  {msg \in Message :
     /\ IsRequest(msg)
     /\ FullRoute(msg.route) /\ msg.stage + 1 = Len(msg.route)
     /\ Clocked(msg, msg.stage + 1)
     /\ msg.buf = "token_id"}

\* What the client knows of a request it may launch again.
ClientInv ==
  /\ launched \in [Requests -> Nat] /\ waiting \in SUBSET Requests
  /\ saved_routing_dict \in [Requests -> Routes]
  /\ \A r \in Requests :
       /\ saved_routing_dict[r] # <<>> => FullRoute(saved_routing_dict[r])
       /\ Scheduler # "maxflow" /\ launched[r] > 0 /\ r \notin waiting =>
            saved_routing_dict[r] # <<>>

QueuesInv ==
  /\ launch_queue \in Seq(AtSender(Host))
  /\ finish_queue \in Seq(Answered)
  /\ gather_info \in Seq(AtSender(Host))
  /\ \A i \in DOMAIN gather_info : ~IsRequest(gather_info[i])
  /\ chan \in [Edges -> Seq(Message)]
  /\ \A e \in Edges : chan[e] \in Seq(OnLink(e[1], e[2]))
  /\ recv_compute_queue \in [Workers -> Seq(Message)]
  /\ \A w \in Workers : recv_compute_queue[w] \in Seq(AtWorker(w))
  /\ compute_send_queue \in [Workers -> Seq(Message)]
  /\ \A w \in Workers : compute_send_queue[w] \in Seq(AtSender(w))
  /\ ema \in [Edges -> {"initial", "measured"}]

\* The compute thread finds every id of its batch on the fly, and no other.
BatchInv ==
  /\ computing \in [Workers -> Seq(Requests)]
  /\ requests_on_the_fly \in [Workers -> [Requests -> Message \union {NoMessage}]]
  /\ \A w \in Workers :
       /\ \A i \in DOMAIN computing[w] :
            LET msg == requests_on_the_fly[w][computing[w][i]]
            IN  msg \in AtWorker(w) /\ msg.request = computing[w][i]
       /\ \A r \in OnTheFly(w) : \E i \in DOMAIN computing[w] : computing[w][i] = r

MessagesInv == ClientInv /\ QueuesInv /\ BatchInv

\* The pipeline implements the request service.
Answers == [i \in DOMAIN finish_queue |-> finish_queue[i].request]

Service == INSTANCE RequestService WITH
  processing <- waiting \ FinishedRequests,
  answers    <- Answers

ServiceSafety == Service!SafeSpec

\* Nothing lost, it implements the service with its progress: each request is
\* answered and each answer gathered.
ServiceImplemented == Service!Spec
===============================================================================
