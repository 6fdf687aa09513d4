-------------------------------- MODULE Cluster --------------------------------
(***************************************************************************)
(* Start-up and main loops in one system, from the first connection on: a  *)
(* thread enters its main loop when its part of the handshake ends, while  *)
(* other machines are still starting, and the host's program launches      *)
(* requests as soon as its own start_network_threads returns.              *)
(*                                                                         *)
(* A link carries the init messages of its sender and then its requests:   *)
(* chan of ClusterInit holds the first part of its queue, requests the     *)
(* second.  Both parts know the same subscriptions.  Connections stand:    *)
(* those that break are RequestPipeline's.                                 *)
(***************************************************************************)
EXTENDS ClusterInit

CONSTANTS
  Scheduler, StartLayer, EndLayer, NumLayers, HWM, Requests,
  MaxLaunches, ClientRoutes      (* as in RequestPipeline *)

VARIABLES
  launched, waiting, saved_routing_dict, launch_queue, finish_queue, gather_info,
  requests,      (* RequestPipeline's chan                                  *)
  recv_compute_queue, requests_on_the_fly, computing, compute_send_queue, ema,
  prompt_ran

Pipe == INSTANCE RequestPipeline WITH chan <- requests, Breakable <- {}

\* The configuration and the client are what the main loops presume.
ASSUME PipelineFits == Pipe!PipelineConstants /\ Pipe!LayersFit /\ Pipe!ClientRoutesFit

start_vars == <<config_vars, receiver_vars, sender_vars, flags, chan>>
queue_vars == <<launched, waiting, saved_routing_dict, launch_queue, finish_queue, gather_info,
                recv_compute_queue, requests_on_the_fly, computing, compute_send_queue, ema,
                prompt_ran>>
pipe_vars  == <<requests, queue_vars>>
cluster_vars == <<start_vars, pipe_vars, subscribed>>

\* Nothing is in the pipeline yet.
PipeEmpty ==
  /\ launched = [r \in Requests |-> 0] /\ waiting = {}
  /\ saved_routing_dict = [r \in Requests |-> <<>>]
  /\ launch_queue = <<>> /\ finish_queue = <<>> /\ gather_info = <<>>
  /\ requests = [e \in Edges |-> <<>>]
  /\ recv_compute_queue = [w \in Workers |-> <<>>]
  /\ requests_on_the_fly = [w \in Workers |-> [r \in Requests |-> Pipe!NoMessage]]
  /\ computing = [w \in Workers |-> <<>>]
  /\ compute_send_queue = [w \in Workers |-> <<>>]
  /\ ema = [e \in Edges |-> "initial"]
  /\ prompt_ran = [r \in Requests |-> {}]

ClusterStart == Init /\ PipeEmpty

-------------------------------------------------------------------------------
(* The programs, once their start_network_threads has returned.            *)

ClientLaunch ==
  /\ NetworkStarted(Host)
  /\ \E r \in Requests, type \in {"Prompt", "Decode"} : Pipe!LaunchRequest(r, type)
  /\ UNCHANGED start_vars

ClientGather == NetworkStarted(Host) /\ Pipe!GatherFinished /\ UNCHANGED start_vars

Compute(w) == NetworkStarted(w) /\ Pipe!WorkerStep(w) /\ UNCHANGED start_vars

-------------------------------------------------------------------------------
(* The network threads.                                                    *)

HostSends == sender[Host] = "main" /\ Pipe!ScatterSend /\ UNCHANGED start_vars

HostPushesInfo == receiver[Host] = "main" /\ Pipe!GatherPushInfo /\ UNCHANGED start_vars

WorkerSends(w) == sender[w] = "main" /\ Pipe!WorkerSend(w) /\ UNCHANGED start_vars

\* An initialization loop meets a request: it is not what the loop waits for,
\* and it is gone.
Swallow(m, n) ==
  /\ receiver[n] \in {"ready", "complete"}
  /\ Pipe!Poll(m, n)
  /\ UNCHANGED queue_vars

\* The oldest message of a link is a request.
TakeRequest(m, n) ==
  /\ <<m, n>> \in Edges
  /\ chan[<<m, n>>] = <<>>
  /\ IF receiver[n] = "main" THEN Pipe!LinkStep(m, n) ELSE Swallow(m, n)
  /\ UNCHANGED start_vars

-------------------------------------------------------------------------------

\* A step of the start-up.
StartStep ==
  /\ \/ ConfigBroadcast
     \/ \E m \in Machines : ReceiverStep(m) \/ SenderStep(m)
     \/ \E m, n \in Machines : LinkStep(m, n)
  /\ UNCHANGED pipe_vars

\* Every thread is in its main loop and everything is served.
ClusterServed ==
  /\ \A m \in Machines : NetworkStarted(m)
  /\ Pipe!AllServed
  /\ UNCHANGED start_vars

ClusterNext ==
  \/ StartStep
  \/ ClientLaunch
  \/ ClientGather
  \/ HostSends
  \/ HostPushesInfo
  \/ \E w \in Workers : Compute(w) \/ WorkerSends(w)
  \/ \E m, n \in Machines : TakeRequest(m, n)
  \/ ClusterServed

ClusterSpec == ClusterStart /\ [][ClusterNext]_cluster_vars

\* The fairness of the start-up and of the main loops: threads keep running,
\* links are served in turn and the client keeps gathering.
StartReadConfig      == ReadConfig /\ UNCHANGED pipe_vars
StartReplyConfig(w)  == ReplyConfig(w) /\ UNCHANGED pipe_vars
StartReceiver(m)     == ReceiverStep(m) /\ UNCHANGED pipe_vars
StartSender(m)       == SenderStep(m) /\ UNCHANGED pipe_vars
StartSubscribe(m, n) == Subscribe(m, n) /\ UNCHANGED pipe_vars
StartReceive(m, n)   == (ReceiveInit(m, n) \/ ReceiveComplete(m, n)) /\ UNCHANGED pipe_vars

ClusterFairness ==
  /\ WF_cluster_vars(StartReadConfig)
  /\ WF_cluster_vars(ClientGather) /\ WF_cluster_vars(HostSends) /\ WF_cluster_vars(HostPushesInfo)
  /\ \A w \in Workers :
       /\ WF_cluster_vars(StartReplyConfig(w))
       /\ WF_cluster_vars(Compute(w)) /\ WF_cluster_vars(WorkerSends(w))
  /\ \A m \in Machines : WF_cluster_vars(StartReceiver(m)) /\ WF_cluster_vars(StartSender(m))
  /\ \A m, n \in Machines :
       /\ WF_cluster_vars(StartSubscribe(m, n))
       /\ WF_cluster_vars(StartReceive(m, n))
       /\ WF_cluster_vars(TakeRequest(m, n))

ClusterFairSpec == ClusterSpec /\ ClusterFairness

-------------------------------------------------------------------------------
(* Properties.                                                             *)

\* Seen from the main loops, the start-up never happened: the cluster behaves
\* as the pipeline does on links that are all subscribed from the beginning.
\* No request is published to nobody, none is met by an initialization loop.
AlwaysUp == INSTANCE RequestPipeline WITH
  chan <- requests, subscribed <- Edges, Breakable <- {}

PipelineFromStart == AlwaysUp!Spec

\* From power-on, every request launched is answered and gathered.
ServiceFromStart == Pipe!ServiceImplemented
===============================================================================
