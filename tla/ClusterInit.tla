------------------------------ MODULE ClusterInit ------------------------------
(***************************************************************************)
(* Start-up of the cluster: config broadcast over REQ/REP, then the Init / *)
(* InitComplete handshake over PUB/SUB that lets every receiver and sender *)
(* thread enter its main loop.                                             *)
(*                                                                         *)
(* A machine runs two network threads.  Its RECEIVER is receiver_thread on *)
(* a worker and msg_gather_thread on the host; its SENDER is sender_thread *)
(* on a worker and msg_scatter_thread on the host.  They share the flags   *)
(* machine_configs_initialized, input_port_initialized (cluster_initialized*)
(* on the host) and, on a worker, stop_sending_init.  An Assert whose      *)
(* condition fails prints and goes on in the Release build, so the actions *)
(* below do not stop at one: the invariants say none ever fails.           *)
(***************************************************************************)
EXTENDS Topology, Sequences

CONSTANT InitCap   (* bound: Init messages kept in one link's queue *)

ASSUME InitCapAssumption == InitCap \in Nat \ {0}

VARIABLES
  config_socket,                 (* a worker's REQ/REP exchange             *)
  machine_configs_initialized,
  receiver,                      (* where each receiver thread is           *)
  sender,                        (* where each sender thread is             *)
  input_machines_not_ready,
  input_machines_not_complete,
  input_port_initialized,        (* on the host: cluster_initialized        *)
  stop_sending_init,             (* workers only                            *)
  to_send,                       (* outputs left in the sender's for loop   *)
  subscribed,                    (* links whose subscription the PUB knows  *)
  chan                           (* messages in flight on each link         *)

receiver_vars == <<receiver, input_machines_not_ready, input_machines_not_complete>>
sender_vars   == <<sender, to_send>>
flags         == <<input_port_initialized, stop_sending_init>>
config_vars   == <<config_socket, machine_configs_initialized>>
net_vars      == <<subscribed, chan>>
vars == <<config_vars, receiver_vars, sender_vars, flags, net_vars>>

Init ==
  /\ config_socket = [w \in Workers |-> "idle"]
  /\ machine_configs_initialized = [m \in Machines |-> FALSE]
  /\ receiver = [m \in Machines |-> "start"]
  /\ sender = [m \in Machines |-> "start"]
  /\ input_machines_not_ready = [m \in Machines |-> {}]
  /\ input_machines_not_complete = [m \in Machines |-> {}]
  /\ input_port_initialized = [m \in Machines |-> FALSE]
  /\ stop_sending_init = [w \in Workers |-> FALSE]
  /\ to_send = [m \in Machines |-> {}]
  /\ subscribed = {}
  /\ chan = [e \in Edges |-> <<>>]

-------------------------------------------------------------------------------
(* PUB/SUB.  A message published before the publisher has processed the    *)
(* subscriber's subscription is lost; afterwards a link is FIFO.           *)

Subscribe(m, n) ==
  /\ <<m, n>> \in Edges \ subscribed
  /\ sender[m] # "start"
  /\ receiver[n] \notin {"start", "config"}
  /\ subscribed' = subscribed \union {<<m, n>>}
  /\ UNCHANGED <<config_vars, receiver_vars, sender_vars, flags, chan>>

\* PollServer::send of one message on the link from m to n.
Publish(m, n, msg) ==
  chan' = IF <<m, n>> \in subscribed /\ (msg = "Init" => Len(chan[<<m, n>>]) < InitCap)
            THEN [chan EXCEPT ![<<m, n>>] = Append(@, msg)]
            ELSE chan

\* PollingClient::poll_once returning the oldest message of one link.
Poll(m, n) ==
  /\ <<m, n>> \in Edges
  /\ chan[<<m, n>>] # <<>>
  /\ chan' = [chan EXCEPT ![<<m, n>>] = Tail(@)]

-------------------------------------------------------------------------------
(* Configuration.                                                          *)

\* config_broadcast reads the file and serves from then on.
ReadConfig ==
  /\ ~machine_configs_initialized[Host]
  /\ machine_configs_initialized' = [machine_configs_initialized EXCEPT ![Host] = TRUE]
  /\ UNCHANGED <<config_socket, receiver_vars, sender_vars, flags, net_vars>>

RequestConfig(w) ==
  /\ receiver[w] = "start"
  /\ receiver' = [receiver EXCEPT ![w] = "config"]
  /\ config_socket' = [config_socket EXCEPT ![w] = "request"]
  /\ UNCHANGED <<machine_configs_initialized, input_machines_not_ready,
                 input_machines_not_complete, sender_vars, flags, net_vars>>

ReplyConfig(w) ==
  /\ machine_configs_initialized[Host]
  /\ config_socket[w] = "request"
  /\ config_socket' = [config_socket EXCEPT ![w] = "reply"]
  /\ UNCHANGED <<machine_configs_initialized, receiver_vars, sender_vars, flags, net_vars>>

\* The worker stores the table, connects to its inputs and starts to wait.
ReceiveConfig(w) ==
  /\ config_socket[w] = "reply"
  /\ config_socket' = [config_socket EXCEPT ![w] = "idle"]
  /\ machine_configs_initialized' = [machine_configs_initialized EXCEPT ![w] = TRUE]
  /\ receiver' = [receiver EXCEPT ![w] = "ready"]
  /\ input_machines_not_ready' = [input_machines_not_ready EXCEPT ![w] = InNodes(w)]
  /\ UNCHANGED <<input_machines_not_complete, sender_vars, flags, net_vars>>

GatherConnect ==
  /\ receiver[Host] = "start"
  /\ machine_configs_initialized[Host]
  /\ receiver' = [receiver EXCEPT ![Host] = "ready"]
  /\ input_machines_not_ready' = [input_machines_not_ready EXCEPT ![Host] = InNodes(Host)]
  /\ UNCHANGED <<config_vars, input_machines_not_complete, sender_vars, flags, net_vars>>

-------------------------------------------------------------------------------
(* Receiver threads.                                                       *)

\* First wait: any message of a link marks its machine as ready.
ReceiveInit(m, n) ==
  /\ receiver[n] = "ready"
  /\ input_machines_not_ready[n] # {}
  /\ Poll(m, n)
  /\ input_machines_not_ready' = [input_machines_not_ready EXCEPT ![n] = @ \ {m}]
  /\ UNCHANGED <<config_vars, receiver, input_machines_not_complete, sender_vars,
                 flags, subscribed>>

InputsReady(n) ==
  /\ receiver[n] = "ready"
  /\ input_machines_not_ready[n] = {}
  /\ receiver' = [receiver EXCEPT ![n] = "complete"]
  /\ input_port_initialized' = [input_port_initialized EXCEPT ![n] = TRUE]
  /\ input_machines_not_complete' = [input_machines_not_complete EXCEPT ![n] = InNodes(n)]
  /\ UNCHANGED <<config_vars, input_machines_not_ready, sender_vars, stop_sending_init, net_vars>>

\* A machine counts as complete whatever init message it sent.
ReceiveComplete_AnyMessage(m, n) ==
  /\ receiver[n] = "complete"
  /\ input_machines_not_complete[n] # {}
  /\ Poll(m, n)
  /\ input_machines_not_complete' = [input_machines_not_complete EXCEPT ![n] = @ \ {m}]
  /\ UNCHANGED <<config_vars, receiver, input_machines_not_ready, sender_vars,
                 flags, subscribed>>

\* Second wait: left-over Init messages are skipped, InitComplete counts.
ReceiveComplete(m, n) ==
  /\ receiver[n] = "complete"
  /\ input_machines_not_complete[n] # {}
  /\ Poll(m, n)
  /\ input_machines_not_complete' =
       [input_machines_not_complete EXCEPT
         ![n] = IF Head(chan[<<m, n>>]) = "InitComplete" THEN @ \ {m} ELSE @]
  /\ UNCHANGED <<config_vars, receiver, input_machines_not_ready, sender_vars,
                 flags, subscribed>>

InputsComplete(n) ==
  /\ receiver[n] = "complete"
  /\ input_machines_not_complete[n] = {}
  /\ receiver' = [receiver EXCEPT ![n] = "main"]
  /\ stop_sending_init' = IF n = Host THEN stop_sending_init
                                      ELSE [stop_sending_init EXCEPT ![n] = TRUE]
  /\ UNCHANGED <<config_vars, input_machines_not_ready, input_machines_not_complete,
                 sender_vars, input_port_initialized, net_vars>>

-------------------------------------------------------------------------------
(* Sender threads.                                                         *)

BindOutputs(m) ==
  /\ sender[m] = "start"
  /\ machine_configs_initialized[m]
  /\ sender' = [sender EXCEPT ![m] = "bound"]
  /\ UNCHANGED <<config_vars, receiver_vars, to_send, flags, net_vars>>

\* A worker waits until its own inputs are ready, the host does not wait.  The
\* step stands at the Assert after the wait: what the wait read stays true.
StartSendingInit(m) ==
  /\ sender[m] = "bound"
  /\ m = Host \/ input_port_initialized[m]
  /\ sender' = [sender EXCEPT ![m] = "init"]
  /\ UNCHANGED <<config_vars, receiver_vars, to_send, flags, net_vars>>

\* The worker stops sending Init once its own inputs are ready.
StopSendingInit_WhenReady(m) == input_port_initialized[m]

\* The host announces completion without waiting for its inputs.
StopSendingInit_HostAtOnce(m) == IF m = Host THEN TRUE ELSE stop_sending_init[m]

\* The flag the sender's while loop reads.
StopSendingInit(m) ==
  IF m = Host THEN input_port_initialized[m] ELSE stop_sending_init[m]

\* A round is meant for every machine, not only the outputs.
InitRound_AllMachines(m) ==
  /\ sender[m] = "init"
  /\ to_send[m] = {}
  /\ ~StopSendingInit(m)
  /\ to_send' = [to_send EXCEPT ![m] = Machines]
  /\ UNCHANGED <<config_vars, receiver_vars, sender, flags, net_vars>>

\* One iteration of the while loop: an Init for each output.
InitRound(m) ==
  /\ sender[m] = "init"
  /\ to_send[m] = {}
  /\ ~StopSendingInit(m)
  /\ to_send' = [to_send EXCEPT ![m] = OutNodes(m)]
  /\ UNCHANGED <<config_vars, receiver_vars, sender, flags, net_vars>>

SendInit(m, n) ==
  /\ sender[m] = "init"
  /\ n \in to_send[m]
  /\ to_send' = [to_send EXCEPT ![m] = @ \ {n}]
  /\ Publish(m, n, "Init")
  /\ UNCHANGED <<config_vars, receiver_vars, sender, flags, subscribed>>

LeaveInitLoop(m) ==
  /\ sender[m] = "init"
  /\ to_send[m] = {}
  /\ StopSendingInit(m)
  /\ sender' = [sender EXCEPT ![m] = "complete"]
  /\ to_send' = [to_send EXCEPT ![m] = OutNodes(m)]
  /\ UNCHANGED <<config_vars, receiver_vars, flags, net_vars>>

\* InitComplete is sent once to each output.
SendInitComplete(m, n) ==
  /\ sender[m] = "complete"
  /\ n \in to_send[m]
  /\ to_send' = [to_send EXCEPT ![m] = @ \ {n}]
  /\ Publish(m, n, "InitComplete")
  /\ UNCHANGED <<config_vars, receiver_vars, sender, flags, subscribed>>

SenderEntersMain(m) ==
  /\ sender[m] = "complete"
  /\ to_send[m] = {}
  /\ sender' = [sender EXCEPT ![m] = "main"]
  /\ UNCHANGED <<config_vars, receiver_vars, to_send, flags, net_vars>>

-------------------------------------------------------------------------------

\* The caller does not wait for the receiver's main loop.
NetworkStarted_SenderOnly(m) == sender[m] = "main"

\* The condition on which a machine's start_network_threads returns.
NetworkStarted(m) == receiver[m] = "main" /\ sender[m] = "main"

\* Every start_network_threads has returned; the main loops take over.
ClusterUp ==
  /\ \A m \in Machines : NetworkStarted(m)
  /\ UNCHANGED vars

ReceiverStep(n) ==
  \/ n \in Workers /\ (RequestConfig(n) \/ ReceiveConfig(n))
  \/ n = Host /\ GatherConnect
  \/ InputsReady(n)
  \/ InputsComplete(n)

SenderStep(m) ==
  \/ BindOutputs(m)
  \/ StartSendingInit(m)
  \/ InitRound(m)
  \/ LeaveInitLoop(m)
  \/ SenderEntersMain(m)
  \/ \E n \in Machines : SendInit(m, n) \/ SendInitComplete(m, n)

ConfigBroadcast == ReadConfig \/ \E w \in Workers : ReplyConfig(w)

LinkStep(m, n) == Subscribe(m, n) \/ ReceiveInit(m, n) \/ ReceiveComplete(m, n)

Next ==
  \/ ConfigBroadcast
  \/ \E m \in Machines : ReceiverStep(m) \/ SenderStep(m)
  \/ \E m, n \in Machines : LinkStep(m, n)
  \/ ClusterUp

Spec == Init /\ [][Next]_vars

\* Every thread keeps running, a subscription is processed in the end, and the
\* SUB socket serves each of its links in turn.
Fairness ==
  /\ WF_vars(ReadConfig)
  /\ \A w \in Workers : WF_vars(ReplyConfig(w))
  /\ \A m \in Machines : WF_vars(ReceiverStep(m)) /\ WF_vars(SenderStep(m))
  /\ \A m, n \in Machines :
       /\ WF_vars(Subscribe(m, n))
       /\ WF_vars(ReceiveInit(m, n) \/ ReceiveComplete(m, n))

FairSpec == Spec /\ Fairness

-------------------------------------------------------------------------------
(* Properties.                                                             *)

\* What each variable holds; the sender's loop is only ever over its own outputs.
Types ==
  /\ config_socket \in [Workers -> {"idle", "request", "reply"}]
  /\ machine_configs_initialized \in [Machines -> BOOLEAN]
  /\ receiver \in [Machines -> {"start", "config", "ready", "complete", "main"}]
  /\ sender \in [Machines -> {"start", "bound", "init", "complete", "main"}]
  /\ input_machines_not_ready \in [Machines -> SUBSET Machines]
  /\ input_machines_not_complete \in [Machines -> SUBSET Machines]
  /\ input_port_initialized \in [Machines -> BOOLEAN]
  /\ stop_sending_init \in [Workers -> BOOLEAN]
  /\ to_send \in [Machines -> SUBSET Machines]
  /\ \A m \in Machines : to_send[m] \subseteq OutNodes(m)
  /\ subscribed \subseteq Edges
  /\ chan \in [Edges -> Seq({"Init", "InitComplete"})]

\* Types of the variables, and the room a link needs: at most InitCap Init
\* messages and behind them at most one InitComplete, so a sender announces
\* completion once on each link and sends no Init after it.
TypeOK ==
  /\ Types
  /\ \A e \in Edges : \A i \in DOMAIN chan[e] :
       IF chan[e][i] = "Init" THEN i <= InitCap ELSE i = Len(chan[e])

\* What a machine's threads have heard and said, on one link or altogether.
Sending(m)       == sender[m] \in {"init", "complete", "main"}
Announcing(m)    == sender[m] \in {"complete", "main"}
InputsHeard(m)   == receiver[m] \in {"complete", "main"}
Heard(m, n)      == InputsHeard(n) \/ (receiver[n] = "ready" /\ m \notin input_machines_not_ready[n])
SentComplete(m, n)  == sender[m] = "main" \/ (sender[m] = "complete" /\ n \notin to_send[m])
HeardComplete(m, n) ==
  receiver[n] = "main" \/ (receiver[n] = "complete" /\ m \notin input_machines_not_complete[n])

\* A worker's REQ/REP exchange is under way exactly while its receiver waits.
ConfigInv == \A w \in Workers : config_socket[w] # "idle" <=> receiver[w] = "config"

\* The shared flags say where the receiver is, and the sender obeys them.
FlagsInv ==
  /\ \A m \in Machines : input_port_initialized[m] <=> InputsHeard(m)
  /\ \A w \in Workers : stop_sending_init[w] <=> receiver[w] = "main"
  /\ \A w \in Workers : Sending(w) => InputsHeard(w)
  /\ \A w \in Workers : Announcing(w) => receiver[w] = "main"
  /\ Announcing(Host) => InputsHeard(Host)

\* A message in a link, or heard from it, proves the link subscribed.
LinksInv ==
  \A m, n \in Machines : <<m, n>> \in Edges =>
    (chan[<<m, n>>] # <<>> \/ Heard(m, n) => <<m, n>> \in subscribed /\ Sending(m))

\* One announcement of completion anywhere means every first wait is over.
WaveInv == \A m, x \in Machines : Announcing(m) => InputsHeard(x)

\* An InitComplete is the last message of its link, and empties it when heard.
LinkComplete(m, n) ==
  /\ \A i \in 1..Len(chan[<<m, n>>]) : chan[<<m, n>>][i] = "InitComplete" =>
       i = Len(chan[<<m, n>>]) /\ SentComplete(m, n)
  /\ HeardComplete(m, n) => SentComplete(m, n) /\ chan[<<m, n>>] = <<>>

CompleteInv == \A m, n \in Machines : <<m, n>> \in Edges => LinkComplete(m, n)

\* The inductive strengthening the safety properties below follow from: how
\* far each receiver and sender thread is, against what its links hold.
HandshakeInv == ConfigInv /\ FlagsInv /\ LinksInv /\ WaveInv /\ CompleteInv

\* InitComplete is published only on links the publisher already has the
\* subscription of: "this message will not be lost" (compute_worker.h:566),
\* "all machines are sure to receive the message" (host.h:275).
InitCompleteNeverLost ==
  \A m \in Machines : sender[m] = "complete" =>
    \A n \in to_send[m] : <<m, n>> \in subscribed

\* The first wait of a receiver never meets an InitComplete, which it would
\* consume as an Init: Assert "Received non-init message!".
FirstWaitSeesOnlyInit ==
  \A e \in Edges : receiver[e[2]] = "ready" =>
    \A i \in 1..Len(chan[e]) : chan[e][i] = "Init"

\* In the second wait a machine that has been marked complete sends nothing
\* more: Assert "Machine already marked as complete!".
CompleteIsLast ==
  \A e \in Edges : receiver[e[2]] = "complete" /\ chan[e] # <<>> =>
    e[1] \in input_machines_not_complete[e[2]]

\* A worker's sender is past its wait for the inputs before its receiver can
\* set stop_sending_init: Assert "Stop sending init signal should not be true!".
StopNotBeforeInit ==
  \A w \in Workers : stop_sending_init[w] => sender[w] \notin {"start", "bound"}

\* No init message reaches a main loop, which accepts only requests: Assert
\* "Unknown message type!".
MainLoopSeesNoInit ==
  \A e \in Edges : receiver[e[2]] = "main" => chan[e] = <<>>

\* When the host's start_network_threads returns, every receiver is in its main
\* loop and every link is subscribed, so the first request launched is neither
\* lost ("PUB-SUB loses the first few requests", Readme.md) nor met by an
\* initialization loop.
HostStartedMeansClusterReady ==
  NetworkStarted(Host) => receiver = [m \in Machines |-> "main"] /\ subscribed = Edges

\* The handshake implements the barrier.
Barrier == INSTANCE StartBarrier WITH
  accepting <- {w \in Workers : receiver[w] = "main"},
  open      <- NetworkStarted(Host)

BarrierSafety == Barrier!SafeSpec

\* Every machine's start_network_threads returns, although any number of Init
\* messages may be lost and the threads start in any order.
EveryMachineStarts == <>(\A m \in Machines : NetworkStarted(m))
===============================================================================
