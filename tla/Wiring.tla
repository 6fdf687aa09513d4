-------------------------------- MODULE Wiring --------------------------------
(***************************************************************************)
(* From the table of machines to the links of the cluster.  Each process   *)
(* finds its own machine in the table, binds one PUB socket for each of    *)
(* its out_nodes and connects its SUB socket to one address for each of    *)
(* its in_nodes.  The port of a link is BASE_PORT plus the id of the       *)
(* machine that reads from it: nothing else says which sockets meet.       *)
(***************************************************************************)
EXTENDS Integers, Sequences, FiniteSets

CONSTANTS
  Tables,      (* machine_configs, as read or received: sequences of
                  [machine_id, ip_address, in_nodes, out_nodes]            *)
  BASE_PORT

Ids(table) == {table[i].machine_id : i \in DOMAIN table}
Ips(table) == {table[i].ip_address : i \in DOMAIN table}

\* What the code takes for granted of the table: ids and addresses are unique,
\* there is a host, and the two lists of a link agree.
SoundTable(table) ==
  /\ \A i, j \in DOMAIN table :
       \/ i = j
       \/ /\ table[i].machine_id # table[j].machine_id
          /\ table[i].ip_address # table[j].ip_address
  /\ 0 \in Ids(table)
  /\ \A i, j \in DOMAIN table :
       table[i].machine_id \in table[j].in_nodes <=> table[j].machine_id \in table[i].out_nodes

ASSUME WiringConstants ==
  /\ BASE_PORT \in Nat
  /\ \A table \in Tables :
       /\ DOMAIN table = 1..Len(table) /\ Len(table) \in Nat
       /\ Ids(table) \subseteq Nat
       /\ SoundTable(table)

VARIABLES
  machine_configs,
  bound,      (* by the ip of a process: addresses its PUB sockets bind    *)
  connected,  (* by the ip of a process: addresses its SUB socket connects *)
  senders,    (* processes whose sender has its sockets                    *)
  receivers   (* processes whose receiver has its socket                   *)

vars == <<machine_configs, bound, connected, senders, receivers>>

\* One process is started for each machine, with that machine's address.
Processes == Ips(machine_configs)

Init ==
  /\ machine_configs \in Tables
  /\ bound = [p \in Processes |-> {}]
  /\ connected = [p \in Processes |-> {}]
  /\ senders = {}
  /\ receivers = {}

\* The first machine of the table that fits: the loops that break.
First(S) == machine_configs[CHOOSE i \in S : \A j \in S : i <= j]

HostMachine == First({i \in DOMAIN machine_configs : machine_configs[i].machine_id = 0})

\* "Host ip mismatch!": the host's process is the one with the host's address.
IsHost(p) == HostMachine.ip_address = p

\* The loop has no comparison.
CurrentMachine_AnyEntry(p) == machine_configs[1]

CurrentMachine(p) ==
  IF IsHost(p)
  THEN HostMachine
  ELSE First({i \in DOMAIN machine_configs : machine_configs[i].ip_address = p})

\* input_id_ip and output_id_ip: the nodes of a list that are in the table.
IdIp(nodes) ==
  {<<machine_configs[i].machine_id, machine_configs[i].ip_address>> :
     i \in {j \in DOMAIN machine_configs : machine_configs[j].machine_id \in nodes}}

\* The port of the machine that writes.
BindAddresses_OwnPort(p, machine) ==
  {<<p, BASE_PORT + machine.machine_id>> : id_ip \in IdIp(machine.out_nodes)}

BindAddresses(p, machine) ==
  {<<p, BASE_PORT + id_ip[1]>> : id_ip \in IdIp(machine.out_nodes)}

ConnectAddresses(machine) ==
  {<<id_ip[2], BASE_PORT + machine.machine_id>> : id_ip \in IdIp(machine.in_nodes)}

\* sender_thread, msg_scatter_thread.
BindOutputs(p) ==
  /\ p \notin senders
  /\ senders' = senders \union {p}
  /\ bound' = [bound EXCEPT ![p] = BindAddresses(p, CurrentMachine(p))]
  /\ UNCHANGED <<machine_configs, connected, receivers>>

\* receiver_thread, msg_gather_thread.
ConnectInputs(p) ==
  /\ p \notin receivers
  /\ receivers' = receivers \union {p}
  /\ connected' = [connected EXCEPT ![p] = ConnectAddresses(CurrentMachine(p))]
  /\ UNCHANGED <<machine_configs, bound, senders>>

\* Every process has its sockets.
ClusterWired ==
  /\ senders = Processes /\ receivers = Processes
  /\ UNCHANGED vars

Next ==
  \/ \E p \in Processes : BindOutputs(p) \/ ConnectInputs(p)
  \/ ClusterWired

Spec == Init /\ [][Next]_vars

-------------------------------------------------------------------------------
(* Properties.                                                             *)

\* A SUB socket of q meets a PUB socket of p.
Linked(p, q) == bound[p] \intersect connected[q] # {}

\* The sockets that meet are the edges of the table, in whatever order the
\* threads of the cluster create them: no address is bound twice, no socket
\* meets a machine it does not name, and every edge gets its link
\* (compute_worker.h:117, :539, host.h:254, :440).
LinksAreEdges ==
  \A i, j \in DOMAIN machine_configs :
    LET m == machine_configs[i]
        n == machine_configs[j]
        p == m.ip_address
        q == n.ip_address
    IN  /\ Linked(p, q) => n.machine_id \in m.out_nodes /\ m.machine_id \in n.in_nodes
        /\ n.machine_id \in m.out_nodes /\ p \in senders /\ q \in receivers => Linked(p, q)
        /\ p # q => bound[p] \intersect bound[q] = {}

\* The inductive invariant: a started thread has the addresses its own machine
\* calls for, found by address or, for the host, by id.
WiringInv ==
  /\ machine_configs \in Tables
  /\ bound \in [Processes -> SUBSET (Processes \X Nat)]
  /\ connected \in [Processes -> SUBSET (Processes \X Nat)]
  /\ senders \subseteq Processes /\ receivers \subseteq Processes
  /\ \A i \in DOMAIN machine_configs :
       LET m == machine_configs[i]
           p == m.ip_address
       IN  /\ bound[p] = IF p \in senders THEN BindAddresses(p, m) ELSE {}
           /\ connected[p] = IF p \in receivers THEN ConnectAddresses(m) ELSE {}
===============================================================================
