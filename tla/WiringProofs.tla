----------------------------- MODULE WiringProofs -----------------------------
(***************************************************************************)
(* Sockets meet exactly along the edges of the table, for every sound      *)
(* table and every order in which the threads create them.                 *)
(***************************************************************************)
EXTENDS Wiring, TLAPS

\* What a sound table gives.
LEMMA TableFacts ==
  ASSUME machine_configs \in Tables
  PROVE  /\ \A i \in DOMAIN machine_configs :
              /\ machine_configs[i].machine_id \in Nat
              /\ machine_configs[i].ip_address \in Processes
              /\ i \in Nat
         /\ \A i, j \in DOMAIN machine_configs :
              /\ machine_configs[i].machine_id = machine_configs[j].machine_id => i = j
              /\ machine_configs[i].ip_address = machine_configs[j].ip_address => i = j
              /\ machine_configs[i].machine_id \in machine_configs[j].in_nodes
                   <=> machine_configs[j].machine_id \in machine_configs[i].out_nodes
         /\ \A p \in Processes : \E i \in DOMAIN machine_configs :
              machine_configs[i].ip_address = p
         /\ \E i \in DOMAIN machine_configs : machine_configs[i].machine_id = 0
  BY WiringConstants DEF SoundTable, Ids, Ips, Processes

\* A loop that breaks finds the one entry that fits.
LEMMA FirstOfOne ==
  ASSUME NEW i \in Nat
  PROVE  First({i}) = machine_configs[i]
<1>1. (CHOOSE k \in {i} : \A j \in {i} : k <= j) = i
  <2>1. \E k \in {i} : \A j \in {i} : k <= j
    OBVIOUS
  <2> QED BY <2>1
<1> QED BY <1>1 DEF First

\* Each process takes itself for the machine with its address.
LEMMA FindsItself ==
  ASSUME machine_configs \in Tables, NEW i \in DOMAIN machine_configs
  PROVE  CurrentMachine(machine_configs[i].ip_address) = machine_configs[i]
<1> DEFINE p == machine_configs[i].ip_address
<1>1. PICK h \in DOMAIN machine_configs : machine_configs[h].machine_id = 0
  BY TableFacts
<1>2. {j \in DOMAIN machine_configs : machine_configs[j].machine_id = 0} = {h}
  BY <1>1, TableFacts
<1>3. HostMachine = machine_configs[h]
  BY <1>1, <1>2, FirstOfOne, TableFacts DEF HostMachine
<1>4. {j \in DOMAIN machine_configs : machine_configs[j].ip_address = p} = {i}
  BY TableFacts
<1>5. First({j \in DOMAIN machine_configs : machine_configs[j].ip_address = p}) = machine_configs[i]
  BY <1>4, FirstOfOne, TableFacts
<1>6. IsHost(p) => i = h
  BY <1>1, <1>3, TableFacts DEF IsHost
<1> QED BY <1>3, <1>5, <1>6 DEF CurrentMachine

\* The addresses of a machine name machines of the table.
LEMMA AddressTypes ==
  ASSUME machine_configs \in Tables, NEW i \in DOMAIN machine_configs
  PROVE  /\ BindAddresses(machine_configs[i].ip_address, machine_configs[i])
              \subseteq Processes \X Nat
         /\ ConnectAddresses(machine_configs[i]) \subseteq Processes \X Nat
<1>1. \A nodes : \A id_ip \in IdIp(nodes) : id_ip[1] \in Nat /\ id_ip[2] \in Processes
  BY TableFacts DEF IdIp
<1>2. machine_configs[i].ip_address \in Processes /\ machine_configs[i].machine_id \in Nat
  BY TableFacts
<1> QED BY <1>1, <1>2, WiringConstants DEF BindAddresses, ConnectAddresses

LEMMA InvInit == Init => WiringInv
<1> SUFFICES ASSUME Init PROVE WiringInv
  OBVIOUS
<1> QED BY TableFacts DEF Init, WiringInv

LEMMA InvStep == WiringInv /\ [Next]_vars => WiringInv'
<1> SUFFICES ASSUME WiringInv, [Next]_vars PROVE WiringInv'
  OBVIOUS
<1> DEFINE mc == machine_configs
<1>1. ASSUME NEW p \in Processes, BindOutputs(p) PROVE WiringInv'
  <2>1. PICK i \in DOMAIN mc : mc[i].ip_address = p
    BY TableFacts DEF WiringInv
  <2>2. CurrentMachine(p) = mc[i]
    BY <2>1, FindsItself DEF WiringInv
  <2>3. /\ mc' = mc /\ Processes' = Processes /\ connected' = connected /\ receivers' = receivers
        /\ senders' = senders \union {p}
        /\ bound' = [bound EXCEPT ![p] = BindAddresses(p, mc[i])]
    BY <1>1, <2>2 DEF BindOutputs, Processes
  <2>4. BindAddresses(p, mc[i]) \subseteq Processes \X Nat
    BY <2>1, AddressTypes DEF WiringInv
  <2>5. \A q, m : BindAddresses(q, m)' = BindAddresses(q, m)
    BY <2>3 DEF BindAddresses, IdIp
  <2>6. \A m : ConnectAddresses(m)' = ConnectAddresses(m)
    BY <2>3 DEF ConnectAddresses, IdIp
  <2>7. bound' \in [Processes -> SUBSET (Processes \X Nat)]
    BY <2>3, <2>4 DEF WiringInv
  <2>8. ASSUME NEW j \in DOMAIN mc
        PROVE  bound'[mc[j].ip_address]
                 = IF mc[j].ip_address \in senders'
                   THEN BindAddresses(mc[j].ip_address, mc[j]) ELSE {}
    <3>1. CASE j = i
      BY <2>1, <2>3, <3>1 DEF WiringInv
    <3>2. CASE j # i
      <4>1. mc[j].ip_address # p /\ mc[j].ip_address \in Processes
        BY <2>1, <3>2, TableFacts DEF WiringInv
      <4> QED BY <2>3, <4>1 DEF WiringInv
    <3> QED BY <3>1, <3>2
  <2> QED BY <2>3, <2>5, <2>6, <2>7, <2>8 DEF WiringInv
<1>2. ASSUME NEW p \in Processes, ConnectInputs(p) PROVE WiringInv'
  <2>1. PICK i \in DOMAIN mc : mc[i].ip_address = p
    BY TableFacts DEF WiringInv
  <2>2. CurrentMachine(p) = mc[i]
    BY <2>1, FindsItself DEF WiringInv
  <2>3. /\ mc' = mc /\ Processes' = Processes /\ bound' = bound /\ senders' = senders
        /\ receivers' = receivers \union {p}
        /\ connected' = [connected EXCEPT ![p] = ConnectAddresses(mc[i])]
    BY <1>2, <2>2 DEF ConnectInputs, Processes
  <2>4. ConnectAddresses(mc[i]) \subseteq Processes \X Nat
    BY <2>1, AddressTypes DEF WiringInv
  <2>5. \A q, m : BindAddresses(q, m)' = BindAddresses(q, m)
    BY <2>3 DEF BindAddresses, IdIp
  <2>6. \A m : ConnectAddresses(m)' = ConnectAddresses(m)
    BY <2>3 DEF ConnectAddresses, IdIp
  <2>7. connected' \in [Processes -> SUBSET (Processes \X Nat)]
    BY <2>3, <2>4 DEF WiringInv
  <2>8. ASSUME NEW j \in DOMAIN mc
        PROVE  connected'[mc[j].ip_address]
                 = IF mc[j].ip_address \in receivers' THEN ConnectAddresses(mc[j]) ELSE {}
    <3>1. CASE j = i
      BY <2>1, <2>3, <3>1 DEF WiringInv
    <3>2. CASE j # i
      <4>1. mc[j].ip_address # p /\ mc[j].ip_address \in Processes
        BY <2>1, <3>2, TableFacts DEF WiringInv
      <4> QED BY <2>3, <4>1 DEF WiringInv
    <3> QED BY <3>1, <3>2
  <2> QED BY <2>3, <2>5, <2>6, <2>7, <2>8 DEF WiringInv
<1>3. ASSUME UNCHANGED vars PROVE WiringInv'
  <2>1. /\ mc' = mc /\ Processes' = Processes /\ bound' = bound /\ connected' = connected
        /\ senders' = senders /\ receivers' = receivers
    BY <1>3 DEF vars, Processes
  <2>2. \A q, m : BindAddresses(q, m)' = BindAddresses(q, m)
    BY <2>1 DEF BindAddresses, IdIp
  <2>3. \A m : ConnectAddresses(m)' = ConnectAddresses(m)
    BY <2>1 DEF ConnectAddresses, IdIp
  <2> QED BY <2>1, <2>2, <2>3 DEF WiringInv
<1> QED BY <1>1, <1>2, <1>3 DEF Next, ClusterWired

\* What each process binds and connects is what its own entry of the table
\* calls for.
THEOREM WiringCorrect == Spec => []WiringInv
  BY InvInit, InvStep, PTL DEF Spec

\* The sockets that meet are the edges of the table.
THEOREM LinksFollowTable == Spec => []LinksAreEdges
<1>1. WiringInv => LinksAreEdges
  <2> SUFFICES ASSUME WiringInv,
                      NEW i \in DOMAIN machine_configs, NEW j \in DOMAIN machine_configs
               PROVE  LET m == machine_configs[i]
                          n == machine_configs[j]
                          p == m.ip_address
                          q == n.ip_address
                      IN  /\ Linked(p, q) =>
                               n.machine_id \in m.out_nodes /\ m.machine_id \in n.in_nodes
                          /\ n.machine_id \in m.out_nodes /\ p \in senders /\ q \in receivers
                               => Linked(p, q)
                          /\ p # q => bound[p] \intersect bound[q] = {}
    BY DEF LinksAreEdges
  <2> DEFINE m == machine_configs[i]
             n == machine_configs[j]
             p == m.ip_address
             q == n.ip_address
  <2>1. /\ bound[p] = IF p \in senders THEN BindAddresses(p, m) ELSE {}
        /\ bound[q] = IF q \in senders THEN BindAddresses(q, n) ELSE {}
        /\ connected[q] = IF q \in receivers THEN ConnectAddresses(n) ELSE {}
    BY DEF WiringInv
  <2>2. m.machine_id \in Nat /\ n.machine_id \in Nat /\ BASE_PORT \in Nat
    BY TableFacts, WiringConstants DEF WiringInv
  <2>3. m.machine_id \in n.in_nodes <=> n.machine_id \in m.out_nodes
    BY TableFacts DEF WiringInv
  <2>4. ASSUME Linked(p, q) PROVE n.machine_id \in m.out_nodes
    <3>1. PICK a : a \in BindAddresses(p, m) /\ a \in ConnectAddresses(n)
      BY <2>1, <2>4 DEF Linked
    <3>2. PICK o \in IdIp(m.out_nodes) : a = <<p, BASE_PORT + o[1]>>
      BY <3>1 DEF BindAddresses
    <3>3. PICK e \in IdIp(n.in_nodes) : a = <<e[2], BASE_PORT + n.machine_id>>
      BY <3>1 DEF ConnectAddresses
    <3>4. o[1] \in Nat /\ o[1] \in m.out_nodes
      BY TableFacts DEF IdIp, WiringInv
    <3>5. BASE_PORT + o[1] = BASE_PORT + n.machine_id
      BY <3>2, <3>3
    <3> HIDE DEF n, m
    <3>6. o[1] = n.machine_id
      BY <2>2, <3>4, <3>5
    <3> QED BY <3>4, <3>6
  <2>5. ASSUME n.machine_id \in m.out_nodes, p \in senders, q \in receivers
        PROVE  Linked(p, q)
    <3> DEFINE a == <<p, BASE_PORT + n.machine_id>>
    <3>1. <<n.machine_id, q>> \in IdIp(m.out_nodes)
      BY <2>5 DEF IdIp
    <3>2. a \in BindAddresses(p, m)
      <4>1. <<n.machine_id, q>>[1] = n.machine_id
        OBVIOUS
      <4> QED BY <3>1, <4>1 DEF BindAddresses
    <3>3. <<m.machine_id, p>> \in IdIp(n.in_nodes)
      BY <2>3, <2>5 DEF IdIp
    <3>4. a \in ConnectAddresses(n)
      <4>1. <<m.machine_id, p>>[2] = p
        OBVIOUS
      <4> QED BY <3>3, <4>1 DEF ConnectAddresses
    <3> HIDE DEF a
    <3> QED BY <2>1, <2>5, <3>2, <3>4 DEF Linked
  <2>6. ASSUME p # q PROVE bound[p] \intersect bound[q] = {}
    BY <2>1, <2>6 DEF BindAddresses
  <2> QED BY <2>3, <2>4, <2>5, <2>6
<1> QED BY <1>1, WiringCorrect, PTL
===============================================================================
