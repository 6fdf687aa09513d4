------------------------------- MODULE Topology -------------------------------
(***************************************************************************)
(* The machine graph every module of the project is parameterised by.  The *)
(* configuration file gives each machine an id, its in_nodes and its       *)
(* out_nodes; machine 0 is the host and every other machine is a compute   *)
(* worker.  The two lists of one link are taken to agree, so the graph is  *)
(* one set of edges.                                                       *)
(***************************************************************************)
EXTENDS Naturals, FiniteSets

CONSTANTS
  Host,      (* machine_id 0                                            *)
  Workers,   (* the other machine ids                                   *)
  Edges      (* <<m, n>>: n is an out_node of m and m an in_node of n   *)

Machines == Workers \union {Host}

OutNodes(m) == {n \in Machines : <<m, n>> \in Edges}
InNodes(n)  == {m \in Machines : <<m, n>> \in Edges}

\* "the node has only one output and the output is 0 (host)"
IsLastLayer(m) == OutNodes(m) = {Host}

\* A set of machines that holds every input of its members.
ClosedUnderInputs(S) ==
  \A m, n \in Machines : <<m, n>> \in Edges /\ n \in S => m \in S

ASSUME TopologyTypes ==
  /\ Host \notin Workers
  /\ Edges \subseteq Machines \X Machines
  /\ IsFiniteSet(Workers)

\* Every worker has an input: a worker with in_nodes empty would skip both
\* waits of its receiver and never take part in the start-up handshake.
ASSUME WorkersHaveInputs == \A w \in Workers : InNodes(w) # {}

\* Every machine reaches the host, stated without paths: a set that holds the
\* host and is closed under inputs holds every machine.
ASSUME MachinesReachHost ==
  \A S \in SUBSET Machines : Host \in S /\ ClosedUnderInputs(S) => S = Machines
===============================================================================
