------------------------------- MODULE MCWiring -------------------------------
EXTENDS Wiring, SequencesExt

Nodes == 0..2

\* The ips do not come in the order of the ids.
Address(n) == <<"b", "c", "a">>[n + 1]

MachineOf(edges, n) ==
  [machine_id |-> n, ip_address |-> Address(n),
   in_nodes  |-> {m \in Nodes : <<m, n>> \in edges},
   out_nodes |-> {m \in Nodes : <<n, m>> \in edges}]

\* Every graph of three machines without loops, each in every order of its
\* machines in the file.
AllTables ==
  LET graphs == SUBSET {e \in Nodes \X Nodes : e[1] # e[2]}
      orders == {s \in [1..3 -> Nodes] : IsInjective(s)}
  IN  {[i \in 1..3 |-> MachineOf(edges, order[i])] : edges \in graphs, order \in orders}
===============================================================================
