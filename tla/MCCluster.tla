------------------------------- MODULE MCCluster -------------------------------
(* The skip cluster of MCRequestPipeline, from the start.                      *)
EXTENDS Cluster

Skip      == {<<0, 1>>, <<0, 2>>, <<2, 1>>, <<1, 0>>}
SkipStart == [w \in 1..2 |-> 0]
SkipEnd   == [w \in 1..2 |-> IF w = 1 THEN 2 ELSE 1]

OneEach   == [r \in {"a", "b"} |-> 1]
===============================================================================
