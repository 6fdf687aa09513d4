--------------------------- MODULE MCThreadSafeQueue ---------------------------
(* compute_send_queue: the compute and the receiver thread push, the sender     *)
(* pops.                                                                        *)
EXTENDS ThreadSafeQueue

ThreeAndTwo == [p \in {"compute", "receiver"} |-> IF p = "compute" THEN 3 ELSE 2]
===============================================================================
