----------------------------- MODULE StartBarrier -----------------------------
(***************************************************************************)
(* What the start-up handshake promises to the callers of                  *)
(* start_network_threads: the host's call returns only when every worker's *)
(* receiver is in its main loop, so the first request launched is neither  *)
(* lost nor taken for an initialization message.                           *)
(***************************************************************************)
CONSTANT Workers

VARIABLES
  accepting,   (* workers whose receiver is in its main loop           *)
  open         (* the host's start_network_threads has returned        *)

vars == <<accepting, open>>

Init ==
  /\ accepting = {}
  /\ open = FALSE

Accept(w) ==
  /\ ~open
  /\ w \notin accepting
  /\ accepting' = accepting \union {w}
  /\ UNCHANGED open

Open ==
  /\ ~open
  /\ accepting = Workers
  /\ open' = TRUE
  /\ UNCHANGED accepting

Next == Open \/ \E w \in Workers : Accept(w)

SafeSpec == Init /\ [][Next]_vars
Spec     == SafeSpec /\ WF_vars(Next)
===============================================================================
