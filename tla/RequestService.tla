---------------------------- MODULE RequestService ----------------------------
(***************************************************************************)
(* What the host's two calls promise to the program that uses the cluster: *)
(* a launched request is answered at most once, only while it is launched, *)
(* and gather_finished_requests returns every answer there is, in order.   *)
(***************************************************************************)
EXTENDS Sequences, FiniteSets

CONSTANT Requests

VARIABLES
  processing,   (* launched and not answered yet                          *)
  answers       (* answered and not gathered yet, oldest first            *)

vars == <<processing, answers>>

Answered == {answers[i] : i \in DOMAIN answers}

Init ==
  /\ processing = {}
  /\ answers = <<>>

Launch(r) ==
  /\ r \notin processing \union Answered
  /\ processing' = processing \union {r}
  /\ UNCHANGED answers

Answer(r) ==
  /\ r \in processing
  /\ processing' = processing \ {r}
  /\ answers' = Append(answers, r)

Gather ==
  /\ answers # <<>>
  /\ answers' = <<>>
  /\ UNCHANGED processing

Next == Gather \/ \E r \in Requests : Launch(r) \/ Answer(r)

SafeSpec == Init /\ [][Next]_vars

\* The service when nothing is lost: every request is answered in the end.
Spec == SafeSpec /\ WF_vars(Gather) /\ \A r \in Requests : WF_vars(Answer(r))
===============================================================================
