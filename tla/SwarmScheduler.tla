---------------------------- MODULE SwarmScheduler ----------------------------
(***************************************************************************)
(* The swarm scheduler a sender asks for the next server of a prompt: a    *)
(* heap of priorities that only grow, each by the server's weight when the *)
(* server is chosen, and weights that are moving averages of the times the *)
(* SwarmInfo messages bring.                                               *)
(*                                                                         *)
(* Priorities and weights are floats.  They are counted in units of the    *)
(* smallest float the model has; Round maps the exact result of an         *)
(* operation to the float the machine stores, and is any rounding that     *)
(* preserves order and leaves floats alone.  update_weights rounds three   *)
(* times where the model rounds once.                                      *)
(***************************************************************************)
EXTENDS Integers, FiniteSets

CONSTANTS
  Servers,           (* node_ids: the sender's outputs                     *)
  InitialPriority,   (* initial_priority, 0.05 in both senders             *)
  MaxWeight,         (* the largest weight there can be                    *)
  Limit,             (* where additions of a weight stop having an effect  *)
  Round,             (* the floating-point rounding of 0..Limit + MaxWeight*)
  Deltas             (* the times update_weights is given, never negative  *)

Floats == {x \in 0..(Limit + MaxWeight) : Round[x] = x}

ASSUME SwarmConstants ==
  /\ IsFiniteSet(Servers)
  /\ MaxWeight \in Nat /\ Limit \in Nat
  /\ Round \in [0..(Limit + MaxWeight) -> 0..(Limit + MaxWeight)]
  /\ \A x, y \in 0..(Limit + MaxWeight) : x <= y => Round[x] <= Round[y]
  /\ \A x \in 0..(Limit + MaxWeight) : Round[Round[x]] = Round[x]
  /\ MaxWeight \in Floats /\ MaxWeight <= Limit
  /\ InitialPriority \in Floats /\ InitialPriority <= MaxWeight
  /\ Deltas \subseteq 0..MaxWeight

\* Priorities stay finite: at Limit every weight is absorbed.
ASSUME Saturation == \A x \in 0..(Limit + MaxWeight) : Round[x] <= Limit

VARIABLES
  queue,    (* the priority of each server in the heap                     *)
  ema,      (* the weight of each server                                   *)
  waited    (* history: choices since a server was chosen or one absorbed  *)

vars == <<queue, ema, waited>>

Init ==
  /\ queue = [s \in Servers |-> InitialPriority]
  /\ ema = [s \in Servers |-> InitialPriority]
  /\ waited = [s \in Servers |-> 0]

\* std::priority_queue without ComparePriority.
First_Largest(s) == \A t \in Servers : queue[t] <= queue[s]

\* The heap's top: a smallest priority; which of several equal ones depends on
\* the order of the heap.
First(s) == \A t \in Servers : queue[s] <= queue[t]

\* Counted from the initial priority again.
NewPriority_Restart(s) == Round[InitialPriority + ema[s]]

NewPriority(s) == Round[queue[s] + ema[s]]

\* The addition changed nothing.
Absorbed(s) == NewPriority(s) = queue[s]

\* choose_server.
Choose(s) ==
  /\ First(s)
  /\ queue' = [queue EXCEPT ![s] = NewPriority(s)]
  /\ waited' = [t \in Servers |-> IF t = s \/ Absorbed(s) THEN 0 ELSE waited[t] + 1]
  /\ UNCHANGED ema

\* The old weight is added in full.
Average_Sum(delta, weight) == Round[(4 * delta) \div 5 + weight]

\* smoothing_factor * delta_t + (1 - smoothing_factor) * ema, with the 0.8 both
\* senders use, to the nearest unit.
Average(delta, weight) == Round[(4 * delta + weight + 2) \div 5]

\* update_weights.
Update(s, delta) ==
  /\ ema' = [ema EXCEPT ![s] = Average(delta, @)]
  /\ UNCHANGED <<queue, waited>>

Next ==
  \/ \E s \in Servers : Choose(s)
  \/ \E s \in Servers, delta \in Deltas : Update(s, delta)

Spec == Init /\ [][Next]_vars

-------------------------------------------------------------------------------
(* Properties.                                                             *)

TypeOK ==
  /\ queue \in [Servers -> Floats] /\ \A s \in Servers : queue[s] <= Limit
  /\ ema \in [Servers -> 0..MaxWeight]

\* No server runs ahead of another one by more than a single choice: each has
\* had its share of the time handed out, whatever the weights were meanwhile.
Balanced == \A s, t \in Servers : queue[s] <= Round[queue[t] + MaxWeight]

\* As long as no addition is absorbed, a server is passed over only a bounded
\* number of times: it never starves, however slow it was measured to be.
BoundedWait ==
  \A s \in Servers : waited[s] <= (Cardinality(Servers) - 1) * (MaxWeight + 1)
===============================================================================
