--------------------------- MODULE MCSwarmScheduler ---------------------------
(* Floats with three significant bits, rounded to nearest, ties to even.       *)
EXTENDS SwarmScheduler

\* The distance of the floats around x.
Ulp(x) == 2 ^ (CHOOSE k \in 0..8 : x < 2 ^ (3 + k) /\ (k = 0 \/ x >= 2 ^ (2 + k)))

ToNearest ==
  [x \in 0..43 |->
     LET u == Ulp(x)  q == x \div u  r == x % u
     IN  IF 2 * r > u \/ (2 * r = u /\ q % 2 = 1) THEN (q + 1) * u ELSE q * u]
===============================================================================
