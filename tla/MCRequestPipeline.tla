--------------------------- MODULE MCRequestPipeline ---------------------------
(* Small clusters for RequestPipeline.  Fork: two first-stage workers in front *)
(* of one last-stage worker.  Skip, as in python/partial_config.txt: worker 1  *)
(* runs the whole model for the host, or what worker 2 leaves of it.           *)
EXTENDS RequestPipeline, TLC

Fork      == {<<0, 1>>, <<0, 2>>, <<1, 3>>, <<2, 3>>, <<3, 0>>}
ForkStart == [w \in 1..3 |-> IF w = 3 THEN 1 ELSE 0]
ForkEnd   == [w \in 1..3 |-> IF w = 3 THEN 2 ELSE 1]

Skip      == {<<0, 1>>, <<0, 2>>, <<2, 1>>, <<1, 0>>}
SkipStart == [w \in 1..2 |-> 0]
SkipEnd   == [w \in 1..2 |-> IF w = 1 THEN 2 ELSE 1]

\* The routes of python/host.py and python/partial_host.py.
ForkRoutes == {<<Stage(1, 0, 1), Stage(3, 1, 2), Stage(0, NoLayer, NoLayer)>>,
               <<Stage(2, 0, 1), Stage(3, 1, 2), Stage(0, NoLayer, NoLayer)>>}
SkipRoutes == {<<Stage(1, 0, 2), Stage(0, NoLayer, NoLayer)>>,
               <<Stage(2, 0, 1), Stage(1, 1, 2), Stage(0, NoLayer, NoLayer)>>}

\* The links into the last stage and back to the host.
LastLinks == {<<1, 3>>, <<3, 0>>}

TwoTwice    == [r \in {"a", "b"} |-> 2]
TwoAndThree == [r \in {"a", "b"} |-> IF r = "a" THEN 2 ELSE 3]
OnceEach    == [r \in Requests |-> 1]

\* Requests launched equally often are interchangeable.
Interchangeable == Permutations(Requests)
===============================================================================
