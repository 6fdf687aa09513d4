---------------------------- MODULE MCConfigParser ----------------------------
(* Files of up to three machines in every order, with the fields of a block in *)
(* the order of python/config.txt or reversed, or with nodes left out.         *)
EXTENDS ConfigParser

CONSTANTS HostAddress, FirstAddress, LastAddress

AllAddresses == {NoAddress, HostAddress, FirstAddress, LastAddress}

Line(key, val) == [key |-> key, val |-> val]

Fields(id) ==
  CASE id = 0 -> <<Line("ip_address", HostAddress), Line("in_nodes", <<2>>), Line("out_nodes", <<1, 2>>),
                   Line("start_layer", -1), Line("end_layer", -1)>>
    [] id = 1 -> <<Line("ip_address", FirstAddress), Line("in_nodes", <<0>>), Line("out_nodes", <<2>>),
                   Line("start_layer", 0), Line("end_layer", 2)>>
    [] id = 2 -> <<Line("ip_address", LastAddress), Line("in_nodes", <<0, 1>>), Line("out_nodes", <<0>>),
                   Line("start_layer", 2), Line("end_layer", 4)>>

Backwards(s) == [i \in DOMAIN s |-> s[Len(s) + 1 - i]]

\* The ways a block may be written.
Blocks(id) ==
  {<<Line("machine_id", id)>> \o fields :
     fields \in {Fields(id), Backwards(Fields(id)),
                 SelectSeq(Fields(id), LAMBDA line : line.key # "in_nodes")}}

Ids == UNION {{s \in [1..n -> 0..2] : Cardinality({s[i] : i \in 1..n}) = n} : n \in 1..3}

FilesOf(ids) ==
  IF Len(ids) = 1 THEN Blocks(ids[1])
  ELSE IF Len(ids) = 2 THEN {a \o b : a \in Blocks(ids[1]), b \in Blocks(ids[2])}
  ELSE {a \o b \o c : a \in Blocks(ids[1]), b \in Blocks(ids[2]), c \in Blocks(ids[3])}

AllFiles      == UNION {FilesOf(ids) : ids \in Ids}
HostNotLast   == UNION {FilesOf(ids) : ids \in {s \in Ids : s[Len(s)] # 0}}
===============================================================================
