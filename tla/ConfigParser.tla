------------------------------ MODULE ConfigParser ------------------------------
(***************************************************************************)
(* The machine table: the host reads it from the configuration file, line  *)
(* by line, serializes it, and every worker rebuilds it from the reply.    *)
(* A line is a key and a value; an address is one cell of the stream, its  *)
(* length and characters together, and so is every int and every size.     *)
(***************************************************************************)
EXTENDS Integers, Sequences, FiniteSets

CONSTANTS
  Files,      (* the configuration files: sequences of lines              *)
  Addresses,
  NoAddress   (* the empty ip_address                                     *)

VARIABLES
  file,       (* lines left to read                                       *)
  machine,    (* the machine being read                                   *)
  machines,   (* the table                                                *)
  described,  (* history: the file as it was before reading               *)
  phase,      (* "reading", "writing", "receiving" or "received"          *)
  stream,     (* the serialized table                                     *)
  written,    (* the machines serialized so far                           *)
  begins,     (* history: the cell each machine begins at, its size       *)
  at,         (* the cell a worker reads next                             *)
  table       (* the machines a worker has deserialized                   *)

host_vars   == <<file, machine, machines, described>>
stream_vars == <<stream, written, begins>>
vars == <<host_vars, phase, stream_vars, at, table>>

\* Machine()
Machine == [machine_id |-> -1, ip_address |-> NoAddress, in_nodes |-> <<>>, out_nodes |-> <<>>,
            start_layer |-> -1, end_layer |-> -1]

\* A line gives one field of a machine its value.
Lines == [key : {"machine_id"}, val : Nat]
           \union [key : {"ip_address"}, val : Addresses]
           \union [key : {"in_nodes", "out_nodes"}, val : Seq(Nat)]
           \union [key : {"start_layer", "end_layer"}, val : Int]

\* The form of python/config.txt, which the code does not check: a block for
\* each machine, begun by its machine_id, gives each field once at most.
WellFormed(f) ==
  /\ f \in Seq(Lines) /\ f # <<>>
  /\ f[1].key = "machine_id"
  /\ \A i, j \in DOMAIN f :
       i < j /\ f[i].key = f[j].key => \E k \in (i + 1)..j : f[k].key = "machine_id"

ASSUME FilesWellFormed == NoAddress \in Addresses /\ \A f \in Files : WellFormed(f)

Init ==
  /\ file \in Files
  /\ described = file
  /\ machine = Machine
  /\ machines = <<>>
  /\ phase = "reading"
  /\ stream = <<>> /\ written = 0 /\ begins = <<>>
  /\ at = 0
  /\ table = <<>>

-------------------------------------------------------------------------------
(* read_config                                                             *)

\* A field of the current machine: a list is appended to, a value replaced.
SetField(m, line) ==
  IF line.key \in {"in_nodes", "out_nodes"}
    THEN [m EXCEPT ![line.key] = @ \o line.val]
    ELSE [m EXCEPT ![line.key] = line.val]

\* The machine is not reset when the next one begins.
ReadLine_NoReset ==
  /\ phase = "reading" /\ file # <<>>
  /\ LET line    == Head(file)
         isFirst == line.key # "machine_id" \/ machine.machine_id = -1
     IN  /\ machines' = IF isFirst THEN machines ELSE Append(machines, machine)
         /\ machine' = SetField(machine, line)
  /\ file' = Tail(file)
  /\ UNCHANGED <<described, phase, stream_vars, at, table>>

\* One line.  machine_id saves the machine before it, if there is one.
ReadLine ==
  /\ phase = "reading" /\ file # <<>>
  /\ LET line    == Head(file)
         isFirst == line.key # "machine_id" \/ machine.machine_id = -1
     IN  /\ machines' = IF isFirst THEN machines ELSE Append(machines, machine)
         /\ machine' = SetField(IF isFirst THEN machine ELSE Machine, line)
  /\ file' = Tail(file)
  /\ UNCHANGED <<described, phase, stream_vars, at, table>>

\* The end of the file saves the last machine, unless its id is 0.
EndOfFile ==
  /\ phase = "reading" /\ file = <<>>
  /\ machines' = IF machine.machine_id # 0 THEN Append(machines, machine) ELSE machines
  /\ phase' = "writing"
  /\ UNCHANGED <<file, machine, described, stream_vars, at, table>>

-------------------------------------------------------------------------------
(* Serialization.  A reader takes what it needs from the front of a stream *)
(* and leaves the rest.                                                    *)

SerializeVector(vec) == <<Len(vec)>> \o vec

SerializeMachine(m) ==
  <<m.machine_id, m.start_layer, m.end_layer, m.ip_address>>
    \o SerializeVector(m.in_nodes) \o SerializeVector(m.out_nodes)

Cells(s, from, n) == SubSeq(s, from, from + n - 1)

\* The nodes are read in the order of the struct, outputs first.
DeserializeMachine_OutFirst(data) ==
  LET outs == data[5]
      ins  == data[6 + outs]
  IN  [machine_id |-> data[1], start_layer |-> data[2], end_layer |-> data[3],
       ip_address |-> data[4], out_nodes |-> Cells(data, 6, outs),
       in_nodes |-> Cells(data, 7 + outs, ins)]

DeserializeMachine(data) ==
  LET ins  == data[5]
      outs == data[6 + ins]
  IN  [machine_id |-> data[1], start_layer |-> data[2], end_layer |-> data[3],
       ip_address |-> data[4], in_nodes |-> Cells(data, 6, ins),
       out_nodes |-> Cells(data, 7 + ins, outs)]

\* The table is preceded by its length.
BeginStream ==
  /\ phase = "writing" /\ stream = <<>>
  /\ stream' = <<Len(machines)>>
  /\ UNCHANGED <<host_vars, phase, written, begins, at, table>>

\* Each machine is preceded by its size.
WriteMachine ==
  /\ phase = "writing" /\ stream # <<>> /\ written < Len(machines)
  /\ stream' = stream \o SerializeVector(SerializeMachine(machines[written + 1]))
  /\ written' = written + 1
  /\ begins' = Append(begins, Len(stream) + 1)
  /\ UNCHANGED <<host_vars, phase, at, table>>

\* A worker's receiver takes the reply of config_broadcast.
ReceiveStream ==
  /\ phase = "writing" /\ stream # <<>> /\ written = Len(machines)
  /\ phase' = "receiving"
  /\ at' = 2
  /\ UNCHANGED <<host_vars, stream_vars, table>>

ReadMachine ==
  /\ phase = "receiving" /\ Len(table) < stream[1]
  /\ LET size == stream[at]
     IN  /\ table' = Append(table, DeserializeMachine(Cells(stream, at + 1, size)))
         /\ at' = at + 1 + size
  /\ UNCHANGED <<host_vars, phase, stream_vars>>

TableComplete ==
  /\ phase = "receiving" /\ Len(table) = stream[1]
  /\ phase' = "received"
  /\ UNCHANGED <<host_vars, stream_vars, at, table>>

\* Later workers receive the same reply.
Served == phase = "received" /\ UNCHANGED vars

Next ==
  \/ ReadLine \/ EndOfFile
  \/ BeginStream \/ WriteMachine
  \/ ReceiveStream \/ ReadMachine \/ TableComplete
  \/ Served

Spec == Init /\ [][Next]_vars

-------------------------------------------------------------------------------
(* Properties.                                                             *)

IdLines(f) == {i \in DOMAIN f : f[i].key = "machine_id"}

\* The lines of the machine whose machine_id is line i.
BlockOf(f, i) ==
  {j \in DOMAIN f : i <= j /\ ~\E k \in IdLines(f) : i < k /\ k <= j}

\* The value a block gives to a field, or the default.
FieldOf(f, i, key) ==
  IF \E j \in BlockOf(f, i) : f[j].key = key
    THEN f[CHOOSE j \in BlockOf(f, i) : f[j].key = key].val
    ELSE Machine[key]

MachineAt(f, i) == [key \in DOMAIN Machine |-> FieldOf(f, i, key)]

\* The table holds exactly the machines of the file: none is lost, duplicated
\* or mixed with its neighbour, whatever the order of the blocks and of the
\* fields in a block.
TableMatchesFile ==
  phase # "reading" =>
    /\ {machines[n] : n \in DOMAIN machines} = {MachineAt(described, i) : i \in IdLines(described)}
    /\ Len(machines) = Cardinality(IdLines(described))

\* "Save the last machine" (config_parser.h:104): the machine the file ends
\* with is in the table.
LastMachineSaved ==
  phase # "reading" =>
    \A i \in IdLines(described) : DOMAIN described \subseteq 1..i \union BlockOf(described, i) =>
      \E n \in DOMAIN machines : machines[n] = MachineAt(described, i)

\* Every worker works on the table the host read.
TableTransmitted == phase = "received" => table = machines
===============================================================================
