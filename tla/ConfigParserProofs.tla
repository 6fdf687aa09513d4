--------------------------- MODULE ConfigParserProofs ---------------------------
(***************************************************************************)
(* The table that is read is the file's, and the table that is received is *)
(* the one that was read, for files of any length and every order of their *)
(* blocks and fields.                                                      *)
(***************************************************************************)
EXTENDS ConfigParser, FiniteSetTheorems, SequenceTheorems, TLAPS

-------------------------------------------------------------------------------
(* Reading the file.                                                       *)

Machines == [machine_id : Int, ip_address : Addresses, in_nodes : Seq(Nat), out_nodes : Seq(Nat),
             start_layer : Int, end_layer : Int]

Keys == {"machine_id", "ip_address", "in_nodes", "out_nodes", "start_layer", "end_layer"}

\* The lines read so far.
Read == Len(described) - Len(file)

\* m is what lines c to n say of a machine.
Tells(f, c, n, m) ==
  \A key \in Keys :
    /\ \A j \in c..n : f[j].key = key => m[key] = f[j].val
    /\ (\A j \in c..n : f[j].key # key) => m[key] = Machine[key]

\* The block of line c goes on to line n at least.
Open(f, c, n) == c \in IdLines(f) /\ c <= n /\ \A k \in IdLines(f) : ~(c < k /\ k <= n)

Counted(f, n) == {i \in IdLines(f) : i <= n}

\* ms are the machines of the blocks before line c.
Saved(f, c, ms) == {ms[n] : n \in DOMAIN ms} = {MachineAt(f, i) : i \in {j \in IdLines(f) : j < c}}

\* The machine being read is the one of the block being read, and the table
\* holds those of the blocks before.
BlocksInv ==
  Read > 0 => \E c \in IdLines(described) :
    /\ Open(described, c, Read) /\ Tells(described, c, Read, machine) /\ Saved(described, c, machines)
    /\ Len(machines) + 1 = Cardinality(Counted(described, Read))

ReadInv ==
  /\ described \in Files
  /\ file \in Seq(Lines) /\ Len(file) <= Len(described)
  /\ \A i \in 1..Len(file) : file[i] = described[Read + i]
  /\ machine \in Machines /\ machines \in Seq(Machines)
  /\ phase = "reading" /\ Read = 0 => machine = Machine /\ machines = <<>>
  /\ phase = "reading" => BlocksInv

-------------------------------------------------------------------------------
(* A line of the file, and what it does to the machine it belongs to.      *)

LEMMA LineOfFile ==
  ASSUME NEW f \in Files, NEW n \in 1..Len(f)
  PROVE  /\ Len(f) \in Nat /\ DOMAIN f = 1..Len(f)
         /\ f[n] \in Lines /\ f[n].key \in Keys
         /\ n \in IdLines(f) <=> f[n].key = "machine_id"
<1>1. f \in Seq(Lines)
  BY FilesWellFormed DEF WellFormed
<1>2. Len(f) \in Nat /\ DOMAIN f = 1..Len(f) /\ f[n] \in Lines
  BY <1>1, LenProperties, ElementOfSeq
<1>3. \A line \in Lines : line.key \in Keys
  BY DEF Lines, Keys
<1> QED BY <1>2, <1>3 DEF IdLines

LEMMA MachineTyped == Machine \in Machines /\ DOMAIN Machine = Keys
<1>1. <<>> \in Seq(Nat)
  BY EmptySeq
<1>2. DOMAIN Machine = Keys
  BY DEF Machine, Keys
<1> QED BY <1>1, <1>2, FilesWellFormed DEF Machine, Machines

\* A line sets its own field to its value if the field still has its default
\* value, and leaves the others alone.
LEMMA FieldSet ==
  ASSUME NEW m \in Machines, NEW line \in Lines, m[line.key] = Machine[line.key]
  PROVE  /\ SetField(m, line) \in Machines
         /\ SetField(m, line)[line.key] = line.val
         /\ \A key \in Keys \ {line.key} : SetField(m, line)[key] = m[key]
<1>1. CASE line \in [key : {"in_nodes", "out_nodes"}, val : Seq(Nat)]
  <2>1. line.key \in {"in_nodes", "out_nodes"} /\ line.val \in Seq(Nat) /\ m[line.key] = <<>>
    BY <1>1 DEF Machine
  <2>2. m[line.key] \o line.val = line.val
    BY <2>1, ConcatEmptySeq
  <2>3. SetField(m, line) = [m EXCEPT ![line.key] = line.val]
    BY <2>1, <2>2 DEF SetField
  <2> QED BY <2>1, <2>3 DEF Machines, Keys
<1>2. CASE line \notin [key : {"in_nodes", "out_nodes"}, val : Seq(Nat)]
  <2>1. SetField(m, line) = [m EXCEPT ![line.key] = line.val]
    BY <1>2 DEF SetField, Lines
  <2> QED BY <1>2, <2>1 DEF Machines, Keys, Lines
<1> QED BY <1>1, <1>2

\* A machine_id begins a block that says what a new machine is set to.
LEMMA BlockBegins ==
  ASSUME NEW f \in Files, NEW n \in IdLines(f)
  PROVE  /\ Open(f, n, n) /\ Tells(f, n, n, SetField(Machine, f[n]))
         /\ SetField(Machine, f[n]) \in Machines
<1>1. n \in 1..Len(f) /\ f[n] \in Lines /\ Len(f) \in Nat
  BY LineOfFile, FilesWellFormed, LenProperties DEF IdLines, WellFormed
<1>2. /\ SetField(Machine, f[n]) \in Machines
      /\ SetField(Machine, f[n])[f[n].key] = f[n].val
      /\ \A key \in Keys \ {f[n].key} : SetField(Machine, f[n])[key] = Machine[key]
  BY <1>1, MachineTyped, FieldSet
<1>3. \A j \in n..n : j = n
  BY <1>1
<1>4. n \in n..n
  BY <1>1
<1>5. Tells(f, n, n, SetField(Machine, f[n]))
  BY <1>2, <1>3, <1>4, Zenon DEF Tells
<1>6. Open(f, n, n)
  BY <1>1 DEF Open, IdLines
<1> QED BY <1>2, <1>5, <1>6

\* Another line of the block gives a field that no earlier one gave.
LEMMA BlockGoesOn ==
  ASSUME NEW f \in Files, NEW n \in Nat, n + 1 \in 1..Len(f), n + 1 \notin IdLines(f),
         NEW c \in IdLines(f), Open(f, c, n), NEW m \in Machines, Tells(f, c, n, m)
  PROVE  /\ Open(f, c, n + 1) /\ Tells(f, c, n + 1, SetField(m, f[n + 1]))
         /\ SetField(m, f[n + 1]) \in Machines
<1> DEFINE line == f[n + 1]
<1>1. /\ Len(f) \in Nat /\ DOMAIN f = 1..Len(f)
      /\ line \in Lines /\ line.key \in Keys
  BY LineOfFile
<1>2. c \in 1..n /\ IdLines(f) \subseteq 1..Len(f)
  BY <1>1 DEF Open, IdLines
<1>3. \A j \in c..n : f[j].key # line.key
  <2> SUFFICES ASSUME NEW j \in c..n, f[j].key = line.key PROVE FALSE
    OBVIOUS
  <2>0. j \in DOMAIN f /\ n + 1 \in DOMAIN f /\ j < n + 1
    BY <1>1, <1>2
  <2>1. PICK k \in (j + 1)..(n + 1) : f[k].key = "machine_id"
    BY <2>0, FilesWellFormed, Zenon DEF WellFormed
  <2>2. k \in IdLines(f)
    BY <1>1, <1>2, <2>1 DEF IdLines
  <2>3. k # n + 1
    BY <2>2
  <2>4. c < k /\ k <= n
    BY <1>2, <2>1, <2>3
  <2> QED BY <2>2, <2>4 DEF Open
<1>4. m[line.key] = Machine[line.key]
  BY <1>1, <1>3, Zenon DEF Tells
<1>5. /\ SetField(m, line) \in Machines
      /\ SetField(m, line)[line.key] = line.val
      /\ \A key \in Keys \ {line.key} : SetField(m, line)[key] = m[key]
  BY <1>1, <1>4, FieldSet
<1>6. c..(n + 1) = c..n \union {n + 1}
  BY <1>2
<1>7. Tells(f, c, n + 1, SetField(m, line))
  <2> SUFFICES ASSUME NEW key \in Keys
               PROVE  /\ \A j \in c..(n + 1) : f[j].key = key =>
                                                  SetField(m, line)[key] = f[j].val
                      /\ (\A j \in c..(n + 1) : f[j].key # key) =>
                            SetField(m, line)[key] = Machine[key]
    BY Zenon DEF Tells
  <2>1. CASE key = line.key
    BY <1>3, <1>5, <1>6, <2>1, Zenon
  <2>2. CASE key # line.key
    <3>1. SetField(m, line)[key] = m[key]
      BY <1>5, <2>2
    <3> QED BY <1>6, <2>2, <3>1, Zenon DEF Tells
  <2> QED BY <2>1, <2>2
<1>8. Open(f, c, n + 1)
  <2>1. \A k \in IdLines(f) : k <= n + 1 => k <= n
    BY <1>2
  <2> QED BY <1>2, <2>1 DEF Open
<1> QED BY <1>5, <1>7, <1>8

\* No line of the same block follows line n.
LastOfBlock(f, n) == n = Len(f) \/ n + 1 \in IdLines(f)

\* At its end, what a block has said is the machine the file describes.
LEMMA BlockEnds ==
  ASSUME NEW f \in Files, NEW n \in 1..Len(f), LastOfBlock(f, n),
         NEW c \in IdLines(f), Open(f, c, n), NEW m \in Machines, Tells(f, c, n, m)
  PROVE  m = MachineAt(f, c)
<1>1. Len(f) \in Nat /\ DOMAIN f = 1..Len(f)
  BY LineOfFile
<1>2. c \in 1..n /\ IdLines(f) \subseteq 1..Len(f)
  BY <1>1 DEF Open, IdLines
<1>0. c \in Nat /\ n \in Nat /\ 1 <= c /\ c <= n /\ n <= Len(f) /\ IdLines(f) \subseteq Nat
  BY <1>1, <1>2
<1>3. BlockOf(f, c) = c..n
  <2>1. ASSUME NEW j \in c..n PROVE j \in BlockOf(f, c)
    <3>1. j \in DOMAIN f /\ c <= j
      BY <1>0, <1>1
    <3>2. \A k \in IdLines(f) : k <= j => k <= n
      BY <1>0
    <3> QED BY <3>1, <3>2, Zenon DEF BlockOf, Open
  <2>2. ASSUME NEW j \in BlockOf(f, c) PROVE j \in c..n
    <3>1. j \in 1..Len(f) /\ c <= j
      BY <1>1 DEF BlockOf
    <3>2. CASE n = Len(f)
      BY <1>2, <3>1, <3>2
    <3>3. CASE n + 1 \in IdLines(f)
      <4>1. ~(c < n + 1 /\ n + 1 <= j)
        BY <3>3 DEF BlockOf
      <4> QED BY <1>2, <3>1, <4>1
    <3> QED BY <3>2, <3>3 DEF LastOfBlock
  <2> QED BY <2>1, <2>2
<1>4. ASSUME NEW key \in Keys PROVE m[key] = FieldOf(f, c, key)
  <2>1. CASE \E j \in c..n : f[j].key = key
    <3> DEFINE i == CHOOSE j \in c..n : f[j].key = key
    <3>1. i \in c..n /\ f[i].key = key
      BY <2>1, Zenon
    <3>2. FieldOf(f, c, key) = f[i].val
      BY <1>3, <2>1, Zenon DEF FieldOf
    <3> QED BY <3>1, <3>2, Zenon DEF Tells
  <2>2. CASE ~\E j \in c..n : f[j].key = key
    BY <1>3, <2>2, Zenon DEF FieldOf, Tells
  <2> QED BY <2>1, <2>2
<1>5. m = [key \in Keys |-> m[key]]
  BY DEF Machines, Keys
<1>6. MachineAt(f, c) = [key \in Keys |-> FieldOf(f, c, key)]
  BY MachineTyped, Zenon DEF MachineAt
<1> QED BY <1>4, <1>5, <1>6, Zenon

\* The table with the machine of the block that ends.
LEMMA MachineSaved ==
  ASSUME NEW f, NEW c \in IdLines(f), NEW ms \in Seq(Machines), Saved(f, c, ms), MachineAt(f, c) \in Machines
  PROVE  {Append(ms, MachineAt(f, c))[n] : n \in DOMAIN Append(ms, MachineAt(f, c))}
           = {MachineAt(f, i) : i \in {j \in IdLines(f) : j < c} \union {c}}
<1> DEFINE more == Append(ms, MachineAt(f, c))
<1>1. /\ Len(ms) \in Nat /\ DOMAIN ms = 1..Len(ms) /\ DOMAIN more = 1..(Len(ms) + 1)
      /\ more[Len(ms) + 1] = MachineAt(f, c) /\ \A n \in 1..Len(ms) : more[n] = ms[n]
  BY LenProperties
<1>2. DOMAIN more = DOMAIN ms \union {Len(ms) + 1}
  BY <1>1
<1> HIDE DEF more
<1>3. {more[n] : n \in DOMAIN more} = {ms[n] : n \in DOMAIN ms} \union {MachineAt(f, c)}
  <2>1. ASSUME NEW x \in {more[n] : n \in DOMAIN more}
        PROVE  x \in {ms[n] : n \in DOMAIN ms} \union {MachineAt(f, c)}
    BY <1>1, <1>2, Zenon
  <2>2. ASSUME NEW x \in {ms[n] : n \in DOMAIN ms} \union {MachineAt(f, c)}
        PROVE  x \in {more[n] : n \in DOMAIN more}
    BY <1>1, <1>2, Zenon
  <2> QED BY <2>1, <2>2
<1>4. @ = {MachineAt(f, i) : i \in {j \in IdLines(f) : j < c}} \union {MachineAt(f, c)}
  BY Zenon DEF Saved
<1>5. @ = {MachineAt(f, i) : i \in {j \in IdLines(f) : j < c} \union {c}}
  OBVIOUS
<1> QED BY <1>3, <1>4, <1>5 DEF more

\* Counting the machine_id lines.
LEMMA OneMoreCounted ==
  ASSUME NEW f \in Files, NEW n \in Nat, n + 1 \in 1..Len(f)
  PROVE  /\ Cardinality(Counted(f, n)) \in Nat
         /\ n + 1 \in IdLines(f) => Cardinality(Counted(f, n + 1)) = Cardinality(Counted(f, n)) + 1
         /\ n + 1 \notin IdLines(f) => Counted(f, n + 1) = Counted(f, n)
         /\ Counted(f, Len(f)) = IdLines(f)
<1>1. Len(f) \in Nat /\ DOMAIN f = 1..Len(f)
  BY LineOfFile
<1>2. \A i \in IdLines(f) : i \in Nat /\ 1 <= i /\ i <= Len(f)
  BY <1>1 DEF IdLines
<1>3. Counted(f, n) \subseteq 1..Len(f) /\ Counted(f, Len(f)) = IdLines(f)
  BY <1>1, <1>2 DEF Counted
<1>4. IsFiniteSet(Counted(f, n))
  <2>1. IsFiniteSet(1..Len(f))
    BY <1>1, FS_Interval
  <2> QED BY <1>3, <2>1, FS_Subset
<1>5. n + 1 \notin Counted(f, n)
  BY DEF Counted
<1>6. \A i \in IdLines(f) : i <= n + 1 <=> i <= n \/ i = n + 1
  BY <1>2
<1>7. n + 1 \in IdLines(f) => Counted(f, n + 1) = Counted(f, n) \union {n + 1}
  BY <1>2, <1>6 DEF Counted
<1>8. n + 1 \notin IdLines(f) => Counted(f, n + 1) = Counted(f, n)
  BY <1>2, <1>6 DEF Counted
<1> QED BY <1>3, <1>4, <1>5, <1>7, <1>8, FS_CardinalityType, FS_AddElement

-------------------------------------------------------------------------------
(* The reader.                                                             *)

\* The next line of the file.
LEMMA LineRead ==
  ASSUME ReadInv, ReadLine
  PROVE  /\ Read \in Nat /\ Read + 1 \in 1..Len(described) /\ Head(file) = described[Read + 1]
         /\ Read' = Read + 1 /\ described' = described /\ described \in Files
         /\ file' \in Seq(Lines) /\ Len(file') <= Len(described')
         /\ \A i \in 1..Len(file') : file'[i] = described'[Read' + i]
<1>1. file \in Seq(Lines) /\ file # <<>> /\ file' = Tail(file) /\ described' = described
  BY DEF ReadInv, ReadLine
<1>2. /\ Head(file) = file[1] /\ file' \in Seq(Lines) /\ Len(file') = Len(file) - 1
      /\ \A i \in 1..Len(file') : file'[i] = file[i + 1]
  BY <1>1, HeadTailProperties
<1>3. /\ Len(file) \in Nat \ {0} /\ Len(described) \in Nat /\ described \in Files
      /\ Len(file) <= Len(described) /\ \A i \in 1..Len(file) : file[i] = described[Read + i]
  BY <1>1, EmptySeq, LenProperties, FilesWellFormed DEF ReadInv, WellFormed
<1>4. Read \in Nat /\ Read + 1 \in 1..Len(described) /\ Read' = Read + 1
  BY <1>1, <1>2, <1>3 DEF Read
<1>5. Head(file) = described[Read + 1]
  BY <1>2, <1>3
<1>6. \A i \in 1..Len(file') : file'[i] = described[Read + 1 + i]
  <2> SUFFICES ASSUME NEW i \in 1..Len(file') PROVE file'[i] = described[Read + 1 + i]
    OBVIOUS
  <2>1. i + 1 \in 1..Len(file) /\ Read + (i + 1) = Read + 1 + i
    BY <1>2, <1>3, <1>4
  <2> QED BY <1>2, <1>3, <2>1
<1>7. Len(file') <= Len(described')
  BY <1>1, <1>2, <1>3
<1> QED BY <1>1, <1>2, <1>3, <1>4, <1>5, <1>6, <1>7

\* In the middle of a block the machine has its id already.
LEMMA MachineHasId ==
  ASSUME described \in Files, NEW c, NEW n, Open(described, c, n), n \in 1..Len(described), NEW m, Tells(described, c, n, m)
  PROVE  m.machine_id = described[c].val /\ m.machine_id \in Nat
<1>1. c \in IdLines(described) /\ c <= n
  BY DEF Open
<1>2. c \in 1..Len(described) /\ described[c].key = "machine_id" /\ described[c] \in Lines
  BY <1>1, LineOfFile, FilesWellFormed, LenProperties DEF IdLines, WellFormed
<1>3. described[c].val \in Nat
  BY <1>2 DEF Lines
<1>4. c \in c..n
  BY <1>1, <1>2, LineOfFile
<1>5. "machine_id" \in Keys
  BY DEF Keys
<1> QED BY <1>2, <1>3, <1>4, <1>5 DEF Tells

LEMMA FirstLineRead ==
  ASSUME ReadInv, ReadLine, Read = 0
  PROVE  ReadInv'
<1>1. /\ Read \in Nat /\ Read + 1 \in 1..Len(described) /\ Head(file) = described[Read + 1]
      /\ Read' = Read + 1 /\ described' = described /\ described \in Files
      /\ file' \in Seq(Lines) /\ Len(file') <= Len(described')
      /\ \A i \in 1..Len(file') : file'[i] = described'[Read' + i]
  BY LineRead
<1>2. machine = Machine /\ machines = <<>> /\ phase = "reading" /\ phase' = "reading"
  BY DEF ReadInv, ReadLine
<1>3. 1 \in IdLines(described) /\ described[1].key = "machine_id"
  BY <1>1, LineOfFile, FilesWellFormed DEF WellFormed
<1>4. machine' = SetField(Machine, described[1]) /\ machines' = <<>>
  BY <1>1, <1>2, <1>3 DEF ReadLine, Machine
<1>5. Open(described, 1, 1) /\ Tells(described, 1, 1, machine') /\ machine' \in Machines
  BY <1>1, <1>3, <1>4, BlockBegins
<1>6. Saved(described, 1, <<>>)
  <2>1. {j \in IdLines(described) : j < 1} = {}
    BY <1>1, LineOfFile DEF IdLines
  <2>2. {MachineAt(described, i) : i \in {j \in IdLines(described) : j < 1}} = {}
    BY <2>1
  <2>3. DOMAIN <<>> = {}
    OBVIOUS
  <2> QED BY <2>2, <2>3, Zenon DEF Saved
<1>7. Cardinality(Counted(described, 1)) = 1
  <2>1. Counted(described, 0) = {}
    BY <1>1, LineOfFile DEF Counted, IdLines
  <2>2. Cardinality(Counted(described, 0 + 1)) = Cardinality(Counted(described, 0)) + 1
    BY <1>1, <1>3, OneMoreCounted
  <2> QED BY <2>1, <2>2, FS_EmptySet
<1>8. machines' \in Seq(Machines) /\ Len(machines') = 0
  BY <1>4, EmptySeq
<1>9. Read' = 1
  BY <1>1
<1>10. BlocksInv'
  BY <1>1, <1>3, <1>4, <1>5, <1>6, <1>7, <1>8, <1>9 DEF BlocksInv
<1> QED BY <1>1, <1>2, <1>5, <1>8, <1>9, <1>10 DEF ReadInv

\* A block begins and the machine of the one before it is saved.
LEMMA NextBlockRead ==
  ASSUME ReadInv, ReadLine, Read > 0, Read + 1 \in IdLines(described)
  PROVE  ReadInv'
<1> DEFINE n == Read
<1>1. /\ n \in Nat /\ n + 1 \in 1..Len(described) /\ Head(file) = described[n + 1]
      /\ Read' = n + 1 /\ described' = described /\ described \in Files
      /\ file' \in Seq(Lines) /\ Len(file') <= Len(described')
      /\ \A i \in 1..Len(file') : file'[i] = described'[Read' + i]
  BY LineRead
<1>2. /\ machine \in Machines /\ machines \in Seq(Machines) /\ BlocksInv
      /\ phase = "reading" /\ phase' = "reading"
  BY DEF ReadInv, ReadLine
<1>3. PICK c \in IdLines(described) :
        /\ Open(described, c, n) /\ Tells(described, c, n, machine) /\ Saved(described, c, machines)
        /\ Len(machines) + 1 = Cardinality(Counted(described, n))
  BY <1>2 DEF BlocksInv
<1>4. n \in 1..Len(described) /\ Len(described) \in Nat /\ described[n + 1].key = "machine_id"
  BY <1>1, LineOfFile
<1>5. machine.machine_id \in Nat
  BY <1>1, <1>3, <1>4, MachineHasId
<1>6. machines' = Append(machines, machine) /\ machine' = SetField(Machine, described[n + 1])
  BY <1>1, <1>4, <1>5 DEF ReadLine
<1>7. machine = MachineAt(described, c)
  BY <1>1, <1>2, <1>3, <1>4, BlockEnds DEF LastOfBlock
<1>8. /\ Open(described, n + 1, n + 1) /\ Tells(described, n + 1, n + 1, machine')
      /\ machine' \in Machines
  BY <1>1, <1>6, BlockBegins
<1>9. machines' \in Seq(Machines) /\ Len(machines') = Len(machines) + 1 /\ Len(machines) \in Nat
  BY <1>2, <1>6, AppendProperties, LenProperties
<1>10. Saved(described, n + 1, machines')
  <2>1. {machines'[k] : k \in DOMAIN machines'}
          = {MachineAt(described, i) : i \in {j \in IdLines(described) : j < c} \union {c}}
    <3>1. machines' = Append(machines, MachineAt(described, c)) /\ MachineAt(described, c) \in Machines
      BY <1>2, <1>6, <1>7
    <3> QED BY <1>2, <1>3, <3>1, MachineSaved
  <2>2. {j \in IdLines(described) : j < c} \union {c} = {j \in IdLines(described) : j < n + 1}
    <3>1. \A j \in IdLines(described) : j \in Nat
      BY <1>4, LineOfFile, <1>1 DEF IdLines
    <3>2. c \in Nat /\ c <= n /\ \A k \in IdLines(described) : ~(c < k /\ k <= n)
      BY <1>3, <3>1 DEF Open
    <3>3. \A j \in IdLines(described) : j < n + 1 <=> j < c \/ j = c
      <4> SUFFICES ASSUME NEW j \in IdLines(described) PROVE j < n + 1 <=> j < c \/ j = c
        OBVIOUS
      <4>1. j \in Nat /\ c \in Nat /\ n \in Nat /\ c <= n /\ ~(c < j /\ j <= n)
        BY <1>1, <3>1, <3>2
      <4> QED BY <4>1
    <3> QED BY <1>3, <3>3
  <2> QED BY <2>1, <2>2, Zenon DEF Saved
<1>11. Len(machines') + 1 = Cardinality(Counted(described, n + 1))
  <2>1. Cardinality(Counted(described, n + 1)) = Cardinality(Counted(described, n)) + 1
    BY <1>1, OneMoreCounted
  <2> QED BY <1>3, <1>9, <2>1
<1>12. BlocksInv'
  BY <1>1, <1>8, <1>10, <1>11 DEF BlocksInv
<1>13. Read' > 0
  BY <1>1
<1> QED BY <1>1, <1>2, <1>8, <1>9, <1>12, <1>13 DEF ReadInv

\* The block goes on.
LEMMA NextFieldRead ==
  ASSUME ReadInv, ReadLine, Read > 0, Read + 1 \notin IdLines(described)
  PROVE  ReadInv'
<1> DEFINE n == Read
<1>1. /\ n \in Nat /\ n + 1 \in 1..Len(described) /\ Head(file) = described[n + 1]
      /\ Read' = n + 1 /\ described' = described /\ described \in Files
      /\ file' \in Seq(Lines) /\ Len(file') <= Len(described')
      /\ \A i \in 1..Len(file') : file'[i] = described'[Read' + i]
  BY LineRead
<1>2. /\ machine \in Machines /\ machines \in Seq(Machines) /\ BlocksInv
      /\ phase = "reading" /\ phase' = "reading"
  BY DEF ReadInv, ReadLine
<1>3. PICK c \in IdLines(described) :
        /\ Open(described, c, n) /\ Tells(described, c, n, machine) /\ Saved(described, c, machines)
        /\ Len(machines) + 1 = Cardinality(Counted(described, n))
  BY <1>2 DEF BlocksInv
<1>4. described[n + 1].key # "machine_id"
  BY <1>1, LineOfFile
<1>5. machines' = machines /\ machine' = SetField(machine, described[n + 1])
  BY <1>1, <1>4 DEF ReadLine
<1>6. /\ Open(described, c, n + 1) /\ Tells(described, c, n + 1, machine')
      /\ machine' \in Machines
  BY <1>1, <1>2, <1>3, <1>5, BlockGoesOn
<1>7. Counted(described, n + 1) = Counted(described, n)
  BY <1>1, OneMoreCounted
<1>8. BlocksInv'
  BY <1>1, <1>3, <1>5, <1>6, <1>7 DEF BlocksInv
<1>9. Read' > 0
  BY <1>1
<1> QED BY <1>1, <1>2, <1>5, <1>6, <1>8, <1>9 DEF ReadInv

\* A machine at the end of the file is saved only if it is not the host.
WorkerLast ==
  \A f \in Files : \A i \in IdLines(f) :
    (\A j \in IdLines(f) : j <= i) => f[i].val # 0

LEMMA FileRead ==
  ASSUME ReadInv, EndOfFile
  PROVE  ReadInv' /\ (WorkerLast => TableMatchesFile')
<1> DEFINE n == Len(described)
<1>1. /\ phase = "reading" /\ phase' = "writing" /\ file = <<>> /\ described \in Files
      /\ machine \in Machines /\ machines \in Seq(Machines) /\ BlocksInv
      /\ machine' = machine /\ described' = described /\ file' = file
  BY DEF ReadInv, EndOfFile
<1>2. Read = n /\ n \in Nat /\ n > 0
  <2>1. described \in Seq(Lines) /\ described # <<>>
    BY <1>1, FilesWellFormed DEF WellFormed
  <2> QED BY <1>1, <2>1, EmptySeq DEF Read
<1>3. machines' \in Seq(Machines)
  BY <1>1, AppendProperties DEF EndOfFile
<1>4. ReadInv'
  BY <1>1, <1>2, <1>3 DEF ReadInv, Read
<1>5. ASSUME WorkerLast PROVE TableMatchesFile'
  <2>1. PICK c \in IdLines(described) :
          /\ Open(described, c, n) /\ Tells(described, c, n, machine)
          /\ Saved(described, c, machines)
          /\ Len(machines) + 1 = Cardinality(Counted(described, n))
    BY <1>1, <1>2 DEF BlocksInv
  <2>2. \A j \in IdLines(described) : j \in Nat /\ j <= n
    BY <1>1, <1>2, LineOfFile DEF IdLines
  <2>3. \A j \in IdLines(described) : j <= c
    BY <2>1, <2>2 DEF Open
  <2>4. machine.machine_id # 0
    <3>1. machine.machine_id = described[c].val
      BY <1>1, <1>2, <2>1, MachineHasId
    <3> QED BY <1>1, <1>5, <2>3, <3>1 DEF WorkerLast
  <2>5. machines' = Append(machines, machine)
    BY <2>4 DEF EndOfFile
  <2>6. machine = MachineAt(described, c)
    BY <1>1, <1>2, <2>1, BlockEnds DEF LastOfBlock
  <2>7. {machines'[k] : k \in DOMAIN machines'}
          = {MachineAt(described, i) : i \in {j \in IdLines(described) : j < c} \union {c}}
    BY <1>1, <2>1, <2>5, <2>6, MachineSaved
  <2>8. {j \in IdLines(described) : j < c} \union {c} = IdLines(described)
    BY <2>2, <2>3
  <2>9. Len(machines') = Len(machines) + 1
    BY <1>1, <2>5, AppendProperties
  <2>10. Counted(described, n) = IdLines(described)
    BY <2>2 DEF Counted
  <2> QED BY <1>1, <2>1, <2>7, <2>8, <2>9, <2>10, Zenon DEF TableMatchesFile
<1> QED BY <1>4, <1>5

\* Reading keeps its invariant, serving the table leaves it alone.
LEMMA ReadStep ==
  ASSUME ReadInv, [Next]_vars
  PROVE  ReadInv' /\ (WorkerLast /\ TableMatchesFile => TableMatchesFile')
<1>1. CASE ReadLine
  <2>1. ReadInv'
    <3>1. Read \in Nat
      BY <1>1, LineRead
    <3> QED BY <1>1, <3>1, FirstLineRead, NextBlockRead, NextFieldRead
  <2>2. TableMatchesFile'
    BY <1>1 DEF ReadLine, TableMatchesFile
  <2> QED BY <2>1, <2>2
<1>2. CASE EndOfFile
  BY <1>2, FileRead
<1>3. CASE UNCHANGED host_vars /\ (phase' # "reading" <=> phase # "reading")
  BY <1>3 DEF host_vars, ReadInv, BlocksInv, Read, TableMatchesFile
<1>4. CASE BeginStream \/ WriteMachine \/ ReceiveStream \/ ReadMachine \/ TableComplete \/ Served
           \/ UNCHANGED vars
  BY <1>3, <1>4 DEF BeginStream, WriteMachine, ReceiveStream, ReadMachine, TableComplete, Served, vars,
                    host_vars
<1> QED BY <1>1, <1>2, <1>4 DEF Next

LEMMA ReadStart == Init => ReadInv /\ TableMatchesFile
<1> SUFFICES ASSUME Init PROVE ReadInv /\ TableMatchesFile
  OBVIOUS
<1>1. described \in Files /\ file = described /\ file \in Seq(Lines) /\ Len(file) \in Nat
  BY FilesWellFormed, LenProperties DEF Init, WellFormed
<1>2. Read = 0
  BY <1>1 DEF Read
<1> QED BY <1>1, <1>2, MachineTyped, EmptySeq DEF Init, ReadInv, BlocksInv, TableMatchesFile

\* Of every file that ends with a worker, whatever the order of its blocks and
\* of the fields in them, the table holds exactly the machines.
THEOREM TableRead ==
  ASSUME WorkerLast
  PROVE  Spec => []TableMatchesFile
<1>1. Init => ReadInv /\ (WorkerLast => TableMatchesFile)
  BY ReadStart
<1>2. ReadInv /\ (WorkerLast => TableMatchesFile) /\ [Next]_vars =>
        (ReadInv /\ (WorkerLast => TableMatchesFile))'
  BY ReadStep DEF WorkerLast
<1> QED BY <1>1, <1>2, PTL DEF Spec

-------------------------------------------------------------------------------
(* A machine and its cells.                                                *)

Values == Int \union Addresses

Size(m) == Len(SerializeMachine(m))

\* w is s and then t.
Joins(w, s, t) ==
  /\ Len(s) \in Nat /\ Len(t) \in Nat /\ Len(w) = Len(s) + Len(t)
  /\ \A i \in 1..Len(s) : w[i] = s[i]
  /\ \A i \in 1..Len(t) : w[Len(s) + i] = t[i]

LEMMA Joined ==
  ASSUME NEW S, NEW s \in Seq(S), NEW t \in Seq(S)
  PROVE  s \o t \in Seq(S) /\ Joins(s \o t, s, t)
<1> DEFINE a == Len(s)
           b == Len(t)
<1>1. a \in Nat /\ b \in Nat
  BY LenProperties
<1>2. /\ s \o t \in Seq(S) /\ Len(s \o t) = a + b
      /\ \A i \in 1..(a + b) : (s \o t)[i] = IF i <= a THEN s[i] ELSE t[i - a]
  BY ConcatProperties
<1>3. ASSUME NEW i \in 1..a PROVE (s \o t)[i] = s[i]
  BY <1>1, <1>2
<1>4. ASSUME NEW i \in 1..b PROVE (s \o t)[a + i] = t[i]
  <2>1. a + i \in 1..(a + b) /\ ~(a + i <= a) /\ a + i - a = i
    BY <1>1
  <2> QED BY <1>2, <2>1
<1> QED BY <1>1, <1>2, <1>3, <1>4 DEF Joins

\* A vector is preceded by its length.
LEMMA VectorCells ==
  ASSUME NEW S, Nat \subseteq S, NEW vec \in Seq(S)
  PROVE  /\ SerializeVector(vec) \in Seq(S) /\ Len(vec) \in Nat
         /\ Len(SerializeVector(vec)) = 1 + Len(vec) /\ SerializeVector(vec)[1] = Len(vec)
         /\ \A i \in 1..Len(vec) : SerializeVector(vec)[1 + i] = vec[i]
<1>1. Len(vec) \in S
  BY LenProperties
<1>2. <<Len(vec)>> \in Seq(S) /\ Len(<<Len(vec)>>) = 1 /\ <<Len(vec)>>[1] = Len(vec)
  BY <1>1
<1>3. SerializeVector(vec) \in Seq(S) /\ Joins(SerializeVector(vec), <<Len(vec)>>, vec)
  BY <1>2, Joined, Zenon DEF SerializeVector
<1>4. Len(vec) \in Nat
  BY LenProperties
<1> QED BY <1>2, <1>3, <1>4 DEF Joins

\* data holds a machine of ins inputs and outs outputs, cell by cell.
Spells(data, m, ins, outs) ==
  /\ data \in Seq(Values) /\ ins \in Nat /\ outs \in Nat /\ Len(data) = 6 + ins + outs
  /\ data[1] = m.machine_id /\ data[2] = m.start_layer /\ data[3] = m.end_layer
  /\ data[4] = m.ip_address /\ data[5] = ins /\ data[6 + ins] = outs
  /\ \A i \in 1..ins : data[5 + i] = m.in_nodes[i]
  /\ \A i \in 1..outs : data[6 + ins + i] = m.out_nodes[i]

LEMMA MachineCells ==
  ASSUME NEW m \in Machines
  PROVE  Spells(SerializeMachine(m), m, Len(m.in_nodes), Len(m.out_nodes))
<1> DEFINE data  == SerializeMachine(m)
           ins   == Len(m.in_nodes)
           outs  == Len(m.out_nodes)
           front == <<m.machine_id, m.start_layer, m.end_layer, m.ip_address>>
           first == SerializeVector(m.in_nodes)
           left  == front \o first
           right == SerializeVector(m.out_nodes)
<1>1. m.in_nodes \in Seq(Nat) /\ m.out_nodes \in Seq(Nat) /\ Nat \subseteq Values
  BY DEF Machines, Values
<1>2. m.in_nodes \in Seq(Values) /\ m.out_nodes \in Seq(Values)
  BY <1>1, SeqMonotonic
<1>3. /\ front \in Seq(Values) /\ Len(front) = 4 /\ front[1] = m.machine_id
      /\ front[2] = m.start_layer /\ front[3] = m.end_layer /\ front[4] = m.ip_address
  BY DEF Machines, Values
<1>4. /\ first \in Seq(Values) /\ ins \in Nat /\ Len(first) = 1 + ins /\ first[1] = ins
      /\ \A i \in 1..ins : first[1 + i] = m.in_nodes[i]
  BY <1>1, <1>2, VectorCells
<1>5. /\ right \in Seq(Values) /\ outs \in Nat /\ Len(right) = 1 + outs /\ right[1] = outs
      /\ \A i \in 1..outs : right[1 + i] = m.out_nodes[i]
  BY <1>1, <1>2, VectorCells
<1>6. data = left \o right /\ left = front \o first
  BY DEF SerializeMachine
<1> HIDE DEF front, first, left, right, ins, outs, data
<1>7. /\ left \in Seq(Values) /\ Len(left) = 5 + ins /\ \A i \in 1..4 : left[i] = front[i]
      /\ \A i \in 1..(1 + ins) : left[4 + i] = first[i]
  <2>1. left \in Seq(Values) /\ Joins(left, front, first)
    BY <1>3, <1>4, <1>6, Joined, Zenon
  <2>2. 4 + (1 + ins) = 5 + ins
    BY <1>4
  <2> QED BY <1>3, <1>4, <2>1, <2>2 DEF Joins
<1>8. /\ data \in Seq(Values) /\ Len(data) = 6 + ins + outs
      /\ \A i \in 1..(5 + ins) : data[i] = left[i]
      /\ \A i \in 1..(1 + outs) : data[5 + ins + i] = right[i]
  <2>1. data \in Seq(Values) /\ Joins(data, left, right)
    BY <1>5, <1>6, <1>7, Joined, Zenon
  <2>2. 5 + ins + (1 + outs) = 6 + ins + outs
    BY <1>4, <1>5
  <2> QED BY <1>5, <1>7, <2>1, <2>2 DEF Joins
<1>9. data[6 + ins] = outs
  <2>1. 1 \in 1..(1 + outs) /\ 5 + ins + 1 = 6 + ins
    BY <1>4, <1>5
  <2> QED BY <1>5, <1>8, <2>1
<1>10. \A i \in 1..outs : data[6 + ins + i] = m.out_nodes[i]
  <2> SUFFICES ASSUME NEW i \in 1..outs PROVE data[6 + ins + i] = m.out_nodes[i]
    OBVIOUS
  <2>1. 1 + i \in 1..(1 + outs) /\ 5 + ins + (1 + i) = 6 + ins + i
    BY <1>4, <1>5
  <2> QED BY <1>5, <1>8, <2>1
<1>11. \A i \in 1..ins : data[5 + i] = m.in_nodes[i]
  <2> SUFFICES ASSUME NEW i \in 1..ins PROVE data[5 + i] = m.in_nodes[i]
    OBVIOUS
  <2>1. 5 + i \in 1..(5 + ins) /\ 1 + i \in 1..(1 + ins) /\ 4 + (1 + i) = 5 + i
    BY <1>4
  <2> QED BY <1>4, <1>7, <1>8, <2>1
<1>12. data[5] = ins
  <2>1. 5 \in 1..(5 + ins) /\ 1 \in 1..(1 + ins) /\ 4 + 1 = 5
    BY <1>4
  <2> QED BY <1>4, <1>7, <1>8, <2>1
<1>13. \A i \in 1..4 : data[i] = front[i]
  <2>1. \A i \in 1..4 : i \in 1..(5 + ins)
    BY <1>4
  <2> QED BY <1>7, <1>8, <2>1
<1>14. Spells(data, m, ins, outs)
  BY <1>3, <1>4, <1>5, <1>8, <1>9, <1>10, <1>11, <1>12, <1>13 DEF Spells
<1> QED BY <1>14 DEF data, ins, outs

\* Cells copies a run of cells.
LEMMA CellsCopy ==
  ASSUME NEW S, NEW vec \in Seq(S), NEW s, NEW from \in Nat,
         \A i \in 1..Len(vec) : s[from - 1 + i] = vec[i]
  PROVE  Cells(s, from, Len(vec)) = vec
<1> DEFINE n == Len(vec)
<1>0. n \in Nat
  BY LenProperties
<1>1. \A k \in from..(from + n - 1) : s[k] \in S
  <2> SUFFICES ASSUME NEW k \in from..(from + n - 1) PROVE s[k] \in S
    OBVIOUS
  <2>1. k - from + 1 \in 1..n /\ from - 1 + (k - from + 1) = k
    BY <1>0
  <2> QED BY <2>1, ElementOfSeq
<1>2. /\ Cells(s, from, n) \in Seq(S)
      /\ Len(Cells(s, from, n)) = IF from <= from + n - 1 THEN from + n - 1 - from + 1 ELSE 0
      /\ \A i \in 1..(from + n - 1 - from + 1) : Cells(s, from, n)[i] = s[from + i - 1]
  BY <1>0, <1>1, SubSeqProperties DEF Cells
<1>3. Len(Cells(s, from, n)) = n
  BY <1>0, <1>2
<1>4. \A i \in 1..n : Cells(s, from, n)[i] = vec[i]
  <2> SUFFICES ASSUME NEW i \in 1..n PROVE Cells(s, from, n)[i] = vec[i]
    OBVIOUS
  <2>1. i \in 1..(from + n - 1 - from + 1) /\ from + i - 1 = from - 1 + i
    BY <1>0
  <2> QED BY <1>2, <2>1
<1> QED BY <1>2, <1>3, <1>4, SeqEqual

\* A machine is what its cells are read as.
LEMMA RoundTrip ==
  ASSUME NEW m \in Machines
  PROVE  DeserializeMachine(SerializeMachine(m)) = m
<1> DEFINE data == SerializeMachine(m)
           ins  == Len(m.in_nodes)
           outs == Len(m.out_nodes)
<1>1. Spells(data, m, ins, outs)
  BY MachineCells
<1> HIDE DEF data, ins, outs
<1>2. m.in_nodes \in Seq(Nat) /\ m.out_nodes \in Seq(Nat)
  BY DEF Machines
<1>0. ins = Len(m.in_nodes) /\ outs = Len(m.out_nodes) /\ ins \in Nat /\ outs \in Nat
  BY <1>1 DEF Spells, ins, outs
<1>3. Cells(data, 6, ins) = m.in_nodes
  <2>1. 6 \in Nat /\ \A i \in 1..ins : data[6 - 1 + i] = m.in_nodes[i]
    BY <1>1 DEF Spells
  <2>2. Cells(data, 6, Len(m.in_nodes)) = m.in_nodes
    BY <1>0, <1>2, <2>1, CellsCopy
  <2> QED BY <1>0, <2>2, Zenon
<1>4. Cells(data, 7 + ins, outs) = m.out_nodes
  <2> DEFINE from == 7 + ins
  <2>1. from \in Nat /\ from - 1 = 6 + ins
    BY <1>0
  <2> HIDE DEF from
  <2>2. \A i \in 1..Len(m.out_nodes) : data[from - 1 + i] = m.out_nodes[i]
    BY <1>0, <1>1, <2>1 DEF Spells
  <2>3. Cells(data, from, Len(m.out_nodes)) = m.out_nodes
    BY <1>2, <2>1, <2>2, CellsCopy
  <2> QED BY <1>0, <2>3, Zenon DEF from
<1>5. DeserializeMachine(data)
        = [machine_id |-> m.machine_id, start_layer |-> m.start_layer, end_layer |-> m.end_layer,
           ip_address |-> m.ip_address, in_nodes |-> m.in_nodes, out_nodes |-> m.out_nodes]
  BY <1>1, <1>3, <1>4, Zenon DEF DeserializeMachine, Spells
<1>6. @ = m
  BY DEF Machines
<1> QED BY <1>5, <1>6 DEF data

-------------------------------------------------------------------------------
(* The stream.                                                             *)

\* The stream has m, preceded by its size, from cell b on.
Placed(s, b, m) ==
  /\ b \in Nat \ {0} /\ b + Size(m) <= Len(s) /\ s[b] = Size(m)
  /\ \A i \in 1..Size(m) : s[b + i] = SerializeMachine(m)[i]

\* Where the k-th machine begins, or the next one would.
BeginIn(s, bs, k) == IF k <= Len(bs) THEN bs[k] ELSE Len(s) + 1

\* As many machines of ms as bs has beginnings are in the stream, one after the other.
WrittenAs(s, ms, bs) ==
  /\ s \in Seq(Values) /\ s # <<>> /\ s[1] = Len(ms)
  /\ bs \in Seq(Nat) /\ Len(bs) <= Len(ms)
  /\ BeginIn(s, bs, 1) = 2
  /\ \A k \in 1..Len(bs) : /\ Placed(s, bs[k], ms[k])
                           /\ BeginIn(s, bs, k + 1) = bs[k] + 1 + Size(ms[k])

LEMMA SizeOf == ASSUME NEW m \in Machines PROVE SerializeMachine(m) \in Seq(Values) /\ Size(m) \in Nat
BY MachineCells, LenProperties DEF Spells, Size

\* Machines that are in the stream stay there when more follows.
LEMMA StaysPlaced ==
  ASSUME NEW s, NEW t, NEW w, Joins(w, s, t), NEW b, NEW m \in Machines, Placed(s, b, m)
  PROVE  Placed(w, b, m)
<1>1. Size(m) \in Nat /\ b \in Nat \ {0} /\ b + Size(m) <= Len(s)
  BY SizeOf DEF Placed
<1>2. Len(w) = Len(s) + Len(t) /\ Len(s) \in Nat /\ Len(t) \in Nat
  BY DEF Joins
<1>3. b \in 1..Len(s) /\ b + Size(m) <= Len(w)
  BY <1>1, <1>2
<1>4. ASSUME NEW i \in 1..Size(m) PROVE w[b + i] = SerializeMachine(m)[i]
  <2>1. b + i \in 1..Len(s)
    BY <1>1, <1>2
  <2> QED BY <2>1 DEF Joins, Placed
<1>5. w[b] = Size(m)
  BY <1>3 DEF Joins, Placed
<1> QED BY <1>1, <1>3, <1>4, <1>5 DEF Placed

\* One more machine is written.
LEMMA MachineWritten ==
  ASSUME NEW s, NEW ms \in Seq(Machines), NEW bs, WrittenAs(s, ms, bs), Len(bs) < Len(ms)
  PROVE  WrittenAs(s \o SerializeVector(SerializeMachine(ms[Len(bs) + 1])), ms,
                   Append(bs, Len(s) + 1))
<1> DEFINE n    == Len(bs)
           m    == ms[n + 1]
           data == SerializeMachine(m)
           t    == SerializeVector(data)
           w    == s \o t
           cs   == Append(bs, Len(s) + 1)
<1>1. /\ s \in Seq(Values) /\ s # <<>> /\ s[1] = Len(ms) /\ bs \in Seq(Nat) /\ n \in Nat
      /\ Len(ms) \in Nat /\ Len(s) \in Nat \ {0}
  BY LenProperties, EmptySeq DEF WrittenAs
<1>2. m \in Machines
  BY <1>1, ElementOfSeq
<1>3. data \in Seq(Values) /\ Size(m) \in Nat /\ Len(data) = Size(m)
  BY <1>2, SizeOf DEF Size
<1>4. /\ t \in Seq(Values) /\ Len(t) = 1 + Size(m) /\ t[1] = Size(m)
      /\ \A i \in 1..Size(m) : t[1 + i] = data[i]
  <2>1. Nat \subseteq Values
    BY DEF Values
  <2> QED BY <1>3, <2>1, VectorCells
<1>5. w \in Seq(Values) /\ Joins(w, s, t)
  BY <1>1, <1>4, Joined, Zenon
<1>6. /\ cs \in Seq(Nat) /\ Len(cs) = n + 1 /\ cs[n + 1] = Len(s) + 1
      /\ \A k \in 1..n : cs[k] = bs[k]
  BY <1>1, AppendProperties
<1> HIDE DEF data, t, w, cs, m
<1>7. /\ Len(w) = Len(s) + 1 + Size(m) /\ \A i \in 1..Len(s) : w[i] = s[i]
      /\ \A i \in 1..(1 + Size(m)) : w[Len(s) + i] = t[i]
  <2>1. Len(w) = Len(s) + Len(t)
    BY <1>5 DEF Joins
  <2> QED BY <1>1, <1>3, <1>4, <1>5, <2>1 DEF Joins
<1>8. Placed(w, Len(s) + 1, m)
  <2>1. Len(s) + 1 \in Nat \ {0} /\ Len(s) + 1 + Size(m) <= Len(w)
    BY <1>1, <1>3, <1>7
  <2>2. w[Len(s) + 1] = Size(m)
    BY <1>3, <1>4, <1>7
  <2>3. ASSUME NEW i \in 1..Size(m) PROVE w[Len(s) + 1 + i] = SerializeMachine(m)[i]
    <3>1. 1 + i \in 1..(1 + Size(m)) /\ Len(s) + 1 + i = Len(s) + (1 + i)
      BY <1>1, <1>3
    <3> QED BY <1>4, <1>7, <3>1 DEF data
  <2> QED BY <2>1, <2>2, <2>3 DEF Placed
<1>9. ASSUME NEW k \in 1..n PROVE Placed(w, cs[k], ms[k])
  <2>1. ms[k] \in Machines /\ Placed(s, bs[k], ms[k]) /\ cs[k] = bs[k]
    BY <1>1, <1>6, ElementOfSeq DEF WrittenAs
  <2> QED BY <1>5, <2>1, StaysPlaced
<1>10. BeginIn(w, cs, 1) = 2
  <2>1. CASE n = 0
    BY <1>6, <2>1 DEF BeginIn, WrittenAs
  <2>2. CASE n > 0
    BY <1>1, <1>6, <2>2 DEF BeginIn, WrittenAs
  <2> QED BY <1>1, <2>1, <2>2
<1>11. BeginIn(w, cs, n + 2) = cs[n + 1] + 1 + Size(m)
  <2>1. ~(n + 2 <= n + 1) /\ Len(s) + 1 + Size(m) + 1 = Len(s) + 1 + 1 + Size(m)
    BY <1>1, <1>3
  <2> QED BY <1>6, <1>7, <2>1 DEF BeginIn
<1>12. ASSUME NEW k \in 1..n PROVE BeginIn(w, cs, k + 1) = cs[k] + 1 + Size(ms[k])
  <2>1. BeginIn(s, bs, k + 1) = bs[k] + 1 + Size(ms[k]) /\ cs[k] = bs[k]
    BY <1>6 DEF WrittenAs
  <2>2. BeginIn(w, cs, k + 1) = BeginIn(s, bs, k + 1)
    <3>1. CASE k < n
      <4>1. k + 1 \in 1..n /\ k + 1 <= n /\ k + 1 <= n + 1
        BY <1>1, <3>1
      <4> QED BY <1>6, <4>1 DEF BeginIn
    <3>2. CASE k = n
      <4>1. ~(n + 1 <= n) /\ n + 1 <= n + 1
        BY <1>1
      <4> QED BY <1>6, <3>2, <4>1 DEF BeginIn
    <3> QED BY <1>1, <3>1, <3>2
  <2> QED BY <2>1, <2>2
<1>13. \A k \in 1..Len(cs) : /\ Placed(w, cs[k], ms[k])
                            /\ BeginIn(w, cs, k + 1) = cs[k] + 1 + Size(ms[k])
  <2> SUFFICES ASSUME NEW k \in 1..(n + 1)
               PROVE  Placed(w, cs[k], ms[k]) /\ BeginIn(w, cs, k + 1) = cs[k] + 1 + Size(ms[k])
    BY <1>6
  <2>1. CASE k = n + 1
    <3>1. k + 1 = n + 2
      BY <1>1, <2>1
    <3> QED BY <1>6, <1>8, <1>11, <2>1, <3>1 DEF m
  <2>2. CASE k # n + 1
    <3>1. k \in 1..n
      BY <1>1, <2>2
    <3> QED BY <1>9, <1>12, <3>1
  <2> QED BY <2>1, <2>2
<1>14. w # <<>> /\ w[1] = Len(ms)
  BY <1>1, <1>3, <1>7
<1>15. Len(cs) <= Len(ms)
  BY <1>1, <1>6
<1>16. WrittenAs(w, ms, cs)
  BY <1>5, <1>6, <1>10, <1>13, <1>14, <1>15, Zenon DEF WrittenAs
<1> QED BY <1>16 DEF w, t, data, m, cs

\* Where a machine begins, its cells are read as that machine, and the next
\* one begins behind them.
LEMMA MachineReadBack ==
  ASSUME NEW s, NEW ms \in Seq(Machines), NEW bs, WrittenAs(s, ms, bs), NEW k \in 1..Len(bs),
         NEW b, b = BeginIn(s, bs, k)
  PROVE  /\ DeserializeMachine(Cells(s, b + 1, s[b])) = ms[k]
         /\ b + 1 + s[b] = BeginIn(s, bs, k + 1)
<1> DEFINE m == ms[k]
<1>1. Len(bs) \in Nat /\ Len(ms) \in Nat /\ Len(bs) <= Len(ms)
  BY LenProperties DEF WrittenAs
<1>2. m \in Machines
  BY <1>1, ElementOfSeq
<1> HIDE DEF m
<1>3. b = bs[k]
  BY <1>1 DEF BeginIn
<1>4. Placed(s, b, m) /\ BeginIn(s, bs, k + 1) = b + 1 + Size(m)
  BY <1>3 DEF WrittenAs, m
<1>5. b \in Nat \ {0} /\ s[b] = Size(m) /\ \A i \in 1..Size(m) : s[b + i] = SerializeMachine(m)[i]
  BY <1>4 DEF Placed
<1>6. Cells(s, b + 1, Size(m)) = SerializeMachine(m)
  <2> DEFINE from == b + 1
  <2>1. from \in Nat /\ from - 1 = b
    BY <1>5
  <2> HIDE DEF from
  <2>2. \A i \in 1..Len(SerializeMachine(m)) : s[from - 1 + i] = SerializeMachine(m)[i]
    BY <1>5, <2>1 DEF Size
  <2>3. SerializeMachine(m) \in Seq(Values)
    BY <1>2, SizeOf
  <2>4. Cells(s, from, Len(SerializeMachine(m))) = SerializeMachine(m)
    BY <2>1, <2>2, <2>3, CellsCopy
  <2> QED BY <2>4, Zenon DEF from, Size
<1>7. DeserializeMachine(SerializeMachine(m)) = m
  BY <1>2, RoundTrip
<1> QED BY <1>4, <1>5, <1>6, <1>7 DEF m

-------------------------------------------------------------------------------
(* What a worker has of the stream.                                        *)

StreamInv ==
  /\ written = Len(begins)
  /\ stream = <<>> => written = 0 /\ begins = <<>>
  /\ stream # <<>> => WrittenAs(stream, machines, begins)
  /\ phase = "reading" => stream = <<>>
  /\ phase \in {"reading", "writing"} => table = <<>>
  /\ phase \in {"receiving", "received"} => stream # <<>> /\ written = Len(machines)
  /\ phase = "receiving" => at = BeginIn(stream, begins, Len(table) + 1)
  /\ table \in Seq(Machines) /\ Len(table) <= Len(machines)
  /\ \A i \in 1..Len(table) : table[i] = machines[i]
  /\ phase = "received" => Len(table) = Len(machines)

LEMMA StreamStart == Init => StreamInv
BY EmptySeq DEF Init, StreamInv

LEMMA StreamStep ==
  ASSUME ReadInv, StreamInv, [Next]_vars
  PROVE  StreamInv'
<1>1. machines \in Seq(Machines) /\ Len(machines) \in Nat /\ table \in Seq(Machines) /\ Len(table) \in Nat
  BY LenProperties DEF ReadInv, StreamInv
<1>2. CASE ReadLine \/ EndOfFile
  <2>1. /\ phase = "reading" /\ stream = <<>> /\ table = <<>> /\ written = 0 /\ begins = <<>>
        /\ stream' = stream /\ table' = table /\ written' = written /\ begins' = begins
        /\ phase' \in {"reading", "writing"}
    BY <1>2 DEF ReadLine, EndOfFile, StreamInv, stream_vars
  <2>2. machines' \in Seq(Machines)
    BY <1>1, <1>2, AppendProperties DEF ReadLine, EndOfFile, ReadInv
  <2>3. Len(machines') \in Nat
    BY <2>2, LenProperties
  <2> QED BY <2>1, <2>3, EmptySeq DEF StreamInv
<1>3. CASE BeginStream
  <2>1. /\ stream' = <<Len(machines)>> /\ machines' = machines /\ written' = written /\ begins' = begins
        /\ phase = "writing" /\ phase' = phase /\ table' = table /\ written = 0 /\ begins = <<>>
    BY <1>3 DEF BeginStream, StreamInv, host_vars
  <2>2. WrittenAs(<<Len(machines)>>, machines, <<>>)
    <3>1. /\ <<Len(machines)>> \in Seq(Values) /\ Len(<<Len(machines)>>) = 1
          /\ <<Len(machines)>>[1] = Len(machines)
      BY <1>1 DEF Values
    <3>2. BeginIn(<<Len(machines)>>, <<>>, 1) = 2
      BY <3>1 DEF BeginIn
    <3> QED BY <1>1, <3>1, <3>2, EmptySeq DEF WrittenAs
  <2>3. stream' # <<>>
    BY <2>1
  <2> QED BY <1>1, <2>1, <2>2, <2>3 DEF StreamInv
<1>4. CASE WriteMachine
  <2>1. /\ phase = "writing" /\ stream # <<>> /\ written < Len(machines)
        /\ stream' = stream \o SerializeVector(SerializeMachine(machines[written + 1]))
        /\ written' = written + 1 /\ begins' = Append(begins, Len(stream) + 1)
        /\ machines' = machines /\ phase' = phase /\ table' = table
    BY <1>4 DEF WriteMachine, host_vars
  <2>2. WrittenAs(stream, machines, begins) /\ written = Len(begins)
    BY <2>1 DEF StreamInv
  <2>3. WrittenAs(stream', machines, begins')
    BY <1>1, <2>1, <2>2, MachineWritten
  <2>4. stream' # <<>>
    BY <2>3 DEF WrittenAs
  <2>5. written' = Len(begins')
    <3>1. begins \in Seq(Nat) /\ stream \in Seq(Values)
      BY <2>2 DEF WrittenAs
    <3> QED BY <2>1, <2>2, <3>1, AppendProperties, LenProperties
  <2> QED BY <1>1, <2>1, <2>3, <2>4, <2>5 DEF StreamInv
<1>5. CASE ReceiveStream
  <2>1. /\ phase = "writing" /\ phase' = "receiving" /\ at' = 2 /\ stream # <<>> /\ written = Len(machines)
        /\ stream' = stream /\ machines' = machines /\ written' = written /\ begins' = begins
        /\ table' = table /\ table = <<>>
    BY <1>5 DEF ReceiveStream, StreamInv, host_vars, stream_vars
  <2>2. BeginIn(stream, begins, 1) = 2
    BY <2>1 DEF StreamInv, WrittenAs
  <2>3. Len(table) + 1 = 1
    BY <2>1
  <2> QED BY <1>1, <2>1, <2>2, <2>3 DEF StreamInv
<1>6. CASE ReadMachine
  <2> DEFINE n == Len(table)
  <2>1. /\ phase = "receiving" /\ phase' = phase /\ n < stream[1]
        /\ table' = Append(table, DeserializeMachine(Cells(stream, at + 1, stream[at])))
        /\ at' = at + 1 + stream[at]
        /\ stream' = stream /\ machines' = machines /\ written' = written /\ begins' = begins
    BY <1>6 DEF ReadMachine, host_vars, stream_vars
  <2>2. /\ WrittenAs(stream, machines, begins) /\ stream # <<>> /\ written = Len(machines)
        /\ Len(begins) = Len(machines) /\ at = BeginIn(stream, begins, n + 1)
    BY <2>1 DEF StreamInv
  <2>3. n + 1 \in 1..Len(machines)
    BY <1>1, <2>1, <2>2 DEF WrittenAs
  <2>4. /\ DeserializeMachine(Cells(stream, at + 1, stream[at])) = machines[n + 1]
        /\ at + 1 + stream[at] = BeginIn(stream, begins, n + 1 + 1)
    BY <1>1, <2>2, <2>3, MachineReadBack
  <2>5. machines[n + 1] \in Machines
    BY <1>1, <2>3, ElementOfSeq
  <2>6. /\ table' \in Seq(Machines) /\ Len(table') = n + 1 /\ table'[n + 1] = machines[n + 1]
        /\ \A i \in 1..n : table'[i] = table[i]
    BY <1>1, <2>1, <2>4, <2>5, AppendProperties
  <2>7. \A i \in 1..Len(table') : table'[i] = machines'[i]
    <3> SUFFICES ASSUME NEW i \in 1..(n + 1) PROVE table'[i] = machines[i]
      BY <2>1, <2>6
    <3>1. CASE i = n + 1
      BY <2>6, <3>1
    <3>2. CASE i # n + 1
      <4>1. i \in 1..n
        BY <1>1, <3>2
      <4> QED BY <2>6, <4>1 DEF StreamInv
    <3> QED BY <3>1, <3>2
  <2>8. Len(table') <= Len(machines')
    BY <1>1, <2>1, <2>3, <2>6
  <2>9. at' = BeginIn(stream', begins', Len(table') + 1)
    BY <2>1, <2>4, <2>6
  <2>10. written' = Len(begins') /\ WrittenAs(stream', machines', begins') /\ stream' # <<>>
         /\ written' = Len(machines') /\ phase' = "receiving"
    BY <2>1, <2>2 DEF StreamInv
  <2> QED BY <2>6, <2>7, <2>8, <2>9, <2>10 DEF StreamInv
<1>7. CASE TableComplete
  <2>1. /\ phase = "receiving" /\ phase' = "received" /\ Len(table) = stream[1]
        /\ stream' = stream /\ machines' = machines /\ written' = written /\ begins' = begins
        /\ table' = table
    BY <1>7 DEF TableComplete, host_vars, stream_vars
  <2>2. Len(table) = Len(machines)
    BY <2>1 DEF StreamInv, WrittenAs
  <2> QED BY <2>1, <2>2 DEF StreamInv
<1>8. CASE Served \/ UNCHANGED vars
  BY <1>8 DEF Served, vars, host_vars, stream_vars, StreamInv
<1> QED BY <1>2, <1>3, <1>4, <1>5, <1>6, <1>7, <1>8 DEF Next

\* Whatever table the host read, each worker ends with the same: of any number
\* of machines, each with any number of inputs and outputs.
THEOREM TableReceived == Spec => []TableTransmitted
<1>1. Init => ReadInv /\ StreamInv /\ TableMatchesFile
  BY ReadStart, StreamStart
<1>2. ReadInv /\ StreamInv /\ [Next]_vars => (ReadInv /\ StreamInv)'
  BY ReadStep, StreamStep DEF WorkerLast
<1>3. ReadInv /\ StreamInv => TableTransmitted
  BY SeqEqual DEF ReadInv, StreamInv, TableTransmitted
<1> QED BY <1>1, <1>2, <1>3, PTL DEF Spec
===============================================================================
