----------------------------- MODULE DaemonStart -----------------------------
(***************************************************************************)
(* How a daemon starts, what it keeps on the disk, and what a restarted    *)
(* one finds there (main of dht_daemon.c): the id file, and the file of    *)
(* known nodes, read at the start, truncated when it is opened to be       *)
(* written, and appended to at each dump.  A daemon may be killed at any   *)
(* step, and a second one may be started in the same directory.            *)
(***************************************************************************)
EXTENDS Naturals, Sequences, FiniteSets, SequencesExt

CONSTANTS
    Daemon,              \* processes
    Id,                  \* ids /dev/urandom may give
    Node,                \* nodes of the network
    None,                \* no file
    Partial,             \* an id file of fewer than 20 bytes
    Gap,                 \* a line of NUL bytes
    MAX_BOOTSTRAP_NODES, \* (20)
    DumpDelays,          \* random() % 1000000
    ByHand,              \* the nodes file its owner wrote
    MAX_LINES,           \* bounds of the model: lines of a nodes file,
    MAX_STARTS           \* and daemons started

ASSUME DaemonAssumption ==
    /\ {None, Partial} \cap Id = {} /\ None # Partial
    /\ Gap \notin Node
    /\ ByHand \in Seq(Node)
    /\ DumpDelays \subseteq Nat
    /\ MAX_BOOTSTRAP_NODES \in Nat /\ MAX_LINES \in Nat /\ MAX_STARTS \in Nat

VARIABLES
    idFile,     \* .dht_id
    ofd,        \* the daemons whose open ofd is the file of that name
    nodesFile,  \* .nodes, a sequence of lines
    pc,         \* where main is
    myid,
    bootstrap,  \* bootstrap_nodes
    table,      \* the nodes of the routing table
    written,    \* lines written so far, the offset of nodes_file
    dumpIn,     \* time_dump
    owner,      \* the daemon that opened nodesFile last
    starts

disk == <<idFile, ofd, nodesFile>>
startVars == <<idFile, ofd, nodesFile, pc, myid, bootstrap, table, written, dumpIn, owner, starts>>

\* The lines fgets and strstr accept: up to the first with a NUL.
Lines(file) ==
    LET gaps == {i \in DOMAIN file : file[i] = Gap}
    IN  {file[i] : i \in {j \in DOMAIN file : \A g \in gaps : j < g}}
Readable(file) ==
    Lines(SubSeq(file, 1, IF Len(file) < MAX_BOOTSTRAP_NODES THEN Len(file)
                          ELSE MAX_BOOTSTRAP_NODES))

At(d, from, to) ==
    /\ pc[d] = from
    /\ pc' = [pc EXCEPT ![d] = to]

\* Mutant: whatever read finds in an id file is taken for the id.
ReadsShortId(d) ==
    \/ /\ idFile # None
       /\ At(d, "off", "read")
       /\ myid' = [myid EXCEPT ![d] = idFile]
    \/ /\ idFile = None
       /\ At(d, "off", "write")
       /\ myid' \in {[myid EXCEPT ![d] = i] : i \in Id}

\* Mutant: the id file is not looked at.
ReadsNoId(d) ==
    /\ At(d, "off", "write")
    /\ myid' \in {[myid EXCEPT ![d] = i] : i \in Id}

\* An id file of 20 bytes gives the id, else /dev/urandom does.
ReadsId(d) ==
    \/ /\ idFile \in Id
       /\ At(d, "off", "read")
       /\ myid' = [myid EXCEPT ![d] = idFile]
    \/ /\ idFile \notin Id
       /\ At(d, "off", "write")
       /\ myid' \in {[myid EXCEPT ![d] = i] : i \in Id}

Start(d) ==
    /\ starts < MAX_STARTS
    /\ ReadsId(d)
    /\ starts' = starts + 1
    /\ UNCHANGED <<disk, bootstrap, table, written, dumpIn, owner>>

\* open with O_TRUNC, or its failure, which is not fatal.
OpenIdFile(d) ==
    /\ \/ At(d, "write", "writing") /\ idFile' = Partial /\ ofd' = ofd \cup {d}
       \/ At(d, "write", "read") /\ UNCHANGED <<idFile, ofd>>
    /\ UNCHANGED <<nodesFile, myid, bootstrap, table, written, dumpIn, owner, starts>>

\* All 20 bytes go to the file that was opened, which another daemon may have
\* taken out of the directory since; or fewer do, for want of room, which a
\* file that has 20 bytes does not want.
WriteId(d) ==
    /\ \/ /\ At(d, "writing", "read")
          /\ idFile' = IF d \in ofd THEN myid[d] ELSE idFile
       \/ /\ At(d, "writing", "unlink")
          /\ d \in ofd => idFile \notin Id
          /\ UNCHANGED idFile
    /\ ofd' = ofd \ {d}
    /\ UNCHANGED <<nodesFile, myid, bootstrap, table, written, dumpIn, owner, starts>>

\* A short write takes away what has the name by now.
UnlinkId(d) ==
    /\ At(d, "unlink", "read")
    /\ idFile' = None /\ ofd' = {}
    /\ UNCHANGED <<nodesFile, myid, bootstrap, table, written, dumpIn, owner, starts>>

ReadNodes(d) ==
    /\ At(d, "read", "open")
    /\ bootstrap' = [bootstrap EXCEPT ![d] = Readable(nodesFile)]
    /\ UNCHANGED <<disk, myid, table, written, dumpIn, owner, starts>>

\* fopen "w+".
OpenNodes(d) ==
    /\ At(d, "open", "bind")
    /\ nodesFile' = <<>>
    /\ written' = [written EXCEPT ![d] = 0]
    /\ owner' = d
    /\ UNCHANGED <<idFile, ofd, myid, bootstrap, table, dumpIn, starts>>

\* What was in the memory of a process that ends.
Forgets(d) ==
    /\ myid' = [myid EXCEPT ![d] = None]
    /\ bootstrap' = [bootstrap EXCEPT ![d] = {}]
    /\ table' = [table EXCEPT ![d] = {}]
    /\ dumpIn' = [dumpIn EXCEPT ![d] = 0]

PortTaken(d) == \E e \in Daemon \ {d} : pc[e] = "run"

\* bind fails when another daemon has the port, and may fail without.
Bind(d) ==
    /\ \/ At(d, "bind", "off") /\ Forgets(d)
       \/ /\ At(d, "bind", "run") /\ ~PortTaken(d)
          /\ dumpIn' \in {[dumpIn EXCEPT ![d] = t] : t \in DumpDelays}
          /\ UNCHANGED <<myid, bootstrap, table>>
    /\ UNCHANGED <<disk, written, owner, starts>>

Running(d) == pc[d] = "run" /\ UNCHANGED <<pc, idFile, ofd, myid, bootstrap, owner, starts>>

\* A node answers our first ping, or writes to us because it knows us.
Meet(d, n) ==
    /\ Running(d)
    /\ n \notin table[d]
    /\ table' = [table EXCEPT ![d] = @ \cup {n}]
    /\ UNCHANGED <<nodesFile, written, dumpIn>>

Forget(d, n) ==
    /\ Running(d)
    /\ n \in table[d]
    /\ table' = [table EXCEPT ![d] = @ \ {n}]
    /\ UNCHANGED <<nodesFile, written, dumpIn>>

\* A write at the daemon's own offset: where the file is shorter, NULs fill it,
\* and where it is longer the rest stays.  Lines are taken to be of one length.
Padded(file, length) ==
    file \o [i \in 1 .. (IF Len(file) < length THEN length - Len(file) ELSE 0) |-> Gap]

\* Mutant: a dump replaces what is in the file.
WrittenOver(file, offset, lines) == lines

\* Mutant: a dump does not reach the disk.
WrittenNever(file, offset, lines) == file

WrittenAt(file, offset, lines) ==
    SubSeq(Padded(file, offset), 1, offset) \o lines
        \o SubSeq(file, offset + Len(lines) + 1, Len(file))

Dump(d) ==
    /\ Running(d)
    /\ dumpIn[d] = 0
    /\ written[d] + Cardinality(table[d]) <= MAX_LINES
    /\ \E lines \in SetToSeqs(table[d]) :
        /\ nodesFile' = WrittenAt(nodesFile, written[d], lines)
        /\ written' = [written EXCEPT ![d] = @ + Len(lines)]
    /\ dumpIn' \in {[dumpIn EXCEPT ![d] = t] : t \in DumpDelays}
    /\ UNCHANGED table

Pass(d) ==
    /\ Running(d)
    /\ dumpIn[d] > 0
    /\ dumpIn' = [dumpIn EXCEPT ![d] = @ - 1]
    /\ UNCHANGED <<nodesFile, table, written>>

\* A signal, a crash, or any of the exits of main.
Stop(d) ==
    /\ pc[d] # "off"
    /\ pc' = [pc EXCEPT ![d] = "off"]
    /\ Forgets(d)
    /\ ofd' = ofd \ {d}
    /\ UNCHANGED <<idFile, nodesFile, written, owner, starts>>

StartInit ==
    /\ idFile = None /\ ofd = {}
    /\ nodesFile = ByHand
    /\ pc = [d \in Daemon |-> "off"]
    /\ myid = [d \in Daemon |-> None]
    /\ bootstrap = [d \in Daemon |-> {}]
    /\ table = [d \in Daemon |-> {}]
    /\ written = [d \in Daemon |-> 0]
    /\ dumpIn = [d \in Daemon |-> 0]
    /\ owner = None
    /\ starts = 0

StartNext ==
    \E d \in Daemon :
        \/ Start(d) \/ OpenIdFile(d) \/ WriteId(d) \/ UnlinkId(d)
        \/ ReadNodes(d) \/ OpenNodes(d) \/ Bind(d) \/ Dump(d) \/ Pass(d) \/ Stop(d)
        \/ \E n \in Node : Meet(d, n) \/ Forget(d, n)

StartSpec == StartInit /\ [][StartNext]_startVars

---------------------------------------------------------------------------
\* Types; the offset a daemon writes at stays within the lines allowed.
StartTypeOK ==
    /\ idFile \in Id \cup {None, Partial} /\ ofd \subseteq Daemon
    /\ nodesFile \in Seq(Node \cup {Gap})
    /\ pc \in [Daemon -> {"off", "write", "writing", "unlink", "read", "open", "bind", "run"}]
    /\ myid \in [Daemon -> Id \cup {None}]
    /\ bootstrap \in [Daemon -> SUBSET Node]
    /\ table \in [Daemon -> SUBSET Node]
    /\ written \in [Daemon -> 0 .. MAX_LINES]
    /\ dumpIn \in [Daemon -> Nat]
    /\ owner \in Daemon \cup {None}
    /\ starts \in 0 .. MAX_STARTS

\* The file has an id and no daemon is at work on one of its own.
SettledOn(i) ==
    /\ idFile = i
    /\ \A d \in Daemon : pc[d] \notin {"write", "writing", "unlink"}

\* No daemon takes the part of an id that a crash or a short write left for
\* one.  And though nothing keeps daemons that start together from each drawing
\* an id, truncating, writing over and unlinking the other's file: from the
\* moment these are done and an id is in the file, whoever starts, however
\* often and whatever dies, has that id.
IdIsKept ==
    \A d \in Daemon, i \in Id :
        /\ [](pc[d] # "off" => myid[d] \in Id)
        /\ [](SettledOn(i) /\ pc[d] = "off" => [](pc[d] # "off" => myid[d] = i))

\* What the daemon that opened the nodes file last has dumped, a restarted one
\* will find, whatever dies in between: later dumps, of an empty table too, do
\* not take it away, and it is within the lines a start looks at.
DumpIsFound ==
    owner \in Daemon /\ written[owner] > 0 => Readable(nodesFile) # {}

\* A daemon that goes on running, alone and with nodes in its table, writes
\* nodes a restart can read, however long random() lets it wait.
NodesGetWritten ==
    \A d \in Daemon :
        ~<>[](pc[d] = "run" /\ owner = d /\ table[d] # {} /\ Readable(nodesFile) = {})
=============================================================================
