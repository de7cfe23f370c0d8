------------------------- MODULE TcpTransfer_proofs -------------------------
(* Theorems about the file transfers of a daemon, for any connections, any  *)
(* files and lengths, and any sizes of messages and buffers.                *)
EXTENDS TcpTransfer, CommonFacts

-----------------------------------------------------------------------------
(* The inductive invariant: the types, and one part for each kind of fact   *)
(* the actions may disturb.                                                 *)

Types ==
    /\ peer \in [Conn -> {"new", "busy", "done", "failed", "killed"}]
    /\ sent \in [Conn -> Nat] /\ wire \in [Conn -> Nat] /\ inbox \in [Conn -> Nat]
    /\ got \in [Conn -> Nat] /\ offset \in [Conn -> Nat]
    /\ backlog \in SUBSET Conn /\ IsFiniteSet(backlog)
    /\ recvs \in Seq(Conn) /\ sends \in SUBSET Conn
    /\ entry \in [Conn -> Entry]
    /\ disk \in [Hash -> Nat \cup {Absent}]
    /\ stored \in SUBSET Hash
    /\ pc \in {"select", "accept", "fds", "periodic"}
    /\ ready \in SUBSET Conn /\ todo \in Seq(Conn)

\* What is counted on one side is bounded by what the other side has counted.
Counts ==
    /\ \A c \in Conn : /\ wire[c] <= sent[c] /\ sent[c] <= Total(c)
                      /\ inbox[c] <= WINDOW
                      /\ got[c] + inbox[c] <= offset[c]
                      /\ offset[c] <= Length[HashOf[c]]
    /\ \A h \in Hash : disk[h] <= Length[h]

\* A connection is new, or waits, or is in one list; until the daemon sends to
\* it nothing has been sent to it, and what waits has not been received.
Places ==
    /\ backlog \cap ToSet(recvs) = {} /\ backlog \cap sends = {}
    /\ \A c \in Conn : peer[c] = "new" =>
          /\ c \notin backlog /\ c \notin ToSet(recvs) /\ c \notin sends
          /\ sent[c] = 0 /\ wire[c] = 0 /\ offset[c] = 0
    /\ \A c \in backlog \cup ToSet(recvs) : offset[c] = 0
    /\ \A c \in backlog : sent[c] = wire[c]

\* tcp_periodic visits entries that are still in the list, each once, and what
\* it has visited has room in its buffer.
Visits ==
    /\ ToSet(todo) \subseteq ToSet(recvs) /\ IsInjective(todo)
    /\ pc # "periodic" => todo = <<>>
    /\ pc \in {"select", "periodic"} =>
          /\ ready = {}
          /\ \A c \in ToSet(recvs) \ ToSet(todo) : entry[c].buflen < TCP_BUF_LEN

\* Only an upload writes a file, and the file is there.
Writes ==
    \A c \in ToSet(recvs) :
        entry[c].type = "RECVFILE" => KindOf[c] = "up" /\ disk[HashOf[c]] # Absent

IInv ==
    /\ Types /\ Counts /\ Places /\ Visits /\ Writes
    /\ KnownFds /\ RoomToReceive /\ StoredIsWhole /\ OneWriter /\ NothingLost

\* remove_tcp_recv takes one entry off the list and leaves the others.
LEMMA WithoutOne ==
    ASSUME NEW c, recvs \in Seq(Conn), IsInjective(recvs), c \in ToSet(recvs)
    PROVE  /\ Without(c) \in Seq(Conn) /\ IsInjective(Without(c))
           /\ ToSet(Without(c)) = ToSet(recvs) \ {c}
BY RemoveOne DEF Without

-----------------------------------------------------------------------------
(* The peers touch only the counters, their own state and what waits.       *)

LEMMA Bounds ==
    ASSUME NEW c \in Conn
    PROVE  /\ HashOf[c] \in Hash /\ Length[HashOf[c]] \in Nat
           /\ Message(c) \in Nat \ {0} /\ Message(c) <= TCP_BUF_LEN
           /\ Total(c) \in Nat
           /\ KindOf[c] = "up" => Total(c) = UPLOAD_MES_LEN + Length[HashOf[c]]
           /\ KindOf[c] = "up" => Message(c) = UPLOAD_MES_LEN
BY TransferAssumption DEF Message, Total

LEMMA Fields ==
    ASSUME Types, NEW c \in Conn
    PROVE  /\ sent[c] \in Nat /\ wire[c] \in Nat /\ inbox[c] \in Nat
           /\ got[c] \in Nat /\ offset[c] \in Nat
           /\ entry[c].type \in {"INIT", "RECVFILE"}
           /\ entry[c].buflen \in Nat /\ entry[c].buflen <= TCP_BUF_LEN
           /\ entry[c].filelen \in Nat
           /\ disk[HashOf[c]] \in Nat \cup {Absent} /\ Absent = -1
           /\ disk[HashOf[c]] \in Int
BY TransferAssumption DEF Types, Entry, Absent

LEMMA Starts == Init => IInv
<1> SUFFICES ASSUME Init PROVE IInv
  OBVIOUS
<1>1. IsFiniteSet({})
  BY FS_EmptySet
<1>2. Types
  BY <1>1, EmptyList, TransferAssumption DEF Init, Types, FreshEntry, Entry
<1>3. Counts
  BY Bounds, TransferAssumption DEF Init, Counts, Absent
<1>4. Places /\ Visits /\ Writes
  BY EmptyList DEF Init, Places, Visits, Writes
<1>5. KnownFds /\ RoomToReceive /\ StoredIsWhole /\ OneWriter /\ NothingLost
  BY EmptyList DEF Init, KnownFds, RoomToReceive, StoredIsWhole, OneWriter, NothingLost
<1> QED BY <1>2, <1>3, <1>4, <1>5 DEF IInv

\* What a step of a peer leaves alone, and the parts that speak of nothing else.
DaemonRests == UNCHANGED daemonVars

LEMMA PeersLeave ==
    ASSUME IInv, DaemonRests
    PROVE  /\ Visits' /\ Writes' /\ KnownFds' /\ RoomToReceive' /\ StoredIsWhole' /\ OneWriter'
           /\ (\A c \in sends : offset[c] <= disk[HashOf[c]])'
           /\ (\A h \in Hash : disk[h] <= Length[h])'
<1>1. UNCHANGED <<readfds, writefds, recvs, sends, entry, offset, disk, stored, pc, ready, todo>>
  BY DEF DaemonRests, daemonVars, tcpVars, fileVars, loopVars
<1>2. Visits' /\ Writes' /\ KnownFds' /\ RoomToReceive'
  BY <1>1 DEF IInv, Visits, Writes, KnownFds, RoomToReceive
<1>3. StoredIsWhole' /\ OneWriter'
  BY <1>1 DEF IInv, StoredIsWhole, OneWriter
<1>4. /\ (\A c \in sends : offset[c] <= disk[HashOf[c]])'
      /\ (\A h \in Hash : disk[h] <= Length[h])'
  BY <1>1 DEF IInv, NothingLost, Counts
<1> QED BY <1>2, <1>3, <1>4

LEMMA ConnectKeeps == ASSUME IInv, NEW c \in Conn, Connect(c) PROVE IInv'
<1>0. /\ peer[c] = "new" /\ peer' = [peer EXCEPT ![c] = "busy"]
      /\ backlog' = backlog \cup {c}
      /\ UNCHANGED <<sent, got, wire, inbox>>
      /\ UNCHANGED <<readfds, writefds, recvs, sends, entry, offset, disk, stored, pc, ready, todo>>
  BY DEF Connect, daemonVars, tcpVars, fileVars, loopVars
<1>1. IsFiniteSet(backlog \cup {c})
  BY FS_AddElement DEF IInv, Types
<1>2. Types'
  BY <1>0, <1>1 DEF IInv, Types
<1>3. DaemonRests
  BY DEF Connect, DaemonRests
<1>4. Counts' /\ NothingLost'
  BY <1>0 DEF IInv, Counts, NothingLost
<1>5. Places'
  BY <1>0 DEF IInv, Types, Places
<1> QED BY <1>2, <1>3, <1>4, <1>5, PeersLeave DEF IInv

LEMMA PeerSendKeeps == ASSUME IInv, NEW c \in Conn, PeerSend(c) PROVE IInv'
<1>0. /\ peer[c] = "busy" /\ sent[c] < Total(c)
      /\ UNCHANGED <<got, inbox, backlog>>
      /\ UNCHANGED <<readfds, writefds, recvs, sends, entry, offset, disk, stored, pc, ready, todo>>
  BY DEF PeerSend, daemonVars, tcpVars, fileVars, loopVars
<1>1. DaemonRests
  BY DEF PeerSend, DaemonRests
<1>2. Total(c) \in Nat
  BY Bounds
<1>3. CASE Shut(c)
  <2>1. peer' = [peer EXCEPT ![c] = "failed"] /\ UNCHANGED <<sent, wire>>
    BY <1>3 DEF PeerSend
  <2>2. Types' /\ Counts' /\ Places' /\ NothingLost'
    BY <1>0, <2>1 DEF IInv, Types, Counts, Places, NothingLost
  <2> QED BY <2>2, <1>1, PeersLeave DEF IInv
<1>4. CASE ~Shut(c)
  <2>1. /\ sent' = [sent EXCEPT ![c] = @ + 1] /\ wire' = [wire EXCEPT ![c] = @ + 1]
        /\ UNCHANGED peer
    BY <1>4 DEF PeerSend
  <2>t. sent \in [Conn -> Nat] /\ wire \in [Conn -> Nat]
    BY DEF IInv, Types
  <2>a. sent' \in [Conn -> Nat] /\ wire' \in [Conn -> Nat]
    BY <2>t, <2>1
  <2>2. Types'
    BY <1>0, <2>1, <2>a DEF IInv, Types
  <2>3. Counts'
    BY <1>0, <1>2, <2>1, <2>t DEF IInv, Counts
  <2>4. Places'
    BY <1>0, <2>1 DEF IInv, Types, Places
  <2>5. NothingLost'
    <3>1. ASSUME NEW d \in ToSet(recvs)
          PROVE  /\ sent[d] \in Nat /\ wire[d] \in Nat
                 /\ \/ sent'[d] = sent[d] /\ wire'[d] = wire[d]
                    \/ sent'[d] = sent[d] + 1 /\ wire'[d] = wire[d] + 1
      BY <2>t, <2>1, ElementsOfSeq DEF IInv, Types
    <3>2. ASSUME NEW d \in ToSet(recvs), entry[d].type = "INIT"
          PROVE  sent'[d] = wire'[d] + entry[d].buflen
      <4>1. sent[d] = wire[d] + entry[d].buflen
        BY <3>2 DEF IInv, NothingLost
      <4>2. entry[d].buflen \in Nat
        BY ElementsOfSeq, Fields DEF IInv, Types
      <4> QED BY <4>1, <4>2, <3>1
    <3>3. ASSUME NEW d \in ToSet(recvs), entry[d].type # "INIT"
          PROVE  /\ sent'[d] = wire'[d] + entry[d].buflen + UPLOAD_MES_LEN + disk[HashOf[d]]
                 /\ disk[HashOf[d]] + entry[d].filelen = Length[HashOf[d]]
      <4>1. /\ sent[d] = wire[d] + entry[d].buflen + UPLOAD_MES_LEN + disk[HashOf[d]]
            /\ disk[HashOf[d]] + entry[d].filelen = Length[HashOf[d]]
        BY <3>3 DEF IInv, NothingLost
      <4>2. entry[d].buflen \in Nat /\ disk[HashOf[d]] \in Int
        BY ElementsOfSeq, Fields DEF IInv, Types
      <4> QED BY <4>1, <4>2, <3>1, TransferAssumption
    <3> QED BY <3>2, <3>3, <1>0 DEF IInv, NothingLost
  <2> QED BY <2>2, <2>3, <2>4, <2>5, <1>1, PeersLeave DEF IInv
<1> QED BY <1>3, <1>4

LEMMA UploadedKeeps == ASSUME IInv, NEW c \in Conn, Uploaded(c) PROVE IInv'
<1>0. /\ peer[c] = "busy" /\ peer' = [peer EXCEPT ![c] = "done"]
      /\ UNCHANGED <<sent, got, wire, inbox, backlog>>
      /\ UNCHANGED <<readfds, writefds, recvs, sends, entry, offset, disk, stored, pc, ready, todo>>
  BY DEF Uploaded, netVars, daemonVars, tcpVars, fileVars, loopVars
<1>1. DaemonRests
  BY DEF Uploaded, DaemonRests
<1>2. Types' /\ Counts' /\ Places' /\ NothingLost'
  BY <1>0 DEF IInv, Types, Counts, Places, NothingLost
<1> QED BY <1>1, <1>2, PeersLeave DEF IInv

LEMMA ReceiveKeeps == ASSUME IInv, NEW c \in Conn, Receive(c) PROVE IInv'
<1>0. /\ peer[c] = "busy" /\ UNCHANGED <<sent, wire, backlog>>
      /\ UNCHANGED <<readfds, writefds, recvs, sends, entry, offset, disk, stored, pc, ready, todo>>
  BY DEF Receive, daemonVars, tcpVars, fileVars, loopVars
<1>1. DaemonRests
  BY DEF Receive, DaemonRests
<1>2. \/ /\ inbox[c] > 0
         /\ got' = [got EXCEPT ![c] = @ + 1] /\ inbox' = [inbox EXCEPT ![c] = @ - 1]
         /\ UNCHANGED peer
      \/ peer' = [peer EXCEPT ![c] = "done"] /\ UNCHANGED <<got, inbox>>
  BY DEF Receive
<1>t. got \in [Conn -> Nat] /\ inbox \in [Conn -> Nat] /\ offset \in [Conn -> Nat]
  BY DEF IInv, Types
<1>a. got' \in [Conn -> Nat] /\ inbox' \in [Conn -> Nat]
  BY <1>t, <1>2
<1>b. UNCHANGED peer \/ peer' = [peer EXCEPT ![c] = "done"]
  BY <1>2
<1>3. Types'
  BY <1>0, <1>a, <1>b DEF IInv, Types
<1>4. Counts'
  <2>1. ASSUME NEW d \in Conn
        PROVE  inbox'[d] <= WINDOW /\ got'[d] + inbox'[d] <= offset[d]
    <3>1. inbox[d] <= WINDOW /\ got[d] + inbox[d] <= offset[d] /\ WINDOW \in Nat
      BY TransferAssumption DEF IInv, Counts
    <3>2. \/ inbox'[d] = inbox[d] /\ got'[d] = got[d]
          \/ inbox'[d] = inbox[d] - 1 /\ got'[d] = got[d] + 1
      BY <1>2, <1>t
    <3> QED BY <3>1, <3>2, <1>t
  <2> QED BY <2>1, <1>0 DEF IInv, Counts
<1>5. Places' /\ NothingLost'
  BY <1>0, <1>2 DEF IInv, Types, Places, NothingLost
<1> QED BY <1>1, <1>3, <1>4, <1>5, PeersLeave DEF IInv

LEMMA DieKeeps == ASSUME IInv, NEW c \in Conn, Die(c) PROVE IInv'
<1>0. /\ peer[c] = "busy" /\ UNCHANGED <<sent, got, wire, backlog>>
      /\ peer' = [peer EXCEPT ![c] = "killed"] /\ inbox' = [inbox EXCEPT ![c] = 0]
      /\ UNCHANGED <<readfds, writefds, recvs, sends, entry, offset, disk, stored, pc, ready, todo>>
  BY DEF Die, daemonVars, tcpVars, fileVars, loopVars
<1>1. DaemonRests
  BY DEF Die, DaemonRests
<1>2. Types'
  BY <1>0 DEF IInv, Types
<1>3. Counts'
  BY <1>0, TransferAssumption DEF IInv, Types, Counts
<1>4. Places' /\ NothingLost'
  BY <1>0 DEF IInv, Types, Places, NothingLost
<1> QED BY <1>1, <1>2, <1>3, <1>4, PeersLeave DEF IInv

-----------------------------------------------------------------------------
(* select and the descriptors. *)

LEMMA SelectKeeps == ASSUME IInv, Select PROVE IInv'
<1>0. /\ pc = "select" /\ pc' \in {"accept", "fds"}
      /\ ready' \subseteq readfds \cup writefds
      /\ UNCHANGED <<peer, sent, got, wire, inbox, backlog>>
      /\ UNCHANGED <<readfds, writefds, recvs, sends, entry, offset, disk, stored, todo>>
  BY DEF Select, peerVars, netVars, tcpVars, fileVars
<1>1. readfds \subseteq Conn /\ writefds \subseteq Conn
  BY ElementsOfSeq DEF IInv, Types, KnownFds
<1>2. Types'
  BY <1>0, <1>1 DEF IInv, Types
<1>3. todo = <<>> /\ ToSet(todo) = {}
  BY <1>0, EmptyList DEF IInv, Visits
<1>4. RoomToReceive'
  BY <1>0, <1>3 DEF IInv, KnownFds, Visits, RoomToReceive
<1>5. Visits'
  BY <1>0, <1>3 DEF IInv, Visits
<1>6. KnownFds' /\ Places' /\ Counts'
  BY <1>0 DEF IInv, KnownFds, Places, Counts
<1>7. Writes' /\ StoredIsWhole' /\ OneWriter' /\ NothingLost'
  BY <1>0 DEF IInv, Writes, StoredIsWhole, OneWriter, NothingLost
<1> QED BY <1>2, <1>4, <1>5, <1>6, <1>7 DEF IInv

LEMMA AcceptKeeps == ASSUME IInv, Accept PROVE IInv'
<1>0. /\ pc = "accept" /\ pc' = "fds"
      /\ entry' = [d \in Conn |-> IF d \in backlog THEN FreshEntry ELSE entry[d]]
      /\ readfds' = readfds \cup backlog /\ backlog' = {}
      /\ UNCHANGED <<peer, sent, got, wire, inbox>>
      /\ UNCHANGED <<writefds, sends, offset, disk, stored, ready, todo>>
  BY DEF Accept, peerVars, fileVars
<1>1. PICK order \in SetToSeqs(backlog) : recvs' = order \o recvs
  BY DEF Accept
<1>2. order \in Seq(backlog) /\ IsInjective(order) /\ ToSet(order) = backlog
  BY InSomeOrder DEF IInv, Types
<1>3. order \in Seq(Conn)
  BY <1>2, SeqMonotonic DEF IInv, Types
<1>4. recvs' \in Seq(Conn) /\ IsInjective(recvs') /\ ToSet(recvs') = backlog \cup ToSet(recvs)
  BY <1>1, <1>2, <1>3, InFront DEF IInv, Types, Places, KnownFds
<1>5. todo = <<>> /\ ToSet(todo) = {}
  BY <1>0, EmptyList DEF IInv, Visits
<1>6. /\ FreshEntry \in Entry /\ FreshEntry.type = "INIT" /\ FreshEntry.buflen = 0
      /\ 0 < TCP_BUF_LEN
  BY TransferAssumption DEF FreshEntry, Entry
<1>7. /\ \A d \in backlog : entry'[d] = FreshEntry
      /\ \A d \in ToSet(recvs) : entry'[d] = entry[d]
      /\ entry' \in [Conn -> Entry]
  BY <1>0, <1>6, ElementsOfSeq DEF IInv, Types, Places
<1>8. Types'
  <2>1. IsFiniteSet({})
    BY FS_EmptySet
  <2> QED BY <2>1, <1>0, <1>4, <1>7 DEF IInv, Types
<1>9. Counts'
  BY <1>0 DEF IInv, Counts
<1>10. Places' /\ Visits'
  BY <1>0, <1>4, <1>5 DEF IInv, Places, Visits
<1>11. Writes'
  BY <1>0, <1>4, <1>6, <1>7 DEF IInv, Writes
<1>12. KnownFds'
  BY <1>0, <1>4 DEF IInv, KnownFds, Places
<1>13. RoomToReceive'
  BY <1>0, <1>6, <1>7 DEF IInv, KnownFds, RoomToReceive
<1>14. StoredIsWhole' /\ OneWriter'
  BY <1>0, <1>4, <1>6, <1>7 DEF IInv, StoredIsWhole, OneWriter
<1>15. NothingLost'
  <2>1. ASSUME NEW d \in backlog
        PROVE  entry'[d].type = "INIT" /\ sent'[d] = wire'[d] + entry'[d].buflen
    BY <1>0, <1>6, <1>7 DEF IInv, Types, Places
  <2>2. ASSUME NEW d \in ToSet(recvs)
        PROVE  /\ entry'[d].type = "INIT" => sent'[d] = wire'[d] + entry'[d].buflen
               /\ entry'[d].type # "INIT" =>
                    /\ sent'[d] = wire'[d] + entry'[d].buflen + UPLOAD_MES_LEN + disk'[HashOf[d]]
                    /\ disk'[HashOf[d]] + entry'[d].filelen = Length[HashOf[d]]
    BY <1>0, <1>7 DEF IInv, NothingLost
  <2> QED BY <2>1, <2>2, <1>0, <1>4 DEF IInv, NothingLost
<1> QED BY <1>8, <1>9, <1>10, <1>11, <1>12, <1>13, <1>14, <1>15 DEF IInv

\* An entry taken off recv_storage with its descriptor closed.
LEMMA DropOne ==
    ASSUME IInv, NEW c \in ToSet(recvs), Drop(c)
    PROVE  /\ recvs' \in Seq(Conn) /\ IsInjective(recvs')
           /\ ToSet(recvs') = ToSet(recvs) \ {c} /\ readfds' = readfds \ {c}
           /\ UNCHANGED <<writefds, sends, entry, offset>>
BY WithoutOne DEF Drop, IInv, Types, KnownFds

LEMMA RecvKeeps ==
    ASSUME IInv, NEW c \in Conn, NEW n \in 0 .. TCP_BUF_LEN, Recv(c, n)
    PROVE  IInv'
<1>0. /\ pc = "fds" /\ c \in ready /\ c \in ToSet(recvs) /\ ready' = ready \ {c}
      /\ UNCHANGED <<peer, sent, got, inbox, backlog, disk, stored, pc, todo>>
  BY DEF Recv, peerVars, fileVars
<1>1. CASE n > 0
  <2>1. /\ n <= wire[c] /\ n <= TCP_BUF_LEN - entry[c].buflen
        /\ wire' = [wire EXCEPT ![c] = @ - n]
        /\ entry' = [entry EXCEPT ![c] =
              [type |-> entry[c].type, buflen |-> entry[c].buflen + n,
               filelen |-> entry[c].filelen]]
        /\ UNCHANGED <<readfds, recvs, writefds, sends, offset>>
    BY <1>1 DEF Recv
  <2>t. wire \in [Conn -> Nat] /\ entry \in [Conn -> Entry] /\ n \in Nat /\ TCP_BUF_LEN \in Nat
    BY TransferAssumption DEF IInv, Types
  <2>f. ASSUME NEW d \in Conn
        PROVE  /\ sent[d] \in Nat /\ wire[d] \in Nat
               /\ entry[d].type \in {"INIT", "RECVFILE"}
               /\ entry[d].buflen \in Nat /\ entry[d].buflen <= TCP_BUF_LEN
               /\ entry[d].filelen \in Nat /\ disk[HashOf[d]] \in Int
    BY Fields DEF IInv
  <2>2. ASSUME NEW d \in Conn
        PROVE  /\ entry'[d].type = entry[d].type /\ entry'[d].filelen = entry[d].filelen
               /\ wire'[d] \in Nat /\ wire'[d] <= wire[d]
               /\ entry'[d].buflen + wire'[d] = entry[d].buflen + wire[d]
               /\ entry'[d].buflen \in Nat
               /\ d # c => entry'[d].buflen = entry[d].buflen
    <3>1. CASE d = c
      BY <3>1, <2>1, <2>t, <2>f
    <3>2. CASE d # c
      BY <3>2, <2>1, <2>t, <2>f
    <3> QED BY <3>1, <3>2
  <2>3. Types'
    <3>1. [type |-> entry[c].type, buflen |-> entry[c].buflen + n,
           filelen |-> entry[c].filelen] \in Entry
      BY <2>1, <2>t, <2>f DEF Entry
    <3>2. entry' \in [Conn -> Entry]
      BY <3>1, <2>1, <2>t
    <3>3. wire' \in [Conn -> Nat]
      BY <2>1, <2>t
    <3> QED BY <3>2, <3>3, <2>1, <1>0 DEF IInv, Types
  <2>4. Counts'
    <3>1. ASSUME NEW d \in Conn PROVE wire'[d] <= sent[d]
      <4>1. wire[d] <= sent[d]
        BY DEF IInv, Counts
      <4> QED BY <4>1, <2>f, <2>2
    <3> QED BY <3>1, <2>1, <1>0 DEF IInv, Counts
  <2>5. Places'
    <3>1. \A d \in Conn : d # c => wire'[d] = wire[d]
      BY <2>1, <2>t
    <3>2. peer[c] # "new" /\ c \notin backlog
      BY <1>0 DEF IInv, Places
    <3> QED BY <3>1, <3>2, <2>1, <1>0 DEF IInv, Types, Places
  <2>6. Visits' /\ KnownFds'
    BY <2>1, <1>0 DEF IInv, Visits, KnownFds
  <2>7. RoomToReceive'
    <3>1. readfds \subseteq Conn
      BY ElementsOfSeq DEF IInv, Types, KnownFds
    <3> QED BY <3>1, <2>1, <2>2, <1>0 DEF IInv, RoomToReceive
  <2>8. Writes' /\ OneWriter' /\ StoredIsWhole'
    <3>1. ToSet(recvs) \subseteq Conn
      BY ElementsOfSeq DEF IInv, Types
    <3> QED BY <3>1, <2>1, <2>2, <1>0 DEF IInv, Writes, OneWriter, StoredIsWhole
  <2>9. NothingLost'
    <3>1. ASSUME NEW d \in ToSet(recvs), entry[d].type = "INIT"
          PROVE  sent[d] = wire'[d] + entry'[d].buflen
      <4>1. sent[d] = wire[d] + entry[d].buflen /\ d \in Conn
        BY <3>1, ElementsOfSeq DEF IInv, Types, NothingLost
      <4> QED BY <4>1, <2>2, <2>f
    <3>2. ASSUME NEW d \in ToSet(recvs), entry[d].type # "INIT"
          PROVE  /\ sent[d] = wire'[d] + entry'[d].buflen + UPLOAD_MES_LEN + disk[HashOf[d]]
                 /\ disk[HashOf[d]] + entry'[d].filelen = Length[HashOf[d]]
      <4>1. d \in Conn
        BY ElementsOfSeq DEF IInv, Types
      <4>2. /\ sent[d] = wire[d] + entry[d].buflen + UPLOAD_MES_LEN + disk[HashOf[d]]
            /\ disk[HashOf[d]] + entry[d].filelen = Length[HashOf[d]]
        BY <3>2 DEF IInv, NothingLost
      <4>3. UPLOAD_MES_LEN \in Nat
        BY TransferAssumption
      <4> QED BY <4>1, <4>2, <4>3, <2>2, <2>f
    <3>3. \A d \in ToSet(recvs) : entry'[d].type = entry[d].type
      BY <2>2, ElementsOfSeq DEF IInv, Types
    <3> QED BY <3>1, <3>2, <3>3, <2>1, <1>0 DEF IInv, NothingLost
  <2> QED BY <2>3, <2>4, <2>5, <2>6, <2>7, <2>8, <2>9 DEF IInv
<1>2. CASE ~(n > 0)
  <2>1. Drop(c) /\ UNCHANGED wire
    BY <1>2 DEF Recv
  <2>2. /\ recvs' \in Seq(Conn) /\ IsInjective(recvs')
        /\ ToSet(recvs') = ToSet(recvs) \ {c} /\ readfds' = readfds \ {c}
        /\ UNCHANGED <<writefds, sends, entry, offset>>
    BY <2>1, <1>0, DropOne
  <2>3. todo = <<>> /\ ToSet(todo) = {}
    BY <1>0, EmptyList DEF IInv, Visits
  <2>4. Types' /\ Counts'
    BY <1>0, <2>1, <2>2 DEF IInv, Types, Counts
  <2>5. Places' /\ Visits'
    BY <1>0, <2>1, <2>2, <2>3 DEF IInv, Places, Visits
  <2>6. KnownFds' /\ RoomToReceive' /\ Writes'
    BY <1>0, <2>2 DEF IInv, KnownFds, RoomToReceive, Writes
  <2>7. StoredIsWhole' /\ OneWriter' /\ NothingLost'
    BY <1>0, <2>1, <2>2 DEF IInv, StoredIsWhole, OneWriter, NothingLost
  <2> QED BY <2>4, <2>5, <2>6, <2>7 DEF IInv
<1> QED BY <1>1, <1>2

LEMMA SendKeeps == ASSUME IInv, NEW c \in Conn, Send(c) PROVE IInv'
<1>0. /\ pc = "fds" /\ c \in ready /\ c \in sends
      /\ UNCHANGED <<peer, sent, got, wire, backlog, readfds, recvs, entry, disk, stored, pc, todo>>
  BY DEF Send, peerVars, fileVars
<1>1. CASE Hungup(c) \/ offset[c] = disk[HashOf[c]]
  <2>1. /\ writefds' = writefds \ {c} /\ sends' = sends \ {c} /\ ready' = ready \ {c}
        /\ UNCHANGED <<inbox, offset>>
    BY <1>1 DEF Send
  <2>2. Types' /\ Counts'
    BY <1>0, <2>1 DEF IInv, Types, Counts
  <2>3. Places' /\ Visits'
    BY <1>0, <2>1 DEF IInv, Places, Visits
  <2>4. KnownFds' /\ RoomToReceive' /\ Writes'
    BY <1>0, <2>1 DEF IInv, KnownFds, RoomToReceive, Writes
  <2>5. StoredIsWhole' /\ OneWriter' /\ NothingLost'
    BY <1>0, <2>1 DEF IInv, StoredIsWhole, OneWriter, NothingLost
  <2> QED BY <2>2, <2>3, <2>4, <2>5 DEF IInv
<1>2. CASE ~(Hungup(c) \/ offset[c] = disk[HashOf[c]])
  <2>1. /\ inbox[c] < WINDOW
        /\ inbox' = [inbox EXCEPT ![c] = @ + 1] /\ offset' = [offset EXCEPT ![c] = @ + 1]
        /\ UNCHANGED <<writefds, sends, ready>>
    BY <1>2 DEF Send
  <2>t. inbox \in [Conn -> Nat] /\ offset \in [Conn -> Nat] /\ got \in [Conn -> Nat]
        /\ WINDOW \in Nat
    BY TransferAssumption DEF IInv, Types
  <2>2. inbox' \in [Conn -> Nat] /\ offset' \in [Conn -> Nat]
    BY <2>1, <2>t
  <2>3. Types'
    BY <1>0, <2>1, <2>2 DEF IInv, Types
  <2>4. offset[c] + 1 <= disk[HashOf[c]] /\ disk[HashOf[c]] <= Length[HashOf[c]]
    <3>1. offset[c] <= disk[HashOf[c]] /\ disk[HashOf[c]] <= Length[HashOf[c]]
      BY <1>0, Bounds DEF IInv, NothingLost, Counts
    <3>2. disk[HashOf[c]] \in Int
      BY Fields DEF IInv
    <3> QED BY <3>1, <3>2, <2>t, <1>2
  <2>5. Counts'
    <3>1. ASSUME NEW d \in Conn
          PROVE  /\ inbox'[d] <= WINDOW /\ got[d] + inbox'[d] <= offset'[d]
                 /\ offset'[d] <= Length[HashOf[d]]
      <4>1. /\ inbox[d] <= WINDOW /\ got[d] + inbox[d] <= offset[d]
            /\ offset[d] <= Length[HashOf[d]]
        BY DEF IInv, Counts
      <4>2. CASE d = c
        <5>1. /\ inbox'[c] = inbox[c] + 1 /\ offset'[c] = offset[c] + 1
          BY <2>1, <2>t
        <5>2. disk[HashOf[c]] \in Int /\ Length[HashOf[c]] \in Nat
          BY Fields, Bounds DEF IInv
        <5> QED BY <5>1, <5>2, <4>1, <4>2, <2>1, <2>4, <2>t
      <4>3. CASE d # c
        BY <4>3, <4>1, <2>1, <2>t
      <4> QED BY <4>2, <4>3
    <3> QED BY <3>1, <1>0 DEF IInv, Counts
  <2>6. c \notin backlog /\ c \notin ToSet(recvs) /\ peer[c] # "new"
    BY <1>0 DEF IInv, Places, KnownFds
  <2>7. \A d \in Conn : d # c => offset'[d] = offset[d]
    BY <2>1, <2>t
  <2>8. Places'
    BY <1>0, <2>1, <2>6, <2>7, ElementsOfSeq DEF IInv, Types, Places
  <2>9. Visits' /\ KnownFds' /\ RoomToReceive' /\ Writes'
    BY <1>0, <2>1 DEF IInv, Visits, KnownFds, RoomToReceive, Writes
  <2>10. StoredIsWhole' /\ OneWriter'
    BY <1>0 DEF IInv, StoredIsWhole, OneWriter
  <2>11. NothingLost'
    <3>1. \A d \in sends : offset'[d] <= disk[HashOf[d]]
      <4>1. offset'[c] = offset[c] + 1
        BY <2>1, <2>t
      <4> QED BY <4>1, <2>4, <2>7 DEF IInv, Types, NothingLost
    <3> QED BY <3>1, <1>0, <2>1 DEF IInv, NothingLost
  <2> QED BY <2>3, <2>5, <2>8, <2>9, <2>10, <2>11 DEF IInv
<1> QED BY <1>1, <1>2

-----------------------------------------------------------------------------
(* tcp_periodic. *)

LEMMA StartPeriodicKeeps == ASSUME IInv, StartPeriodic PROVE IInv'
<1>0. /\ pc = "fds" /\ ready = {} /\ todo' = recvs /\ ready' = ready
      /\ pc' \in {"select", "periodic"} /\ (pc' = "select" => recvs = <<>>)
      /\ UNCHANGED <<peer, sent, got, wire, inbox, backlog>>
      /\ UNCHANGED <<readfds, writefds, recvs, sends, entry, offset, disk, stored>>
  BY DEF StartPeriodic, peerVars, netVars, tcpVars, fileVars
<1>1. Types' /\ Counts'
  BY <1>0 DEF IInv, Types, Counts
<1>2. Places' /\ Visits'
  BY <1>0 DEF IInv, Places, Visits, KnownFds
<1>3. KnownFds' /\ RoomToReceive' /\ Writes'
  BY <1>0 DEF IInv, KnownFds, RoomToReceive, Writes
<1>4. StoredIsWhole' /\ OneWriter' /\ NothingLost'
  BY <1>0 DEF IInv, StoredIsWhole, OneWriter, NothingLost
<1> QED BY <1>1, <1>2, <1>3, <1>4 DEF IInv

\* One entry visited: it was in the list, and the others are still to come.
LEMMA Visited ==
    ASSUME IInv, NEW c, pc = "periodic", todo # <<>>, Head(todo) = c, Advance
    PROVE  /\ c \in ToSet(recvs) /\ c \in Conn /\ c \in ToSet(todo)
           /\ todo' \in Seq(Conn) /\ IsInjective(todo') /\ ToSet(todo') = ToSet(todo) \ {c}
           /\ ready = {} /\ ready' = {}
           /\ pc' \in {"select", "periodic"} /\ (pc' = "select" => todo' = <<>>)
           /\ UNCHANGED <<peer, sent, got, wire, inbox, backlog>>
<1>1. /\ Tail(todo) \in Seq(Conn) /\ IsInjective(Tail(todo)) /\ c \in ToSet(todo)
      /\ ToSet(Tail(todo)) = ToSet(todo) \ {c}
  BY TailOne DEF IInv, Types, Visits
<1>2. c \in ToSet(recvs) /\ c \in Conn
  BY <1>1, ElementsOfSeq DEF IInv, Types, Visits
<1> QED BY <1>1, <1>2 DEF Advance, peerVars, netVars, IInv, Visits

LEMMA WaitKeeps == ASSUME IInv, NEW c \in Conn, Wait(c) PROVE IInv'
<1>0. /\ Incomplete(c) /\ pc = "periodic" /\ todo # <<>> /\ Head(todo) = c /\ Advance
      /\ UNCHANGED <<readfds, writefds, recvs, sends, entry, offset, disk, stored>>
  BY DEF Wait, Incomplete, At, tcpVars, fileVars
<1>1. /\ c \in ToSet(recvs)
      /\ todo' \in Seq(Conn) /\ IsInjective(todo') /\ ToSet(todo') = ToSet(todo) \ {c}
      /\ ready = {} /\ ready' = {}
      /\ pc' \in {"select", "periodic"} /\ (pc' = "select" => todo' = <<>>)
      /\ UNCHANGED <<peer, sent, got, wire, inbox, backlog>>
  BY <1>0, Visited
<1>2. entry[c].buflen < TCP_BUF_LEN
  <2>1. entry[c].buflen < Message(c) \/ entry[c].buflen = 0
    BY <1>0 DEF Incomplete
  <2>2. entry[c].buflen \in Nat
    BY Fields DEF IInv
  <2> QED BY <2>1, <2>2, Bounds, TransferAssumption
<1>3. Types' /\ Counts'
  BY <1>0, <1>1 DEF IInv, Types, Counts
<1>4. Places' /\ Visits'
  BY <1>0, <1>1, <1>2 DEF IInv, Places, Visits
<1>5. KnownFds' /\ RoomToReceive' /\ Writes'
  BY <1>0, <1>1 DEF IInv, KnownFds, RoomToReceive, Writes
<1>6. StoredIsWhole' /\ OneWriter' /\ NothingLost'
  BY <1>0, <1>1 DEF IInv, StoredIsWhole, OneWriter, NothingLost
<1> QED BY <1>3, <1>4, <1>5, <1>6 DEF IInv

LEMMA RefuseKeeps == ASSUME IInv, NEW c \in Conn, Refuse(c) PROVE IInv'
<1>0. /\ pc = "periodic" /\ todo # <<>> /\ Head(todo) = c /\ Advance /\ Drop(c)
      /\ UNCHANGED <<disk, stored>>
  BY DEF Refuse, At, fileVars
<1>1. /\ c \in ToSet(recvs) /\ c \in ToSet(todo)
      /\ todo' \in Seq(Conn) /\ IsInjective(todo') /\ ToSet(todo') = ToSet(todo) \ {c}
      /\ ready = {} /\ ready' = {}
      /\ pc' \in {"select", "periodic"} /\ (pc' = "select" => todo' = <<>>)
      /\ UNCHANGED <<peer, sent, got, wire, inbox, backlog>>
  BY <1>0, Visited
<1>2. /\ recvs' \in Seq(Conn) /\ IsInjective(recvs')
      /\ ToSet(recvs') = ToSet(recvs) \ {c} /\ readfds' = readfds \ {c}
      /\ UNCHANGED <<writefds, sends, entry, offset>>
  BY <1>0, <1>1, DropOne
<1>3. Types' /\ Counts'
  BY <1>0, <1>1, <1>2 DEF IInv, Types, Counts
<1>4. Places' /\ Visits'
  BY <1>0, <1>1, <1>2 DEF IInv, Places, Visits
<1>5. KnownFds' /\ RoomToReceive' /\ Writes'
  BY <1>0, <1>1, <1>2 DEF IInv, KnownFds, RoomToReceive, Writes
<1>6. StoredIsWhole' /\ OneWriter' /\ NothingLost'
  BY <1>0, <1>1, <1>2 DEF IInv, StoredIsWhole, OneWriter, NothingLost
<1> QED BY <1>3, <1>4, <1>5, <1>6 DEF IInv

LEMMA StartSendKeeps == ASSUME IInv, NEW c \in Conn, StartSend(c) PROVE IInv'
<1>0. /\ pc = "periodic" /\ todo # <<>> /\ Head(todo) = c /\ Advance
      /\ disk[HashOf[c]] # Absent
      /\ sends' = sends \cup {c} /\ writefds' = writefds \cup {c}
      /\ recvs' = Without(c) /\ readfds' = readfds \ {c}
      /\ UNCHANGED <<entry, offset, disk, stored>>
  BY DEF StartSend, At, fileVars
<1>1. /\ c \in ToSet(recvs) /\ c \in ToSet(todo)
      /\ todo' \in Seq(Conn) /\ IsInjective(todo') /\ ToSet(todo') = ToSet(todo) \ {c}
      /\ ready = {} /\ ready' = {}
      /\ pc' \in {"select", "periodic"} /\ (pc' = "select" => todo' = <<>>)
      /\ UNCHANGED <<peer, sent, got, wire, inbox, backlog>>
  BY <1>0, Visited
<1>2. /\ recvs' \in Seq(Conn) /\ IsInjective(recvs')
      /\ ToSet(recvs') = ToSet(recvs) \ {c}
  BY <1>0, <1>1, WithoutOne DEF IInv, Types, KnownFds
<1>3. Types' /\ Counts'
  BY <1>0, <1>1, <1>2 DEF IInv, Types, Counts
<1>4. Places' /\ Visits'
  BY <1>0, <1>1, <1>2 DEF IInv, Places, Visits
<1>5. KnownFds' /\ RoomToReceive' /\ Writes'
  BY <1>0, <1>1, <1>2 DEF IInv, KnownFds, RoomToReceive, Writes
<1>6. StoredIsWhole' /\ OneWriter'
  BY <1>0, <1>1, <1>2 DEF IInv, StoredIsWhole, OneWriter
<1>7. offset[c] = 0 /\ disk[HashOf[c]] >= 0
  BY <1>0, <1>1, Fields DEF IInv, Places
<1>8. NothingLost'
  BY <1>0, <1>1, <1>2, <1>7 DEF IInv, NothingLost
<1> QED BY <1>3, <1>4, <1>5, <1>6, <1>8 DEF IInv

\* What has come of an upload is never more than the whole of it.
LEMMA NeverTooMuch ==
    ASSUME IInv, NEW c \in ToSet(recvs), KindOf[c] = "up"
    PROVE  LET h == HashOf[c]
           IN /\ c \in Conn /\ h \in Hash /\ Length[h] \in Nat
              /\ entry[c].type = "INIT" => entry[c].buflen <= UPLOAD_MES_LEN + Length[h]
              /\ entry[c].type = "RECVFILE" =>
                    /\ disk[h] \in Nat /\ entry[c].buflen <= entry[c].filelen
                    /\ disk[h] + entry[c].filelen = Length[h]
                    /\ sent[c] = wire[c] + entry[c].buflen + UPLOAD_MES_LEN + disk[h]
<1> DEFINE h == HashOf[c]
<1>1. c \in Conn
  BY ElementsOfSeq DEF IInv, Types
<1>2. /\ h \in Hash /\ Length[h] \in Nat /\ UPLOAD_MES_LEN \in Nat
      /\ Total(c) = UPLOAD_MES_LEN + Length[h]
  BY <1>1, Bounds, TransferAssumption
<1>3. sent[c] <= Total(c)
  BY <1>1 DEF IInv, Counts
<1>4. /\ sent[c] \in Nat /\ wire[c] \in Nat /\ entry[c].buflen \in Nat
      /\ entry[c].filelen \in Nat /\ disk[h] \in Nat \cup {Absent}
  BY <1>1, Fields DEF IInv
<1>5. CASE entry[c].type = "INIT"
  <2>1. sent[c] = wire[c] + entry[c].buflen
    BY <1>5 DEF IInv, NothingLost
  <2> QED BY <2>1, <1>1, <1>2, <1>3, <1>4, <1>5
<1>6. CASE entry[c].type = "RECVFILE"
  <2>1. /\ sent[c] = wire[c] + entry[c].buflen + UPLOAD_MES_LEN + disk[h]
        /\ disk[h] + entry[c].filelen = Length[h]
    BY <1>6 DEF IInv, NothingLost
  <2>2. disk[h] \in Nat
    BY <1>4, <1>6 DEF IInv, Writes
  <2> HIDE DEF h
  <2>3. entry[c].buflen <= entry[c].filelen
    BY <2>1, <2>2, <1>2, <1>3, <1>4
  <2> QED BY <2>1, <2>2, <2>3, <1>1, <1>2, <1>6 DEF h
<1>7. entry[c].type \in {"INIT", "RECVFILE"}
  BY <1>1, Fields DEF IInv
<1> QED BY <1>5, <1>6, <1>7

LEMMA StartFileKeeps == ASSUME IInv, NEW c \in Conn, StartFile(c) PROVE IInv'
<1> DEFINE h == HashOf[c]
           rc == entry[c].buflen - UPLOAD_MES_LEN
           new == [type |-> "RECVFILE", buflen |-> 0, filelen |-> Length[h] - rc]
<1>0. /\ pc = "periodic" /\ todo # <<>> /\ Head(todo) = c /\ Advance
      /\ KindOf[c] = "up" /\ entry[c].type = "INIT"
      /\ entry[c].buflen >= Message(c) /\ disk[h] = Absent
      /\ disk' = [disk EXCEPT ![h] = rc] /\ entry' = [entry EXCEPT ![c] = new]
      /\ UNCHANGED <<readfds, writefds, recvs, sends, offset, stored>>
  BY DEF StartFile, At
<1>1. /\ c \in ToSet(recvs) /\ c \in ToSet(todo)
      /\ todo' \in Seq(Conn) /\ IsInjective(todo') /\ ToSet(todo') = ToSet(todo) \ {c}
      /\ ready = {} /\ ready' = {}
      /\ pc' \in {"select", "periodic"} /\ (pc' = "select" => todo' = <<>>)
      /\ UNCHANGED <<peer, sent, got, wire, inbox, backlog>>
  BY <1>0, Visited
<1>2. /\ h \in Hash /\ Length[h] \in Nat /\ UPLOAD_MES_LEN \in Nat /\ entry[c].buflen \in Nat
      /\ entry[c].buflen <= UPLOAD_MES_LEN + Length[h] /\ Message(c) = UPLOAD_MES_LEN
      /\ 0 < TCP_BUF_LEN /\ TCP_BUF_LEN \in Nat
  BY <1>0, <1>1, NeverTooMuch, Bounds, Fields, TransferAssumption DEF IInv
<1>3. rc \in Nat /\ rc <= Length[h]
  BY <1>0, <1>2
<1>4. new \in Entry
  BY <1>2, <1>3 DEF Entry
<1>t. entry \in [Conn -> Entry] /\ disk \in [Hash -> Nat \cup {Absent}] /\ ToSet(recvs) \subseteq Conn
  BY ElementsOfSeq DEF IInv, Types
<1> HIDE DEF rc, new, h
<1>5. /\ entry' \in [Conn -> Entry] /\ entry'[c] = new
      /\ \A d \in Conn : d # c => entry'[d] = entry[d]
  BY <1>0, <1>4, <1>t
<1>6. /\ disk' \in [Hash -> Nat \cup {Absent}] /\ disk'[h] = rc
      /\ \A g \in Hash : g # h => disk'[g] = disk[g]
  BY <1>0, <1>2, <1>3, <1>t
<1>7. /\ new.type = "RECVFILE" /\ new.buflen = 0 /\ new.filelen = Length[h] - rc
      /\ rc # Absent
  BY <1>3 DEF new, Absent
\* nobody writes the file yet
<1>8. \A d \in ToSet(recvs) : entry[d].type = "RECVFILE" => HashOf[d] # h
  BY <1>0 DEF IInv, Writes
<1>9. Types'
  BY <1>0, <1>1, <1>5, <1>6 DEF IInv, Types
<1>10. Counts'
  <2>1. \A g \in Hash : disk'[g] <= Length[g]
    BY <1>3, <1>6 DEF IInv, Counts
  <2> QED BY <2>1, <1>0, <1>1 DEF IInv, Counts
<1>11. Places'
  BY <1>0, <1>1 DEF IInv, Places
<1>12. Visits'
  BY <1>0, <1>1, <1>2, <1>5, <1>7, <1>t DEF IInv, Visits
<1>13. Writes'
  <2>1. \A g \in Hash : disk[g] # Absent => disk'[g] # Absent
    BY <1>6, <1>7
  <2> QED BY <2>1, <1>0, <1>5, <1>6, <1>7, <1>t, TransferAssumption DEF IInv, Writes, h
<1>14. KnownFds' /\ RoomToReceive'
  BY <1>0, <1>1 DEF IInv, KnownFds, RoomToReceive
<1>15. StoredIsWhole'
  <2>1. h \notin stored
    BY <1>0, <1>2 DEF IInv, StoredIsWhole, Absent
  <2> QED BY <2>1, <1>0, <1>6 DEF IInv, Types, StoredIsWhole
<1>16. OneWriter'
  BY <1>0, <1>5, <1>8, <1>t DEF IInv, OneWriter, h
<1>17. NothingLost'
  <2>1. ASSUME NEW d \in ToSet(recvs), d # c
        PROVE  /\ entry[d].type = "INIT" => sent[d] = wire[d] + entry'[d].buflen
               /\ entry[d].type # "INIT" =>
                    /\ sent[d] = wire[d] + entry'[d].buflen + UPLOAD_MES_LEN + disk'[HashOf[d]]
                    /\ disk'[HashOf[d]] + entry'[d].filelen = Length[HashOf[d]]
    <3>1. entry'[d] = entry[d] /\ d \in Conn
      BY <2>1, <1>5, <1>t
    <3>2. entry[d].type # "INIT" => disk'[HashOf[d]] = disk[HashOf[d]]
      BY <3>1, <1>6, <1>8, Fields, Bounds DEF IInv
    <3> QED BY <3>1, <3>2 DEF IInv, NothingLost
  <2>2. /\ sent[c] = wire[c] + entry'[c].buflen + UPLOAD_MES_LEN + disk'[h]
        /\ disk'[h] + entry'[c].filelen = Length[h]
    <3>1. sent[c] = wire[c] + entry[c].buflen
      BY <1>0, <1>1 DEF IInv, NothingLost
    <3>2. wire[c] \in Nat
      BY Fields DEF IInv
    <3>3. entry[c].buflen = UPLOAD_MES_LEN + rc
      BY <1>2 DEF rc
    <3> QED BY <3>1, <3>2, <3>3, <1>2, <1>3, <1>5, <1>6, <1>7
  <2>3. \A d \in sends : offset[d] <= disk'[HashOf[d]]
    <3>1. \A g \in Hash : disk[g] <= disk'[g]
      BY <1>0, <1>3, <1>6, <1>t DEF Absent
    <3>2. ASSUME NEW d \in sends PROVE offset[d] <= disk'[HashOf[d]]
      <4>1. d \in Conn /\ offset[d] <= disk[HashOf[d]]
        BY DEF IInv, Types, NothingLost
      <4>2. HashOf[d] \in Hash
        BY <4>1, Bounds
      <4>3. disk[HashOf[d]] <= disk'[HashOf[d]] /\ disk'[HashOf[d]] \in Int /\ disk[HashOf[d]] \in Int
        BY <4>2, <3>1, <1>6, <1>t DEF Absent
      <4>4. offset[d] \in Nat
        BY <4>1, Fields DEF IInv
      <4> QED BY <4>1, <4>3, <4>4
    <3> QED BY <3>2
  <2>4. \A d \in ToSet(recvs) : d # c => entry'[d].type = entry[d].type
    BY <1>5, <1>t
  <2> QED BY <2>1, <2>2, <2>3, <2>4, <1>0, <1>1, <1>5, <1>7 DEF NothingLost, h
<1> QED BY <1>9, <1>10, <1>11, <1>12, <1>13, <1>14, <1>15, <1>16, <1>17 DEF IInv

LEMMA MoreFileKeeps == ASSUME IInv, NEW c \in Conn, MoreFile(c) PROVE IInv'
<1> DEFINE h == HashOf[c]
           n == entry[c].buflen
           left == entry[c].filelen - n
           new == [type |-> "RECVFILE", buflen |-> 0, filelen |-> left]
<1>0. /\ pc = "periodic" /\ todo # <<>> /\ Head(todo) = c /\ Advance
      /\ entry[c].type = "RECVFILE" /\ n > 0
      /\ disk' = [disk EXCEPT ![h] = @ + n]
      /\ \/ left = 0 /\ stored' = stored \cup {h} /\ Drop(c)
         \/ /\ left # 0 /\ entry' = [entry EXCEPT ![c] = new]
            /\ UNCHANGED <<stored, readfds, recvs, writefds, sends, offset>>
  BY DEF MoreFile, At
<1>1. /\ c \in ToSet(recvs) /\ c \in ToSet(todo)
      /\ todo' \in Seq(Conn) /\ IsInjective(todo') /\ ToSet(todo') = ToSet(todo) \ {c}
      /\ ready = {} /\ ready' = {}
      /\ pc' \in {"select", "periodic"} /\ (pc' = "select" => todo' = <<>>)
      /\ UNCHANGED <<peer, sent, got, wire, inbox, backlog>>
  BY <1>0, Visited
<1>2. /\ h \in Hash /\ Length[h] \in Nat /\ UPLOAD_MES_LEN \in Nat /\ n \in Nat
      /\ entry[c].filelen \in Nat /\ disk[h] \in Nat
      /\ n <= entry[c].filelen /\ disk[h] + entry[c].filelen = Length[h]
      /\ sent[c] = wire[c] + n + UPLOAD_MES_LEN + disk[h]
      /\ wire[c] \in Nat /\ 0 < TCP_BUF_LEN /\ TCP_BUF_LEN \in Nat
  <2>1. KindOf[c] = "up"
    BY <1>0, <1>1 DEF IInv, Writes
  <2> QED BY <2>1, <1>0, <1>1, NeverTooMuch, Bounds, Fields, TransferAssumption DEF IInv
<1>3. left \in Nat /\ disk[h] + n <= Length[h] /\ left + (disk[h] + n) = Length[h]
  BY <1>2
<1>4. new \in Entry
  BY <1>2, <1>3 DEF Entry
<1>t. entry \in [Conn -> Entry] /\ disk \in [Hash -> Nat \cup {Absent}] /\ ToSet(recvs) \subseteq Conn
  BY ElementsOfSeq DEF IInv, Types
<1>n. new.type = "RECVFILE" /\ new.buflen = 0 /\ new.filelen = left
  OBVIOUS
<1> HIDE DEF n, left, new, h
<1>6. /\ disk' \in [Hash -> Nat \cup {Absent}] /\ disk'[h] = disk[h] + n
      /\ \A g \in Hash : g # h => disk'[g] = disk[g]
  BY <1>0, <1>2, <1>t
\* nobody else writes the file
<1>8. \A d \in ToSet(recvs) : entry[d].type = "RECVFILE" /\ d # c => HashOf[d] # h
  BY <1>0, <1>1 DEF IInv, OneWriter, h
\* and it has not been stored
<1>9. h \notin stored
  <2>1. disk[h] # Length[h]
    BY <1>0, <1>2
  <2> QED BY <2>1 DEF IInv, StoredIsWhole
<1>10. \A g \in Hash : disk'[g] <= Length[g]
  BY <1>3, <1>6 DEF IInv, Counts
<1>11. \A g \in Hash : disk[g] # Absent => disk'[g] # Absent
  BY <1>2, <1>6 DEF Absent
<1>12. \A d \in sends : offset[d] <= disk'[HashOf[d]]
  <2>1. \A g \in Hash : disk[g] <= disk'[g] /\ disk[g] \in Int /\ disk'[g] \in Int
    BY <1>2, <1>6, <1>t DEF Absent
  <2>2. ASSUME NEW d \in sends PROVE offset[d] <= disk'[HashOf[d]]
    <3>1. d \in Conn /\ offset[d] <= disk[HashOf[d]]
      BY DEF IInv, Types, NothingLost
    <3>2. HashOf[d] \in Hash
      BY <3>1, Bounds
    <3>3. disk[HashOf[d]] <= disk'[HashOf[d]] /\ disk'[HashOf[d]] \in Int /\ disk[HashOf[d]] \in Int
      BY <3>2, <2>1
    <3>4. offset[d] \in Nat
      BY <3>1, Fields DEF IInv
    <3> QED BY <3>1, <3>3, <3>4
  <2> QED BY <2>2
<1>13. \A d \in ToSet(recvs) : d # c =>
          /\ entry[d].type = "INIT" => sent[d] = wire[d] + entry[d].buflen
          /\ entry[d].type # "INIT" =>
               /\ sent[d] = wire[d] + entry[d].buflen + UPLOAD_MES_LEN + disk'[HashOf[d]]
               /\ disk'[HashOf[d]] + entry[d].filelen = Length[HashOf[d]]
  <2>1. ASSUME NEW d \in ToSet(recvs), d # c, entry[d].type # "INIT"
        PROVE  disk'[HashOf[d]] = disk[HashOf[d]]
    BY <2>1, <1>6, <1>8, <1>t, Fields, Bounds DEF IInv
  <2> QED BY <2>1 DEF IInv, NothingLost
<1>14. CASE left = 0
  <2>0. Drop(c) /\ stored' = stored \cup {h}
    BY <1>0, <1>14
  <2>1. /\ recvs' \in Seq(Conn) /\ IsInjective(recvs')
        /\ ToSet(recvs') = ToSet(recvs) \ {c} /\ readfds' = readfds \ {c}
        /\ UNCHANGED <<writefds, sends, entry, offset>>
    BY <2>0, <1>1, DropOne
  <2>2. Types'
    BY <2>0, <2>1, <1>1, <1>2, <1>6 DEF IInv, Types
  <2>3. Counts'
    BY <2>1, <1>1, <1>10 DEF IInv, Counts
  <2>4. Places' /\ Visits'
    BY <2>1, <1>0, <1>1 DEF IInv, Places, Visits
  <2>5. KnownFds' /\ RoomToReceive'
    BY <2>1, <1>1 DEF IInv, KnownFds, RoomToReceive
  <2>6. Writes'
    BY <2>1, <1>11, <1>t, Bounds DEF IInv, Writes
  <2>7. StoredIsWhole'
    <3>1. disk'[h] = Length[h]
      BY <1>2, <1>3, <1>6, <1>14
    <3> QED BY <3>1, <2>0, <1>6, <1>9 DEF IInv, Types, StoredIsWhole
  <2>8. OneWriter'
    BY <2>1 DEF IInv, OneWriter
  <2>9. NothingLost'
    BY <2>1, <1>1, <1>12, <1>13 DEF NothingLost
  <2> QED BY <2>2, <2>3, <2>4, <2>5, <2>6, <2>7, <2>8, <2>9 DEF IInv
<1>15. CASE left # 0
  <2>0. /\ entry' = [entry EXCEPT ![c] = new]
        /\ UNCHANGED <<stored, readfds, recvs, writefds, sends, offset>>
    BY <1>0, <1>15
  <2>1. /\ entry' \in [Conn -> Entry] /\ entry'[c] = new
        /\ \A d \in Conn : d # c => entry'[d] = entry[d]
    BY <2>0, <1>4, <1>t
  <2>2. Types'
    BY <2>0, <2>1, <1>1, <1>6 DEF IInv, Types
  <2>3. Counts'
    BY <2>0, <1>1, <1>10 DEF IInv, Counts
  <2>4. Places'
    BY <2>0, <1>1 DEF IInv, Places
  <2>5. Visits'
    BY <2>0, <2>1, <1>0, <1>1, <1>2, <1>n, <1>t DEF IInv, Visits
  <2>6. KnownFds' /\ RoomToReceive'
    BY <2>0, <1>1 DEF IInv, KnownFds, RoomToReceive
  <2>7. Writes'
    <3>1. KindOf[c] = "up" /\ disk'[h] # Absent
      BY <1>0, <1>1, <1>2, <1>11 DEF IInv, Writes, Absent
    <3> QED BY <3>1, <2>0, <2>1, <1>11, <1>t, Bounds DEF IInv, Writes, h
  <2>8. StoredIsWhole'
    BY <2>0, <1>6, <1>9 DEF IInv, Types, StoredIsWhole
  <2>9. OneWriter'
    BY <2>0, <2>1, <1>8, <1>t DEF IInv, OneWriter, h
  <2>10. /\ sent[c] = wire[c] + new.buflen + UPLOAD_MES_LEN + disk'[h]
         /\ disk'[h] + new.filelen = Length[h]
    BY <1>2, <1>3, <1>6, <1>n
  <2>11. \A d \in ToSet(recvs) : d # c => entry'[d] = entry[d]
    BY <2>1, <1>t
  <2>12. NothingLost'
    BY <2>0, <2>1, <2>10, <2>11, <1>1, <1>12, <1>13, <1>n DEF NothingLost, h
  <2> QED BY <2>2, <2>3, <2>4, <2>5, <2>6, <2>7, <2>8, <2>9, <2>12 DEF IInv
<1> QED BY <1>14, <1>15

-----------------------------------------------------------------------------
(* The theorems. *)

LEMMA StepKeeps == IInv /\ [Next]_vars => IInv'
<1> SUFFICES ASSUME IInv, [Next]_vars PROVE IInv'
  OBVIOUS
<1>1. CASE Select
  BY <1>1, SelectKeeps
<1>2. CASE Accept
  BY <1>2, AcceptKeeps
<1>3. CASE StartPeriodic
  BY <1>3, StartPeriodicKeeps
<1>4. ASSUME NEW c \in Conn, Visit(c) PROVE IInv'
  BY <1>4, RecvKeeps, SendKeeps DEF Visit
<1>5. ASSUME NEW c \in Conn, Periodic(c) PROVE IInv'
  BY <1>5, WaitKeeps, RefuseKeeps, StartFileKeeps, StartSendKeeps, MoreFileKeeps DEF Periodic
<1>6. ASSUME NEW c \in Conn, Peer(c) PROVE IInv'
  BY <1>6, ConnectKeeps, PeerSendKeeps, UploadedKeeps, ReceiveKeeps, DieKeeps DEF Peer
<1>7. CASE UNCHANGED vars
  <2>1. /\ UNCHANGED <<peer, sent, got, wire, inbox, backlog, disk, stored, pc, ready, todo>>
        /\ UNCHANGED <<readfds, writefds, recvs, sends, entry, offset>>
    BY <1>7 DEF vars, peerVars, netVars, tcpVars, fileVars, loopVars
  <2>2. Types' /\ Counts' /\ Places' /\ Visits' /\ Writes'
    BY <2>1 DEF IInv, Types, Counts, Places, Visits, Writes
  <2>3. KnownFds' /\ RoomToReceive' /\ StoredIsWhole' /\ OneWriter' /\ NothingLost'
    BY <2>1 DEF IInv, KnownFds, RoomToReceive, StoredIsWhole, OneWriter, NothingLost
  <2> QED BY <2>2, <2>3 DEF IInv
<1> QED BY <1>1, <1>2, <1>3, <1>4, <1>5, <1>6, <1>7 DEF Next, Daemon

LEMMA TypesGiveTypeOK == IInv => TypeOK
<1> SUFFICES ASSUME IInv PROVE TypeOK
  OBVIOUS
<1>1. readfds \subseteq Conn /\ writefds \subseteq Conn
  BY ElementsOfSeq DEF IInv, Types, KnownFds
<1>2. ASSUME NEW c \in Conn
      PROVE  /\ sent[c] \in 0 .. Total(c) /\ wire[c] \in 0 .. Total(c)
             /\ inbox[c] \in 0 .. WINDOW
             /\ got[c] \in 0 .. Length[HashOf[c]] /\ offset[c] \in 0 .. Length[HashOf[c]]
  <2>1. /\ sent[c] \in Nat /\ wire[c] \in Nat /\ inbox[c] \in Nat
        /\ got[c] \in Nat /\ offset[c] \in Nat
    BY Fields DEF IInv
  <2>2. Total(c) \in Nat /\ Length[HashOf[c]] \in Nat /\ WINDOW \in Nat
    BY Bounds, TransferAssumption
  <2>3. /\ wire[c] <= sent[c] /\ sent[c] <= Total(c) /\ inbox[c] <= WINDOW
        /\ got[c] + inbox[c] <= offset[c] /\ offset[c] <= Length[HashOf[c]]
    BY DEF IInv, Counts
  <2> QED BY <2>1, <2>2, <2>3
<1>3. ASSUME NEW h \in Hash PROVE disk[h] \in Absent .. Length[h]
  <2>1. disk[h] \in Nat \cup {-1} /\ Length[h] \in Nat
    BY TransferAssumption DEF IInv, Types, Absent
  <2>2. disk[h] <= Length[h]
    BY DEF IInv, Counts
  <2> QED BY <2>1, <2>2 DEF Absent
<1> QED BY <1>1, <1>2, <1>3 DEF IInv, Types, TypeOK

\* Every step of a peer and of the daemon's loop keeps the invariant.
THEOREM Invariance == Spec => []IInv
BY Starts, StepKeeps, PTL DEF Spec

\* ListsAgree: select is given exactly the descriptors of the two lists, each
\* in one of them once, and recv is never called with a full buffer.
THEOREM ListsAlwaysAgree == Spec => []ListsAgree
<1>1. IInv => ListsAgree
  BY TypesGiveTypeOK DEF IInv, ListsAgree
<1> QED BY <1>1, Invariance, PTL

\* StoredIsWhole: dht_storage_store is called only for a file that is whole on
\* the disk, and nothing writes the file after that.
THEOREM StoredAreWhole == Spec => []StoredIsWhole
<1>1. IInv => StoredIsWhole
  BY DEF IInv
<1> QED BY <1>1, Invariance, PTL

\* OneWriter: two uploads of a file are never both written.
THEOREM NeverTwoWriters == Spec => []OneWriter
<1>1. IInv => OneWriter
  BY DEF IInv
<1> QED BY <1>1, Invariance, PTL

\* NothingLost: every unit an upload has sent is on the wire, in its buffer or
\* on the disk, and filelen is what remains of the file.
THEOREM NothingIsLost == Spec => []NothingLost
<1>1. IInv => NothingLost
  BY DEF IInv
<1> QED BY <1>1, Invariance, PTL

=============================================================================
