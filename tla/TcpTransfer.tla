---------------------------- MODULE TcpTransfer ----------------------------
(* The file transfers of one daemon: the lists tcp_recv and tcp_send, the   *)
(* TCP part of the main loop and tcp_periodic (src/dht/dht_daemon.c), with  *)
(* the peers, which run handle or upload of src/dht/client.c.               *)
(*                                                                          *)
(* Bytes come in units: an upload is a header of UPLOAD_MES_LEN units and   *)
(* then the file, a download a request of DOWNLOAD_MES_LEN units.  A hash   *)
(* stands for its file and its name.                                        *)
EXTENDS Integers, Sequences, SequencesExt

CONSTANTS
    Conn,               \* the connections that will be made
    Hash,
    HashOf,             \* the file a connection is about
    KindOf,             \* "up" or "down"
    Length,             \* the length of each file
    UPLOAD_MES_LEN,
    DOWNLOAD_MES_LEN,
    TCP_BUF_LEN,
    WINDOW,             \* units a peer's receive buffer holds
    Mortal              \* the connections whose peers may be killed

ASSUME TransferAssumption ==
    /\ HashOf \in [Conn -> Hash] /\ KindOf \in [Conn -> {"up", "down"}]
    /\ Length \in [Hash -> Nat]
    /\ UPLOAD_MES_LEN \in Nat \ {0} /\ DOWNLOAD_MES_LEN \in Nat \ {0}
    /\ TCP_BUF_LEN \in Nat
    /\ TCP_BUF_LEN >= UPLOAD_MES_LEN /\ TCP_BUF_LEN > DOWNLOAD_MES_LEN
    /\ WINDOW \in Nat \ {0}
    /\ Mortal \subseteq Conn

VARIABLES
    peer,       \* the process at the other end: new, busy, done, failed, killed
    sent,       \* units it has sent
    wire,       \* units sent that the daemon has not received
    inbox,      \* units from the daemon that it has not received
    got,        \* units it has received
    backlog,    \* connections to be accepted
    readfds, writefds,
    recvs,      \* recv_storage, most recent first
    sends,      \* send_storage
    entry,      \* the struct tcp_recv of a connection
    offset,     \* units of the file sent to it
    disk,       \* the length on disk of each file, or Absent
    stored,     \* the hashes given to dht_storage_store
    pc,         \* the daemon: in select, accept, the descriptors, tcp_periodic
    ready,      \* the descriptors select returned, still to be visited
    todo        \* the entries tcp_periodic has still to visit

peerVars == <<peer, sent, got>>
netVars == <<wire, inbox, backlog>>
tcpVars == <<readfds, writefds, recvs, sends, entry, offset>>
fileVars == <<disk, stored>>
loopVars == <<pc, ready, todo>>
vars == <<peerVars, netVars, tcpVars, fileVars, loopVars>>

Absent == -1

Message(c) == IF KindOf[c] = "up" THEN UPLOAD_MES_LEN ELSE DOWNLOAD_MES_LEN
Total(c) == IF KindOf[c] = "up" THEN UPLOAD_MES_LEN + Length[HashOf[c]] ELSE DOWNLOAD_MES_LEN

\* The descriptors the daemon holds.
Open == ToSet(recvs) \cup sends
Accepted(c) == peer[c] # "new" /\ c \notin backlog
Shut(c) == Accepted(c) /\ c \notin Open
Hungup(c) == peer[c] \in {"done", "failed", "killed"}

FreshEntry == [type |-> "INIT", buflen |-> 0, filelen |-> 0]

Init ==
    /\ peer = [c \in Conn |-> "new"] /\ sent = [c \in Conn |-> 0]
    /\ got = [c \in Conn |-> 0]
    /\ wire = [c \in Conn |-> 0] /\ inbox = [c \in Conn |-> 0]
    /\ backlog = {} /\ readfds = {} /\ writefds = {} /\ recvs = <<>> /\ sends = {}
    /\ entry = [c \in Conn |-> FreshEntry] /\ offset = [c \in Conn |-> 0]
    /\ disk = [h \in Hash |-> Absent] /\ stored = {}
    /\ pc = "select" /\ ready = {} /\ todo = <<>>

-----------------------------------------------------------------------------
(* The peers: upload and handle of client.c.                                *)

daemonVars == <<tcpVars, fileVars, loopVars>>

Connect(c) ==
    /\ peer[c] = "new"
    /\ peer' = [peer EXCEPT ![c] = "busy"]
    /\ backlog' = backlog \cup {c}
    /\ UNCHANGED <<sent, got, wire, inbox, daemonVars>>

\* send; it fails once the daemon has closed the connection.
PeerSend(c) ==
    /\ peer[c] = "busy" /\ sent[c] < Total(c)
    /\ IF Shut(c)
       THEN peer' = [peer EXCEPT ![c] = "failed"] /\ UNCHANGED <<sent, wire>>
       ELSE /\ sent' = [sent EXCEPT ![c] = @ + 1]
            /\ wire' = [wire EXCEPT ![c] = @ + 1]
            /\ UNCHANGED peer
    /\ UNCHANGED <<got, inbox, backlog, daemonVars>>

\* An upload has sent its file: close and exit(EXIT_SUCCESS).
Uploaded(c) ==
    /\ peer[c] = "busy" /\ KindOf[c] = "up" /\ sent[c] = Total(c)
    /\ peer' = [peer EXCEPT ![c] = "done"]
    /\ UNCHANGED <<sent, got, netVars, daemonVars>>

\* A download receives, and takes the end of the stream for success.
Receive(c) ==
    /\ peer[c] = "busy" /\ KindOf[c] = "down" /\ sent[c] = Total(c)
    /\ IF inbox[c] > 0
       THEN /\ got' = [got EXCEPT ![c] = @ + 1]
            /\ inbox' = [inbox EXCEPT ![c] = @ - 1]
            /\ UNCHANGED peer
       ELSE /\ Shut(c)
            /\ peer' = [peer EXCEPT ![c] = "done"]
            /\ UNCHANGED <<got, inbox>>
    /\ UNCHANGED <<sent, wire, backlog, daemonVars>>

Die(c) ==
    /\ c \in Mortal /\ peer[c] = "busy"
    /\ peer' = [peer EXCEPT ![c] = "killed"]
    /\ inbox' = [inbox EXCEPT ![c] = 0]
    /\ UNCHANGED <<sent, got, wire, backlog, daemonVars>>

-----------------------------------------------------------------------------
(* The daemon.                                                              *)

Readable(c) == wire[c] > 0 \/ Hungup(c)
Writable(c) == inbox[c] < WINDOW \/ Hungup(c)

\* select.  tcp_s comes before the descriptors it has accepted; the order of
\* those is left open.
Select ==
    /\ pc = "select"
    /\ ready' = {c \in readfds : Readable(c)} \cup {c \in writefds : Writable(c)}
    /\ backlog # {} \/ ready' # {}
    /\ pc' = IF backlog # {} THEN "accept" ELSE "fds"
    /\ UNCHANGED <<peerVars, netVars, tcpVars, fileVars, todo>>

\* accept and tcp_recv_store until there is nobody left to accept
Accept ==
    /\ pc = "accept"
    /\ \E order \in SetToSeqs(backlog) : recvs' = order \o recvs
    /\ entry' = [c \in Conn |-> IF c \in backlog THEN FreshEntry ELSE entry[c]]
    /\ readfds' = readfds \cup backlog
    /\ backlog' = {}
    /\ pc' = "fds"
    /\ UNCHANGED <<peerVars, wire, inbox, writefds, sends, offset, fileVars, ready, todo>>

Without(c) == RemoveFirst(recvs, c)

\* Mutant of Drop: FD_CLR is forgotten.
DropSet(c) ==
    /\ recvs' = Without(c)
    /\ UNCHANGED <<readfds, writefds, sends, entry, offset>>

\* remove_tcp_recv with the descriptor closed, and FD_CLR
Drop(c) ==
    /\ recvs' = Without(c)
    /\ readfds' = readfds \ {c}
    /\ UNCHANGED <<writefds, sends, entry, offset>>

\* One recv, of what has come and fits.  A recv for 0 units would return 0, as
\* it does at the end of the stream.
Recv(c, n) ==
    /\ pc = "fds" /\ c \in ready /\ c \in ToSet(recvs)
    /\ IF n > 0
       THEN /\ n <= wire[c] /\ n <= TCP_BUF_LEN - entry[c].buflen
            /\ wire' = [wire EXCEPT ![c] = @ - n]
            /\ entry' = [entry EXCEPT ![c] =
                  [type |-> entry[c].type, buflen |-> entry[c].buflen + n,
                   filelen |-> entry[c].filelen]]
            /\ UNCHANGED <<readfds, recvs, writefds, sends, offset>>
       ELSE /\ wire[c] = 0 \/ entry[c].buflen = TCP_BUF_LEN
            /\ Drop(c) /\ UNCHANGED wire
    /\ ready' = ready \ {c}
    /\ UNCHANGED <<peerVars, inbox, backlog, fileVars, pc, todo>>

\* read and send in a loop that only the end of the file, or an error, ends:
\* the socket is a blocking one, and send waits for the peer to make room.
Send(c) ==
    /\ pc = "fds" /\ c \in ready /\ c \in sends
    /\ IF Hungup(c) \/ offset[c] = disk[HashOf[c]]
       THEN /\ writefds' = writefds \ {c} /\ sends' = sends \ {c}
            /\ ready' = ready \ {c}
            /\ UNCHANGED <<inbox, offset>>
       ELSE /\ inbox[c] < WINDOW
            /\ inbox' = [inbox EXCEPT ![c] = @ + 1]
            /\ offset' = [offset EXCEPT ![c] = @ + 1]
            /\ UNCHANGED <<writefds, sends, ready>>
    /\ UNCHANGED <<peerVars, wire, backlog, readfds, recvs, entry, fileVars, pc, todo>>

\* The descriptors have been visited: tcp_periodic starts.
StartPeriodic ==
    /\ pc = "fds" /\ ready = {}
    /\ todo' = recvs
    /\ pc' = IF recvs = <<>> THEN "select" ELSE "periodic"
    /\ UNCHANGED <<peerVars, netVars, tcpVars, fileVars, ready>>

\* The next entry, or back to select after the last.
Advance ==
    /\ todo' = Tail(todo)
    /\ pc' = IF Tail(todo) = <<>> THEN "select" ELSE "periodic"
    /\ UNCHANGED <<peerVars, netVars, ready>>

At(c, type) == pc = "periodic" /\ todo # <<>> /\ Head(todo) = c /\ entry[c].type = type

Incomplete(c) ==
    \/ At(c, "INIT") /\ entry[c].buflen < Message(c)
    \/ At(c, "RECVFILE") /\ entry[c].buflen = 0

\* break: wait for more
Wait(c) == Incomplete(c) /\ Advance /\ UNCHANGED <<tcpVars, fileVars>>

\* The file is there, or for a download it is not, or more than the request
\* has come.  file_storage_num stays 0 and refuses nothing.
Refuse(c) ==
    /\ At(c, "INIT") /\ entry[c].buflen >= Message(c)
    /\ IF KindOf[c] = "up" THEN disk[HashOf[c]] # Absent
       ELSE entry[c].buflen # Message(c) \/ disk[HashOf[c]] = Absent
    /\ Drop(c) /\ Advance
    /\ UNCHANGED fileVars

\* Mutants of StartFile: over a file that is there; what came with the header
\* counted but not written.
StartFileOver(c) ==
    /\ At(c, "INIT") /\ KindOf[c] = "up" /\ entry[c].buflen >= Message(c)
    /\ LET rc == entry[c].buflen - UPLOAD_MES_LEN
       IN /\ disk' = [disk EXCEPT ![HashOf[c]] = IF @ < rc THEN rc ELSE @]
          /\ entry' = [entry EXCEPT ![c] =
                [type |-> "RECVFILE", buflen |-> 0,
                 filelen |-> Length[HashOf[c]] - rc]]
    /\ Advance
    /\ UNCHANGED <<readfds, writefds, recvs, sends, offset, stored>>

StartFileForgets(c) ==
    /\ At(c, "INIT") /\ KindOf[c] = "up"
    /\ entry[c].buflen >= Message(c) /\ disk[HashOf[c]] = Absent
    /\ disk' = [disk EXCEPT ![HashOf[c]] = 0]
    /\ entry' = [entry EXCEPT ![c] =
          [type |-> "RECVFILE", buflen |-> 0,
           filelen |-> Length[HashOf[c]] - (entry[c].buflen - UPLOAD_MES_LEN)]]
    /\ Advance
    /\ UNCHANGED <<readfds, writefds, recvs, sends, offset, stored>>

\* An upload: the file is created and what came with the header written.
StartFile(c) ==
    /\ At(c, "INIT") /\ KindOf[c] = "up"
    /\ entry[c].buflen >= Message(c) /\ disk[HashOf[c]] = Absent
    /\ LET rc == entry[c].buflen - UPLOAD_MES_LEN
       IN /\ disk' = [disk EXCEPT ![HashOf[c]] = rc]
          /\ entry' = [entry EXCEPT ![c] =
                [type |-> "RECVFILE", buflen |-> 0,
                 filelen |-> Length[HashOf[c]] - rc]]
    /\ Advance
    /\ UNCHANGED <<readfds, writefds, recvs, sends, offset, stored>>

\* Mutant of StartSend: FD_SET is forgotten.
StartSendUnset(c) ==
    /\ At(c, "INIT") /\ KindOf[c] = "down"
    /\ entry[c].buflen = Message(c) /\ disk[HashOf[c]] # Absent
    /\ sends' = sends \cup {c}
    /\ recvs' = Without(c) /\ readfds' = readfds \ {c}
    /\ Advance
    /\ UNCHANGED <<writefds, entry, offset, fileVars>>

\* A download: the connection moves to send_storage and the write set.
StartSend(c) ==
    /\ At(c, "INIT") /\ KindOf[c] = "down"
    /\ entry[c].buflen = Message(c) /\ disk[HashOf[c]] # Absent
    /\ sends' = sends \cup {c} /\ writefds' = writefds \cup {c}
    /\ recvs' = Without(c) /\ readfds' = readfds \ {c}
    /\ Advance
    /\ UNCHANGED <<entry, offset, fileVars>>

\* Mutant of MoreFile: filelen is tested before it is updated.
MoreFileEarly(c) ==
    /\ At(c, "RECVFILE") /\ entry[c].buflen > 0
    /\ disk' = [disk EXCEPT ![HashOf[c]] = @ + entry[c].buflen]
    /\ IF entry[c].filelen = 0
       THEN stored' = stored \cup {HashOf[c]} /\ Drop(c)
       ELSE /\ entry' = [entry EXCEPT ![c].buflen = 0, ![c].filelen = @ - entry[c].buflen]
            /\ UNCHANGED <<stored, readfds, recvs, writefds, sends, offset>>
    /\ Advance

\* More of a file: once nothing of it remains it is stored in the DHT and the
\* connection closed.
MoreFile(c) ==
    /\ At(c, "RECVFILE") /\ entry[c].buflen > 0
    /\ LET left == entry[c].filelen - entry[c].buflen
       IN /\ disk' = [disk EXCEPT ![HashOf[c]] = @ + entry[c].buflen]
          /\ IF left = 0
             THEN stored' = stored \cup {HashOf[c]} /\ Drop(c)
             ELSE /\ entry' = [entry EXCEPT ![c] =
                        [type |-> "RECVFILE", buflen |-> 0, filelen |-> left]]
                  /\ UNCHANGED <<stored, readfds, recvs, writefds, sends, offset>>
    /\ Advance

Peer(c) == Connect(c) \/ PeerSend(c) \/ Uploaded(c) \/ Receive(c) \/ Die(c)

Visit(c) == (\E n \in 0..TCP_BUF_LEN : Recv(c, n)) \/ Send(c)

Periodic(c) == Wait(c) \/ Refuse(c) \/ StartFile(c) \/ StartSend(c) \/ MoreFile(c)

Daemon ==
    \/ Select
    \/ Accept
    \/ StartPeriodic
    \/ \E c \in Conn : Visit(c) \/ Periodic(c)

Next == Daemon \/ \E c \in Conn : Peer(c)

Spec == Init /\ [][Next]_vars

\* The daemon's loop runs; a peer that lives sends, receives and closes.
FairSpec ==
    /\ Spec /\ WF_vars(Daemon)
    /\ \A c \in Conn : WF_vars(PeerSend(c) \/ Uploaded(c) \/ Receive(c))

-----------------------------------------------------------------------------
Entry == [type : {"INIT", "RECVFILE"}, buflen : 0..TCP_BUF_LEN, filelen : Nat]

TypeOK ==
    /\ peer \in [Conn -> {"new", "busy", "done", "failed", "killed"}]
    /\ \A c \in Conn : /\ sent[c] \in 0..Total(c) /\ wire[c] \in 0..Total(c)
                      /\ inbox[c] \in 0..WINDOW
                      /\ got[c] \in 0..Length[HashOf[c]]
                      /\ offset[c] \in 0..Length[HashOf[c]]
    /\ backlog \subseteq Conn /\ readfds \subseteq Conn /\ writefds \subseteq Conn
    /\ recvs \in Seq(Conn) /\ sends \subseteq Conn
    /\ entry \in [Conn -> Entry]
    /\ \A h \in Hash : disk[h] \in Absent..Length[h]
    /\ stored \subseteq Hash
    /\ pc \in {"select", "accept", "fds", "periodic"}
    /\ ready \subseteq Conn /\ todo \in Seq(Conn)

\* The sets given to select are exactly the descriptors of the two lists, each
\* in one list once: select never returns a descriptor that is in neither
\* (the daemon exits), and none is left behind closed.
KnownFds ==
    /\ readfds = ToSet(recvs) /\ writefds = sends
    /\ ToSet(recvs) \cap sends = {}
    /\ IsInjective(recvs)
    /\ ready \subseteq readfds \cup writefds

\* recv is never called with a full buffer, for it would return 0, which the
\* loop takes for the end of the stream.
RoomToReceive ==
    \A c \in ready \cap readfds : entry[c].buflen < TCP_BUF_LEN

\* The lists, the sets of descriptors and the buffers agree.
ListsAgree == TypeOK /\ KnownFds /\ RoomToReceive

\* A file is announced to the DHT only when all of it is on the disk.
StoredIsWhole == \A h \in stored : disk[h] = Length[h]

\* One upload at a time writes a file, from its start.
OneWriter ==
    \A c, d \in ToSet(recvs) :
        (entry[c].type = "RECVFILE" /\ entry[d].type = "RECVFILE"
            /\ HashOf[c] = HashOf[d]) => c = d

\* Whatever an uploader has sent is on the wire, in the buffer or on the disk,
\* and filelen counts what is missing of the file; what a downloader was sent
\* is the start of what is on the disk.
NothingLost ==
    /\ \A c \in ToSet(recvs) :
         IF entry[c].type = "INIT" THEN sent[c] = wire[c] + entry[c].buflen
         ELSE LET h == HashOf[c]
              IN /\ sent[c] = wire[c] + entry[c].buflen + UPLOAD_MES_LEN + disk[h]
                 /\ disk[h] + entry[c].filelen = Length[h]
    /\ \A c \in sends : offset[c] <= disk[HashOf[c]]

\* Every connection made is closed in the end, whenever its peer dies.  The
\* fairness of Receive and PeerSend excludes a downloader that lives and stops
\* reading, and an uploader that lives and stops sending: the daemon has no
\* timeout for either and keeps their connections.
EveryConnectionEnds == \A c \in Conn : c \in backlog ~> Shut(c)

\* An upload of which something was still missing after the header's recv is
\* stored, if its peer lives.
RestIsStored ==
    \A c \in Conn :
        (c \in ToSet(recvs) /\ entry[c].type = "RECVFILE" /\ entry[c].filelen > 0)
            ~> (HashOf[c] \in stored \/ peer[c] = "killed")

=============================================================================
