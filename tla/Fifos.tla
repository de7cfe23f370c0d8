------------------------------- MODULE Fifos -------------------------------
(* The named pipes between the clients and the daemon of one host           *)
(* (dht_daemon.h): one server FIFO of requests, one FIFO of answers per     *)
(* client.  A FIFO keeps its order and loses nothing; opening one end       *)
(* blocks until the other end is open or being opened.                      *)
EXTENDS Naturals, Sequences

CONSTANTS
    Client,      \* the client processes that will run
    Hash,        \* the info hashes of the files they name
    HashOf,      \* the hash of the file a client is started with
    KindOf       \* what it is started for: "get" or "up"

ASSUME FifosAssumption ==
    /\ HashOf \in [Client -> Hash]
    /\ KindOf \in [Client -> {"get", "up"}]

VARIABLES
    server,      \* requests in the server FIFO
    answers,     \* answers in the FIFO of each client
    reader,      \* whether the client is opening, or holds, the read end
    writer       \* the daemon's write end: "none" yet, "open" or "closed"

fifoVars == <<server, answers, reader, writer>>

\* struct server_answer: a NODE answer carries an address; `about' is the hash
\* whose search produced it, which the program does not send.
Answer == [type : {"NODE", "DONE", "TOO_MUCH"}, about : Hash]

\* After such an answer the daemon closes the FIFO.
Final(a) == a.type \in {"DONE", "TOO_MUCH"}

FifosType ==
    /\ server \in Seq(Client)
    /\ answers \in [Client -> Seq(Answer)]
    /\ reader \in [Client -> BOOLEAN]
    /\ writer \in [Client -> {"none", "open", "closed"}]

FifosInit ==
    /\ server = <<>>
    /\ answers = [c \in Client |-> <<>>]
    /\ reader = [c \in Client |-> FALSE]
    /\ writer = [c \in Client |-> "none"]
=============================================================================
