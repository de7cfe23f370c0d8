--------------------------- MODULE RequestDaemon ---------------------------
(* The part of src/dht/dht_daemon.c that serves the clients of its host:    *)
(* handle_request, the callback of the DHT, and the turns of the main loop  *)
(* that call them.  Of a DHT search only its progress is kept; DhtSearch    *)
(* is about what happens inside one.                                        *)
EXTENDS Fifos

CONSTANTS
    MAX_REQUEST,
    MaxNodes,    \* BOUND: NODE callbacks of one datagram or one dht_search
    MaxAnswers,  \* BOUND: answers waiting in one client FIFO
    LateReplies, \* whether nodes still reply once a search is over
    MayStop      \* whether the daemon may be terminated by a signal

ASSUME DaemonAssumption ==
    /\ MAX_REQUEST \in Nat /\ MaxNodes \in Nat /\ MaxAnswers \in Nat
    /\ LateReplies \in BOOLEAN /\ MayStop \in BOOLEAN

VARIABLES
    pc,          \* in select, in the open of handle_request, at the flags, ...
    req,         \* the client whose request is held in `req'
    requests,    \* the list of pending requests, most recent first
    request_num,
    search       \* the state of each hash's search

daemonVars == <<pc, req, requests, request_num, search>>

NoRequest == "no request"

DaemonType ==
    /\ pc \in {"select", "open", "flags", "crashed", "stopped"}
    /\ req \in Client \cup {NoRequest}
    /\ pc \in {"open", "flags"} => req \in Client
    /\ requests \in Seq(Client)
    /\ request_num \in 0..MAX_REQUEST
    /\ search \in [Hash -> {"none", "running", "done"}]

DaemonInit ==
    /\ pc = "select" /\ req = NoRequest /\ requests = <<>> /\ request_num = 0
    /\ search = [h \in Hash |-> "none"]

Nodes(h, k) == [i \in 1..k |-> [type |-> "NODE", about |-> h]]
Done(h) == <<[type |-> "DONE", about |-> h]>>

\* write on the FIFO of c; without a reader it fails with EPIPE, unnoticed.
Written(c, s) ==
    IF reader[c] THEN [answers EXCEPT ![c] = @ \o s] ELSE answers

RoomIn(c, n) == reader[c] => Len(answers[c]) + n <= MaxAnswers

\* callback: NODE and DONE go to the head of the list; DONE closes its FIFO and
\* then drops the whole list.
TellNodes(h, k) ==
    /\ RoomIn(Head(requests), k)
    /\ answers' = Written(Head(requests), Nodes(h, k))
    /\ UNCHANGED <<requests, writer>>

\* Mutants of TellDone: the list is kept; the answer is not sent.
TellDoneKeeping(h, k, g) ==
    /\ RoomIn(Head(requests), k + 1)
    /\ answers' = Written(Head(requests), Nodes(h, k) \o Done(g))
    /\ writer' = [writer EXCEPT ![Head(requests)] = "closed"]
    /\ UNCHANGED requests

TellDoneUnsent(h, k, g) ==
    /\ RoomIn(Head(requests), k)
    /\ answers' = Written(Head(requests), Nodes(h, k))
    /\ writer' = [writer EXCEPT ![Head(requests)] = "closed"]
    /\ requests' = <<>>

TellDone(h, k, g) ==
    /\ RoomIn(Head(requests), k + 1)
    /\ answers' = Written(Head(requests), Nodes(h, k) \o Done(g))
    /\ writer' = [writer EXCEPT ![Head(requests)] = "closed"]
    /\ requests' = <<>>

\* The process ends: the system closes its descriptors.
CloseAll == writer' = [c \in Client |-> IF writer[c] = "none" THEN "none" ELSE "closed"]

\* The callbacks of one dht_periodic: k nodes about h, then the end of the
\* searches in D, in some order.  With no pending request `requests->clientfd'
\* is a NULL dereference, and the first DONE leaves none pending.
Callbacks(h, k, D, next) ==
    \/ /\ k = 0 /\ D = {} /\ pc' = next
       /\ UNCHANGED <<requests, answers, writer>>
    \/ /\ k > 0 /\ D = {} /\ requests # <<>> /\ pc' = next
       /\ TellNodes(h, k)
    \/ /\ requests # <<>> /\ pc' = next
       /\ \E g \in D : D = {g} /\ TellDone(h, k, g)
    \/ /\ requests # <<>> /\ pc' = "crashed"
       /\ \E g \in D : /\ D # {g}
                       /\ RoomIn(Head(requests), k + 1)
                       /\ answers' = Written(Head(requests), Nodes(h, k) \o Done(g))
       /\ CloseAll /\ UNCHANGED requests
    \/ /\ requests = <<>> /\ (k > 0 \/ D # {}) /\ pc' = "crashed"
       /\ CloseAll /\ UNCHANGED <<requests, answers>>

Answering(h) == search[h] = "running" \/ (LateReplies /\ search[h] = "done")

\* One turn of the loop: at most one request is read, then dht_periodic runs.
Turn(take, h, k, D) ==
    /\ pc = "select"
    /\ take => server # <<>>
    /\ k > 0 => Answering(h)
    /\ D \subseteq {g \in Hash : search[g] = "running"}
    /\ server' = IF take THEN Tail(server) ELSE server
    /\ req' = IF take THEN Head(server) ELSE req
    /\ search' = [g \in Hash |-> IF g \in D THEN "done" ELSE search[g]]
    /\ Callbacks(h, k, D, IF take THEN "open" ELSE "select")
    /\ UNCHANGED <<reader, request_num>>

\* handle_request; its open waits for the client to open the read end.
Refuse ==
    /\ pc = "open" /\ reader[req] /\ request_num >= MAX_REQUEST
    /\ answers' = Written(req, <<[type |-> "TOO_MUCH", about |-> HashOf[req]]>>)
    /\ writer' = [writer EXCEPT ![req] = "closed"]
    /\ pc' = "select"
    /\ UNCHANGED <<server, reader, req, requests, request_num, search>>

\* Mutants of Accept: not counted; in place of the list.
AcceptUncounted ==
    /\ pc = "open" /\ reader[req] /\ request_num < MAX_REQUEST
    /\ writer' = [writer EXCEPT ![req] = "open"]
    /\ requests' = <<req>> \o requests
    /\ pc' = "flags"
    /\ UNCHANGED <<server, answers, reader, req, request_num, search>>

AcceptAlone ==
    /\ pc = "open" /\ reader[req] /\ request_num < MAX_REQUEST
    /\ writer' = [writer EXCEPT ![req] = "open"]
    /\ requests' = <<req>>
    /\ request_num' = request_num + 1
    /\ pc' = "flags"
    /\ UNCHANGED <<server, answers, reader, req, search>>

Accept ==
    /\ pc = "open" /\ reader[req] /\ request_num < MAX_REQUEST
    /\ writer' = [writer EXCEPT ![req] = "open"]
    /\ requests' = <<req>> \o requests
    /\ request_num' = request_num + 1
    /\ pc' = "flags"
    /\ UNCHANGED <<server, answers, reader, req, search>>

\* `searching' or `uploading' is set: dht_search tells the k peers stored here
\* and starts or restarts the search, which may end at once.
Launch(k, atOnce) ==
    /\ pc = "flags"
    /\ pc' = "select"
    /\ search' = [search EXCEPT ![HashOf[req]] = IF atOnce THEN "done" ELSE "running"]
    /\ IF atOnce THEN TellDone(HashOf[req], k, HashOf[req]) ELSE TellNodes(HashOf[req], k)
    /\ UNCHANGED <<server, reader, req, request_num>>

\* sigexit
Stop ==
    /\ MayStop /\ pc \in {"select", "open", "flags"}
    /\ pc' = "stopped"
    /\ CloseAll
    /\ UNCHANGED <<server, answers, reader, req, requests, request_num, search>>

Serve == Refuse \/ Accept \/ \E k \in 0..MaxNodes, atOnce \in BOOLEAN : Launch(k, atOnce)

DaemonNext ==
    \/ \E take \in BOOLEAN, h \in Hash, k \in 0..MaxNodes, D \in SUBSET Hash :
          Turn(take, h, k, D)
    \/ Serve
    \/ Stop
=============================================================================
