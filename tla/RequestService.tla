--------------------------- MODULE RequestService ---------------------------
(* The clients and the daemon of one host, interleaved over their FIFOs.    *)
EXTENDS ClientProcess, RequestDaemon, FiniteSets

CONSTANT
    OneAtATime   \* whether a client is started only when the previous ones
                 \* have ended and their requests and searches are over
ASSUME OneAtATimeAssumption == OneAtATime \in BOOLEAN

vars == <<fifoVars, clientVars, daemonVars>>

TypeOK == FifosType /\ ClientType /\ DaemonType

Init == FifosInit /\ ClientInit /\ DaemonInit

Quiet == /\ \A c \in Client : phase[c] \in Ended \cup {"start"}
         /\ pc = "select" /\ server = <<>> /\ requests = <<>>
         /\ \A h \in Hash : search[h] # "running"

Start(c) == (OneAtATime => Quiet) /\ SendRequest(c)

OfClient(c) ==
    \/ Start(c)
    \/ EnterOpen(c)
    \/ \E fileThere \in BOOLEAN : LeaveOpen(c, fileThere)
    \/ ReadAnswer(c)
    \/ ReadEnd(c)
    \/ Die(c)

Next ==
    \/ \E c \in Client : OfClient(c) /\ UNCHANGED daemonVars
    \/ DaemonNext /\ UNCHANGED clientVars

Spec == Init /\ [][Next]_vars

\* The daemon reads what is in the server FIFO and handles it; a client that
\* can go on does; a search that runs ends (DhtSearch!Terminates), even if the
\* FIFO its DONE goes to is full from time to time.
TakeRequest == \E h \in Hash, k \in 0..MaxNodes, D \in SUBSET Hash :
                  Turn(TRUE, h, k, D) /\ UNCHANGED clientVars
FinishSearch(g) == \E take \in BOOLEAN, h \in Hash, k \in 0..MaxNodes :
                      Turn(take, h, k, {g}) /\ UNCHANGED clientVars
Reads(c) == (ReadAnswer(c) \/ ReadEnd(c)) /\ UNCHANGED daemonVars
Opens(c) == (EnterOpen(c) \/ LeaveOpen(c, TRUE)) /\ UNCHANGED daemonVars

Fairness ==
    /\ WF_vars(TakeRequest)
    /\ WF_vars(Serve /\ UNCHANGED clientVars)
    /\ \A g \in Hash : SF_vars(FinishSearch(g))
    /\ \A c \in Client : WF_vars(Reads(c)) /\ WF_vars(Opens(c))

FairSpec == Spec /\ Fairness

-----------------------------------------------------------------------------
Alive == pc \notin {"crashed", "stopped"}

\* A final answer is the last thing a FIFO ever carries, and it is there only
\* once the daemon has closed its end: nothing is written through a descriptor
\* handle_request or the callback has closed.
FinalAnswerLast ==
    \A c \in Client : \A i \in DOMAIN answers[c] :
        Final(answers[c][i]) => i = Len(answers[c]) /\ writer[c] = "closed"

\* A client meets the end of its FIFO in place of a final answer only when the
\* daemon has ended: whoever closes a FIFO has answered for the last time.
EndOnlyByDeath ==
    \A c \in Client :
        phase[c] = "reading" /\ answers[c] = <<>> /\ writer[c] = "closed" => ~Alive

\* While the daemon runs, every request in its list has an open descriptor of
\* its own, so no callback uses a descriptor the system may have given to a
\* connection since (request_storage is freed exactly when its fd is closed).
PendingAreOpen ==
    Alive => /\ \A i \in DOMAIN requests : writer[requests[i]] = "open"
             /\ \A i, j \in DOMAIN requests : requests[i] = requests[j] => i = j

\* The counter bounds the list it counts, and every request it has counted was
\* accepted: refusals and ends do not touch it.
CountsAccepted ==
    /\ Len(requests) <= request_num
    /\ Alive => Cardinality({c \in Client : writer[c] # "none"}) >= request_num

\* The list of pending requests agrees with its counter and its descriptors.
PendingList == TypeOK /\ PendingAreOpen /\ CountsAccepted

\* While the daemon runs, an accepted client it can no longer reach was behind
\* another request when a search ended: the first DONE drops the whole list,
\* and only with rivals is anybody lost.
LostOnlyToRivals ==
    Alive => \A c \in Client :
        writer[c] = "open" /\ (\A i \in DOMAIN requests : requests[i] # c)
            => \E d \in Client \ {c} : writer[d] = "closed"

\* Clients that run one at a time, on a network whose late replies have died
\* out, get what README.md describes: the nodes of their own hash, and an end.
Promise == INSTANCE RequestPromise WITH
    status <- [c \in Client |-> CASE phase[c] = "start" -> "idle"
                                  [] phase[c] \in Ended -> "over"
                                  [] OTHER -> "asked"],
    told <- got
KeepsPromise == Promise!Spec

-----------------------------------------------------------------------------
(* What a comment of the code says, and a run refutes.                      *)

\* The callback, called "when we get a new value or when a search completes"
\* (dht_daemon.c:424), does not bring the daemon down.
Survives == pc # "crashed"
=============================================================================
