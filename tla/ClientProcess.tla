--------------------------- MODULE ClientProcess ---------------------------
(* src/dht/client.c: a client sends one request to the daemon and then      *)
(* handles the answers one by one.  Its transfers over TCP are the subject  *)
(* of another module; here a transfer is only counted.                      *)
EXTENDS Fifos

CONSTANT
    MayDie       \* whether clients may be killed while they run

ASSUME MayDieAssumption == MayDie \in BOOLEAN

VARIABLES
    phase,       \* where main is, or how it ended
    last,        \* the answer held in `ans', Unset before the first one
    got          \* the hashes the NODE answers it acted on were about

clientVars == <<phase, last, got>>

Unset == [type |-> "unset"]

Running == {"start", "sent", "opening", "reading"}
Ended == {"done", "uploaded", "failed", "killed"}

ClientType ==
    /\ phase \in [Client -> Running \cup Ended]
    /\ last \in [Client -> Answer \cup {Unset}]
    /\ got \in [Client -> SUBSET Hash]

ClientInit ==
    /\ phase = [c \in Client |-> "start"]
    /\ last = [c \in Client |-> Unset]
    /\ got = [c \in Client |-> {}]

\* mkfifo, then write(serverfd, &req)
SendRequest(c) ==
    /\ phase[c] = "start"
    /\ phase' = [phase EXCEPT ![c] = "sent"]
    /\ server' = Append(server, c)
    /\ UNCHANGED <<answers, reader, writer, last, got>>

\* open(fifo_name, O_RDONLY) is entered and waits for the daemon's end.
EnterOpen(c) ==
    /\ phase[c] = "sent"
    /\ phase' = [phase EXCEPT ![c] = "opening"]
    /\ reader' = [reader EXCEPT ![c] = TRUE]
    /\ UNCHANGED <<server, answers, writer, last, got>>

\* It returns; an upload then opens its file, and exits when that fails.
LeaveOpen(c, fileThere) ==
    /\ phase[c] = "opening" /\ writer[c] # "none"
    /\ fileThere \/ KindOf[c] = "up"
    /\ phase' = [phase EXCEPT ![c] = IF fileThere THEN "reading" ELSE "failed"]
    /\ reader' = [reader EXCEPT ![c] = fileThere]
    /\ UNCHANGED <<server, answers, writer, last, got>>

\* The loop body on the answer a that `ans' holds after read: a download is
\* forked for every node, an upload goes to the first node and ends the client.
Act(c, a) ==
    /\ last' = [last EXCEPT ![c] = a]
    /\ phase' = [phase EXCEPT ![c] =
          CASE a.type = "DONE" -> "done"
            [] a.type = "NODE" /\ KindOf[c] = "up" -> "uploaded"
            [] a.type = "NODE" /\ KindOf[c] = "get" -> "reading"
            [] OTHER -> "failed"]
    /\ got' = [got EXCEPT ![c] = @ \cup (IF a.type = "NODE" THEN {a.about} ELSE {})]
    /\ reader' = [reader EXCEPT ![c] = phase'[c] = "reading"]
    /\ UNCHANGED <<server, writer>>

ReadAnswer(c) ==
    /\ phase[c] = "reading" /\ answers[c] # <<>>
    /\ answers' = [answers EXCEPT ![c] = Tail(@)]
    /\ Act(c, Head(answers[c]))

\* read returns 0 and its result is not looked at: `ans' still holds the last
\* answer, or whatever the stack held.
ReadEnd(c) ==
    /\ phase[c] = "reading" /\ answers[c] = <<>> /\ writer[c] = "closed"
    /\ \E a \in IF last[c] = Unset THEN Answer ELSE {last[c]} : Act(c, a)
    /\ UNCHANGED answers

\* The process is killed.
Die(c) ==
    /\ MayDie /\ phase[c] \in Running \ {"start"}
    /\ phase' = [phase EXCEPT ![c] = "killed"]
    /\ reader' = [reader EXCEPT ![c] = FALSE]
    /\ UNCHANGED <<server, answers, writer, last, got>>
=============================================================================
