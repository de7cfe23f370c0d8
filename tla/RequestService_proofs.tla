----------------------- MODULE RequestService_proofs -----------------------
(* Theorems about the clients and the daemon of one host, for any clients,  *)
(* files and limits, whoever dies and whatever the searches answer.         *)
EXTENDS RequestService, CommonFacts

-----------------------------------------------------------------------------
(* The inductive invariant. *)

\* The clients whose FIFO the daemon has opened.
Opened == {c \in Client : writer[c] # "none"}

\* A client holds its end of the FIFO from the call of open to its own end, and
\* the daemon cannot open the other one before.
Ends ==
    /\ \A c \in Client : reader[c] <=> phase[c] \in {"opening", "reading"}
    /\ \A c \in Client : phase[c] \in {"start", "sent"} => writer[c] = "none"

\* A request is in one place at a time: in the server FIFO, in req, or answered.
Once ==
    /\ IsInjective(server)
    /\ \A c \in ToSet(server) : phase[c] # "start" /\ writer[c] = "none"
    /\ pc = "open" => /\ req \notin ToSet(server)
                      /\ phase[req] # "start" /\ writer[req] = "none"
    /\ pc = "flags" => requests # <<>> /\ Head(requests) = req

\* While the daemon runs it closes no FIFO that is read without a final answer.
LastWord ==
    Alive => \A c \in Client : writer[c] = "closed" /\ reader[c] =>
                answers[c] # <<>> /\ Final(answers[c][Len(answers[c])])

IInv ==
    /\ TypeOK /\ IsFiniteSet(Opened)
    /\ Ends /\ Once /\ LastWord
    /\ FinalAnswerLast /\ PendingAreOpen /\ CountsAccepted /\ LostOnlyToRivals

\* Of one client at a time: there is one request in the whole system, and what
\* runs is the search it has asked for.
AloneInv ==
    /\ Alive
    /\ Len(server) <= 1
    /\ server # <<>> => pc = "select" /\ requests = <<>>
    /\ pc = "open" => requests = <<>>
    /\ \A h \in Hash : search[h] = "running" =>
          requests # <<>> /\ h = HashOf[Head(requests)]
    /\ \A c \in Client : \A i \in DOMAIN answers[c] :
          answers[c][i].type = "NODE" => answers[c][i].about = HashOf[c]

-----------------------------------------------------------------------------
(* What is written to a FIFO. *)

\* The first k elements of s are NODE answers about h.
NodesFirst(s, k, h) == \A i \in 1 .. k : s[i].type = "NODE" /\ s[i].about = h

LEMMA Answers ==
    ASSUME NEW h \in Hash, NEW k \in Nat, NEW g \in Hash
    PROVE  /\ Nodes(h, k) \in Seq(Answer) /\ Len(Nodes(h, k)) = k
           /\ NodesFirst(Nodes(h, k), k, h)
           /\ Nodes(h, k) \o Done(g) \in Seq(Answer) /\ Len(Nodes(h, k) \o Done(g)) = k + 1
           /\ NodesFirst(Nodes(h, k) \o Done(g), k, h)
           /\ (Nodes(h, k) \o Done(g))[k + 1].type = "DONE"
<1> DEFINE n == Nodes(h, k)
           d == Done(g)
           w == n \o d
<1>1. [type |-> "NODE", about |-> h] \in Answer /\ [type |-> "DONE", about |-> g] \in Answer
  BY DEF Answer
<1>2. /\ n \in [1 .. k -> Answer]
      /\ \A i \in 1 .. k : n[i].type = "NODE" /\ n[i].about = h
  BY <1>1 DEF Nodes
<1>3. n \in Seq(Answer) /\ Len(n) = k
  BY <1>2
<1>4. d \in Seq(Answer) /\ Len(d) = 1 /\ d[1].type = "DONE"
  BY <1>1 DEF Done
<1> HIDE DEF n, d
<1>5. /\ w \in Seq(Answer) /\ Len(w) = Len(n) + Len(d)
      /\ \A i \in 1 .. Len(n) + Len(d) : w[i] = IF i <= Len(n) THEN n[i] ELSE d[i - Len(n)]
  BY <1>3, <1>4, ConcatProperties
<1> HIDE DEF w
<1>6. /\ Len(w) = k + 1 /\ \A i \in 1 .. k : w[i] = n[i]
      /\ w[k + 1] = d[1]
  BY <1>3, <1>4, <1>5
<1>7. NodesFirst(n, k, h) /\ NodesFirst(w, k, h)
  BY <1>2, <1>6 DEF NodesFirst
<1> QED BY <1>3, <1>4, <1>5, <1>6, <1>7 DEF n, d, w

\* The daemon writes s to a FIFO it has not closed: what was there stays, and
\* only the last answer may be final, if the FIFO is closed with it.
LEMMA FinalsKept ==
    ASSUME IInv, NEW c \in Client, writer[c] # "closed",
           NEW s \in Seq(Answer), answers' = Written(c, s),
           \A i \in 1 .. Len(s) : Final(s[i]) => i = Len(s) /\ writer'[c] = "closed",
           \A d \in Client : writer[d] = "closed" => writer'[d] = "closed"
    PROVE  /\ FinalAnswerLast'
           /\ answers' \in [Client -> Seq(Answer)]
           /\ \A d \in Client \ {c} : answers'[d] = answers[d]
           /\ ~reader[c] => answers'[c] = answers[c]
           /\ reader[c] => answers'[c] = answers[c] \o s
           /\ reader[c] /\ s # <<>> =>
                answers'[c] # <<>> /\ answers'[c][Len(answers'[c])] = s[Len(s)]
<1> DEFINE a == answers[c]
           w == a \o s
           m == Len(a)
           n == Len(s)
<1>1. answers \in [Client -> Seq(Answer)] /\ a \in Seq(Answer)
  BY DEF IInv, TypeOK, FifosType
<1>2. m \in Nat /\ n \in Nat /\ DOMAIN a = 1 .. m
  BY <1>1, LenProperties
<1>3. /\ w \in Seq(Answer) /\ Len(w) = m + n
      /\ \A i \in 1 .. m + n : w[i] = IF i <= m THEN a[i] ELSE s[i - m]
  BY <1>1, ConcatProperties
<1>4. \A i \in 1 .. m : ~Final(a[i])
  BY <1>2 DEF IInv, FinalAnswerLast
<1>5. s # <<>> => n # 0
  BY EmptySeq
<1>6. DOMAIN w = 1 .. m + n
  BY <1>3, LenProperties
<1>7. \A d \in Client : answers'[d] = IF d = c /\ reader[c] THEN w ELSE answers[d]
  BY <1>1 DEF Written
<1>8. answers' \in [Client -> Seq(Answer)]
  BY <1>1, <1>3 DEF Written
<1> HIDE DEF a, w, m, n
<1>9. ASSUME NEW i \in 1 .. m + n, Final(w[i])
      PROVE  i = m + n /\ writer'[c] = "closed"
  <2>1. CASE i <= m
    BY <2>1, <1>2, <1>3, <1>4, <1>9
  <2>2. CASE i > m
    <3>1. i - m \in 1 .. n /\ w[i] = s[i - m]
      BY <2>2, <1>2, <1>3
    <3>2. i - m = n /\ writer'[c] = "closed"
      BY <3>1, <1>9 DEF n
    <3> QED BY <3>2, <1>2
  <2> QED BY <2>1, <2>2, <1>2
<1>10. n # 0 => w[m + n] = s[n] /\ w # <<>>
  <2>1. n # 0 => w[m + n] = s[n]
    <3>1. n # 0 => m + n \in 1 .. m + n /\ ~(m + n <= m) /\ (m + n) - m = n
      BY <1>2
    <3> QED BY <3>1, <1>3
  <2>2. n # 0 => Len(w) # 0
    BY <1>2, <1>3
  <2> QED BY <2>1, <2>2, EmptySeq
<1>11. FinalAnswerLast'
  <2> SUFFICES ASSUME NEW d \in Client, NEW i \in DOMAIN answers'[d], Final(answers'[d][i])
               PROVE  i = Len(answers'[d]) /\ writer'[d] = "closed"
    BY DEF FinalAnswerLast, Final
  <2>1. CASE d = c /\ reader[c]
    BY <2>1, <1>3, <1>6, <1>7, <1>9
  <2>2. CASE ~(d = c /\ reader[c])
    <3>1. answers'[d] = answers[d]
      BY <2>2, <1>7
    <3> QED BY <3>1 DEF IInv, FinalAnswerLast, Final
  <2> QED BY <2>1, <2>2
<1>12. reader[c] /\ s # <<>> =>
          answers'[c] # <<>> /\ answers'[c][Len(answers'[c])] = s[Len(s)]
  BY <1>3, <1>5, <1>7, <1>10 DEF n
<1> QED BY <1>7, <1>8, <1>11, <1>12 DEF a, w

-----------------------------------------------------------------------------
(* The clients touch neither the descriptors of the daemon nor its list.    *)

LEMMA Counted ==
    CountsAccepted <=> /\ Len(requests) <= request_num
                       /\ Alive => Cardinality(Opened) >= request_num
BY DEF CountsAccepted, Opened

LEMMA Starts == Init => IInv
<1> SUFFICES ASSUME Init PROVE IInv
  OBVIOUS
<1>1. TypeOK
  BY EmptyList, FifosAssumption, DaemonAssumption
     DEF Init, FifosInit, ClientInit, DaemonInit, TypeOK, FifosType, ClientType, DaemonType,
         Running
<1>2. Opened = {}
  BY DEF Init, FifosInit, Opened
<1>3. IsFiniteSet({}) /\ Cardinality({}) = 0
  BY FS_EmptySet
<1>4. Ends /\ Once /\ LastWord /\ FinalAnswerLast
  BY EmptyList DEF Init, FifosInit, ClientInit, DaemonInit, Ends, Once, LastWord, FinalAnswerLast
<1>5. requests = <<>> /\ request_num = 0 /\ Len(requests) = 0 /\ DOMAIN requests = {}
  BY DEF Init, DaemonInit
<1>6. PendingAreOpen /\ LostOnlyToRivals
  BY <1>5 DEF Init, FifosInit, PendingAreOpen, LostOnlyToRivals
<1>7. CountsAccepted
  BY <1>2, <1>3, <1>5, Counted
<1> QED BY <1>1, <1>2, <1>3, <1>4, <1>6, <1>7 DEF IInv

LEMMA ClientsLeave ==
    ASSUME IInv, UNCHANGED daemonVars, UNCHANGED writer
    PROVE  /\ DaemonType' /\ IsFiniteSet(Opened)'
           /\ PendingAreOpen' /\ CountsAccepted' /\ LostOnlyToRivals'
           /\ UNCHANGED <<pc, req, requests, request_num, search>>
<1>1. UNCHANGED <<pc, req, requests, request_num, search>>
  BY DEF daemonVars
<1>2. DaemonType' /\ IsFiniteSet(Opened)'
  BY <1>1 DEF IInv, TypeOK, DaemonType, Opened
<1>3. PendingAreOpen' /\ CountsAccepted' /\ LostOnlyToRivals'
  BY <1>1 DEF IInv, PendingAreOpen, CountsAccepted, LostOnlyToRivals, Alive
<1> QED BY <1>1, <1>2, <1>3

LEMMA StartKeeps ==
    ASSUME IInv, NEW c \in Client, Start(c), UNCHANGED daemonVars PROVE IInv'
<1>0. /\ phase[c] = "start" /\ phase' = [phase EXCEPT ![c] = "sent"]
      /\ server' = Append(server, c)
      /\ UNCHANGED <<answers, reader, writer, last, got>>
  BY DEF Start, SendRequest
<1>1. c \notin ToSet(server) /\ server \in Seq(Client) /\ IsInjective(server)
  BY <1>0 DEF IInv, Once, TypeOK, FifosType
<1>2. /\ server' \in Seq(Client) /\ IsInjective(server')
      /\ ToSet(server') = ToSet(server) \cup {c}
  BY <1>0, <1>1, AppendOne
<1>3. FifosType' /\ ClientType'
  BY <1>0, <1>2 DEF IInv, TypeOK, FifosType, ClientType, Running
<1>4. phase \in [Client -> Running \cup Ended]
  BY DEF IInv, TypeOK, ClientType
<1>5. Ends'
  BY <1>0, <1>4 DEF IInv, Ends
<1>6. UNCHANGED <<pc, req, requests>>
  BY ClientsLeave, <1>0
<1>7. Once'
  BY <1>0, <1>2, <1>4, <1>6 DEF IInv, TypeOK, DaemonType, Once, Ends
<1>8. LastWord' /\ FinalAnswerLast'
  BY <1>0, <1>6 DEF IInv, LastWord, FinalAnswerLast, Alive, Final
<1> QED BY <1>0, <1>3, <1>5, <1>7, <1>8, ClientsLeave DEF IInv, TypeOK

\* A client that goes on, or ends, without reading.
LEMMA GoesOn ==
    ASSUME IInv, NEW c \in Client, UNCHANGED daemonVars,
           UNCHANGED <<server, answers, writer, last, got>>,
           NEW p \in Running \cup Ended, phase' = [phase EXCEPT ![c] = p],
           NEW r \in BOOLEAN, reader' = [reader EXCEPT ![c] = r],
           phase[c] # "start", r <=> p \in {"opening", "reading"},
           p # "start" /\ (p = "sent" => phase[c] = "sent"),
           r => phase[c] = "sent" \/ reader[c]
    PROVE  IInv'
<1>1. phase \in [Client -> Running \cup Ended] /\ reader \in [Client -> BOOLEAN]
  BY DEF IInv, TypeOK, ClientType, FifosType
<1>2. FifosType' /\ ClientType'
  BY <1>1 DEF IInv, TypeOK, FifosType, ClientType
<1>3. Ends'
  BY <1>1 DEF IInv, Ends
<1>4. UNCHANGED <<pc, req, requests>>
  BY ClientsLeave
<1>5. Once'
  BY <1>1, <1>4, ElementsOfSeq DEF IInv, TypeOK, FifosType, DaemonType, Once
<1>6. FinalAnswerLast'
  BY DEF IInv, FinalAnswerLast, Final
<1>7. LastWord'
  BY <1>1, <1>4 DEF IInv, LastWord, Ends, Alive, Final
<1> QED BY <1>2, <1>3, <1>5, <1>6, <1>7, ClientsLeave DEF IInv, TypeOK

LEMMA EnterOpenKeeps ==
    ASSUME IInv, NEW c \in Client, EnterOpen(c), UNCHANGED daemonVars PROVE IInv'
<1>1. /\ phase[c] = "sent" /\ phase' = [phase EXCEPT ![c] = "opening"]
      /\ reader' = [reader EXCEPT ![c] = TRUE]
      /\ UNCHANGED <<server, answers, writer, last, got>>
  BY DEF EnterOpen
<1>2. "opening" \in Running \cup Ended /\ TRUE \in BOOLEAN
  BY DEF Running
<1> QED BY <1>1, <1>2, GoesOn

LEMMA LeaveOpenKeeps ==
    ASSUME IInv, NEW c \in Client, NEW fileThere \in BOOLEAN, LeaveOpen(c, fileThere),
           UNCHANGED daemonVars
    PROVE  IInv'
<1>1. phase[c] = "opening" /\ reader[c]
  BY DEF LeaveOpen, IInv, Ends
<1>0. "reading" \in Running \cup Ended /\ "failed" \in Running \cup Ended
  BY DEF Running, Ended
<1>u. UNCHANGED <<server, answers, writer, last, got>>
  BY DEF LeaveOpen
<1>2. CASE fileThere
  <2>1. phase' = [phase EXCEPT ![c] = "reading"] /\ reader' = [reader EXCEPT ![c] = TRUE]
    BY <1>2 DEF LeaveOpen
  <2> QED BY <2>1, <1>0, <1>1, <1>u, GoesOn
<1>3. CASE ~fileThere
  <2>1. phase' = [phase EXCEPT ![c] = "failed"] /\ reader' = [reader EXCEPT ![c] = FALSE]
    BY <1>3 DEF LeaveOpen
  <2> QED BY <2>1, <1>0, <1>1, <1>u, GoesOn
<1> QED BY <1>2, <1>3

LEMMA DieKeeps ==
    ASSUME IInv, NEW c \in Client, Die(c), UNCHANGED daemonVars PROVE IInv'
<1>1. /\ phase[c] # "start" /\ phase' = [phase EXCEPT ![c] = "killed"]
      /\ reader' = [reader EXCEPT ![c] = FALSE]
      /\ UNCHANGED <<server, answers, writer, last, got>>
  BY DEF Die
<1>2. "killed" \in Running \cup Ended /\ FALSE \in BOOLEAN
  BY DEF Ended
<1> QED BY <1>1, <1>2, GoesOn

\* What the loop body of a client does, whatever the answer.
LEMMA Acted ==
    ASSUME IInv, NEW c \in Client, phase[c] = "reading", NEW a \in Answer, Act(c, a),
           UNCHANGED daemonVars
    PROVE  /\ server' \in Seq(Client) /\ reader' \in [Client -> BOOLEAN]
           /\ writer' \in [Client -> {"none", "open", "closed"}] /\ ClientType'
           /\ Ends' /\ Once'
           /\ \A d \in Client : d # c => reader'[d] = reader[d]
           /\ reader'[c] => a.type = "NODE"
           /\ UNCHANGED <<pc, writer>>
<1> DEFINE p == CASE a.type = "DONE" -> "done"
                  [] a.type = "NODE" /\ KindOf[c] = "up" -> "uploaded"
                  [] a.type = "NODE" /\ KindOf[c] = "get" -> "reading"
                  [] OTHER -> "failed"
<1>0. /\ phase' = [phase EXCEPT ![c] = p]
      /\ last' = [last EXCEPT ![c] = a]
      /\ got' = [got EXCEPT ![c] = @ \cup (IF a.type = "NODE" THEN {a.about} ELSE {})]
      /\ reader' = [reader EXCEPT ![c] = (phase'[c] = "reading")]
      /\ UNCHANGED <<server, writer>>
  BY DEF Act
<1>1. /\ p \in {"done", "uploaded", "reading", "failed"}
      /\ p = "reading" => a.type = "NODE"
  OBVIOUS
<1> HIDE DEF p
<1>2. /\ phase \in [Client -> Running \cup Ended] /\ reader \in [Client -> BOOLEAN]
      /\ last \in [Client -> Answer \cup {Unset}] /\ got \in [Client -> SUBSET Hash]
      /\ server \in Seq(Client) /\ writer \in [Client -> {"none", "open", "closed"}]
      /\ a.about \in Hash
  BY DEF IInv, TypeOK, ClientType, FifosType, Answer
<1>3. phase'[c] = p /\ \A d \in Client : d # c => phase'[d] = phase[d]
  BY <1>0, <1>2
<1>4. /\ \A d \in Client : d # c => reader'[d] = reader[d]
      /\ reader'[c] <=> p = "reading"
      /\ reader' \in [Client -> BOOLEAN]
  BY <1>0, <1>2, <1>3
<1>5. ClientType'
  <2>1. phase' \in [Client -> Running \cup Ended]
    BY <1>0, <1>1, <1>2 DEF Running, Ended
  <2>2. last' \in [Client -> Answer \cup {Unset}]
    BY <1>0, <1>2
  <2>3. got' \in [Client -> SUBSET Hash]
    BY <1>0, <1>2
  <2> QED BY <2>1, <2>2, <2>3 DEF ClientType
<1>6. UNCHANGED <<pc, req, requests>>
  BY <1>0, ClientsLeave
<1>7. Ends'
  BY <1>0, <1>1, <1>3, <1>4 DEF IInv, Ends
<1>8. Once'
  BY <1>0, <1>1, <1>3, <1>6, ElementsOfSeq, <1>2 DEF IInv, TypeOK, DaemonType, Once
<1> QED BY <1>0, <1>1, <1>2, <1>4, <1>5, <1>6, <1>7, <1>8

LEMMA ReadAnswerKeeps ==
    ASSUME IInv, NEW c \in Client, ReadAnswer(c), UNCHANGED daemonVars PROVE IInv'
<1> DEFINE s == answers[c]
           t == Tail(s)
           n == Len(s)
<1>0. /\ phase[c] = "reading" /\ s # <<>>
      /\ answers' = [answers EXCEPT ![c] = t] /\ Act(c, Head(s))
  BY DEF ReadAnswer
<1>1. answers \in [Client -> Seq(Answer)] /\ s \in Seq(Answer)
  BY DEF IInv, TypeOK, FifosType
<1>2. /\ Head(s) \in Answer /\ Head(s) = s[1] /\ t \in Seq(Answer)
      /\ n \in Nat \ {0} /\ Len(t) = n - 1 /\ DOMAIN t = 1 .. n - 1 /\ DOMAIN s = 1 .. n
      /\ \A i \in 1 .. n - 1 : t[i] = s[i + 1]
  BY <1>0, <1>1, HeadTailProperties, LenProperties, EmptySeq
<1>3. /\ server' \in Seq(Client) /\ reader' \in [Client -> BOOLEAN]
      /\ writer' \in [Client -> {"none", "open", "closed"}] /\ ClientType'
      /\ Ends' /\ Once'
      /\ \A d \in Client : d # c => reader'[d] = reader[d]
      /\ reader'[c] => Head(s).type = "NODE"
      /\ UNCHANGED <<pc, writer>>
  BY <1>0, <1>2, Acted
<1>4. answers' \in [Client -> Seq(Answer)] /\ answers'[c] = t
      /\ \A d \in Client : d # c => answers'[d] = answers[d]
  BY <1>0, <1>1, <1>2
<1>5. FifosType'
  BY <1>3, <1>4 DEF FifosType
<1>6. \A i \in 1 .. n : Final(s[i]) => i = n /\ writer[c] = "closed"
  BY <1>2 DEF IInv, FinalAnswerLast
<1>7. reader[c]
  BY <1>0 DEF IInv, Ends
<1> HIDE DEF s, t, n
<1>8. \A i \in 1 .. n - 1 : Final(t[i]) => i = n - 1 /\ writer[c] = "closed"
  BY <1>2, <1>6
<1>9. FinalAnswerLast'
  <2> SUFFICES ASSUME NEW d \in Client, NEW i \in DOMAIN answers'[d], Final(answers'[d][i])
               PROVE  i = Len(answers'[d]) /\ writer'[d] = "closed"
    BY DEF FinalAnswerLast, Final
  <2>1. CASE d = c
    BY <2>1, <1>2, <1>3, <1>4, <1>8
  <2>2. CASE d # c
    BY <2>2, <1>3, <1>4 DEF IInv, FinalAnswerLast
  <2> QED BY <2>1, <2>2
<1>10. LastWord'
  <2> SUFFICES ASSUME Alive, NEW d \in Client, writer[d] = "closed", reader'[d]
               PROVE  answers'[d] # <<>> /\ Final(answers'[d][Len(answers'[d])])
    BY <1>3 DEF LastWord, Alive, Final
  <2>1. CASE d = c
    <3>1. Final(s[n])
      BY <2>1, <1>7 DEF IInv, LastWord, s, n
    <3>2. s[1].type = "NODE" /\ ~Final(s[1])
      BY <2>1, <1>2, <1>3 DEF Final
    <3>3. n # 1
      BY <3>1, <3>2
    <3>4. n - 1 \in 1 .. n - 1 /\ (n - 1) + 1 = n
      BY <3>3, <1>2
    <3>5. t[n - 1] = s[n]
      BY <3>4, <1>2
    <3>6. t # <<>>
      <4>1. Len(t) # 0
        BY <3>3, <1>2
      <4> QED BY <4>1, EmptySeq
    <3> QED BY <2>1, <3>1, <3>5, <3>6, <1>2, <1>4
  <2>2. CASE d # c
    BY <2>2, <1>3, <1>4 DEF IInv, LastWord
  <2> QED BY <2>1, <2>2
<1> QED BY <1>3, <1>5, <1>9, <1>10, ClientsLeave DEF IInv, TypeOK

LEMMA ReadEndKeeps ==
    ASSUME IInv, NEW c \in Client, ReadEnd(c), UNCHANGED daemonVars PROVE IInv'
<1>0. /\ phase[c] = "reading" /\ answers[c] = <<>> /\ writer[c] = "closed"
      /\ UNCHANGED answers
  BY DEF ReadEnd
<1>1. PICK a \in IF last[c] = Unset THEN Answer ELSE {last[c]} : Act(c, a)
  BY DEF ReadEnd
<1>2. a \in Answer
  BY DEF IInv, TypeOK, ClientType
<1>3. /\ server' \in Seq(Client) /\ reader' \in [Client -> BOOLEAN]
      /\ writer' \in [Client -> {"none", "open", "closed"}] /\ ClientType'
      /\ Ends' /\ Once'
      /\ \A d \in Client : d # c => reader'[d] = reader[d]
      /\ UNCHANGED <<pc, writer>>
  BY <1>0, <1>1, <1>2, Acted
<1>4. FifosType' /\ FinalAnswerLast'
  BY <1>0, <1>3 DEF IInv, TypeOK, FifosType, FinalAnswerLast, Final
<1>5. ~Alive
  BY <1>0 DEF IInv, LastWord, Ends
<1>6. LastWord'
  BY <1>3, <1>5 DEF LastWord, Alive
<1> QED BY <1>3, <1>4, <1>6, ClientsLeave DEF IInv, TypeOK

-----------------------------------------------------------------------------
(* The daemon.                                                              *)

\* The client whose FIFO the callback writes to.
LEMMA HeadOpen ==
    ASSUME IInv, requests # <<>>
    PROVE  /\ Head(requests) \in Client /\ requests \in Seq(Client)
           /\ Head(requests) = requests[1] /\ 1 \in DOMAIN requests
           /\ Alive => writer[Head(requests)] = "open"
<1>1. requests \in Seq(Client)
  BY DEF IInv, TypeOK, DaemonType
<1>2. Head(requests) \in Client /\ Head(requests) = requests[1] /\ Len(requests) \in Nat \ {0}
      /\ DOMAIN requests = 1 .. Len(requests)
  BY <1>1, HeadTailProperties, EmptySeq, LenProperties
<1> QED BY <1>1, <1>2 DEF IInv, PendingAreOpen

LEMMA TellsNodes ==
    ASSUME IInv, Alive, requests # <<>>, NEW h \in Hash, NEW k \in Nat, TellNodes(h, k),
           UNCHANGED reader
    PROVE  /\ answers' \in [Client -> Seq(Answer)] /\ FinalAnswerLast'
           /\ UNCHANGED <<requests, writer>>
           /\ Alive' => LastWord' /\ PendingAreOpen' /\ LostOnlyToRivals'
<1> DEFINE c == Head(requests)
<1>0. answers' = Written(c, Nodes(h, k)) /\ UNCHANGED <<requests, writer>>
  BY DEF TellNodes
<1>1. c \in Client /\ writer[c] = "open"
  BY HeadOpen
<1>2. /\ Nodes(h, k) \in Seq(Answer)
      /\ \A i \in 1 .. Len(Nodes(h, k)) : ~Final(Nodes(h, k)[i])
  <2>1. \A g \in Hash : /\ Nodes(h, k) \in Seq(Answer) /\ Len(Nodes(h, k)) = k
                       /\ NodesFirst(Nodes(h, k), k, h)
    BY Answers
  <2> QED BY <2>1 DEF Final, NodesFirst
<1> HIDE DEF c
<1>3. /\ FinalAnswerLast' /\ answers' \in [Client -> Seq(Answer)]
      /\ \A d \in Client \ {c} : answers'[d] = answers[d]
  BY <1>0, <1>1, <1>2, FinalsKept
<1>4. LastWord'
  <2> SUFFICES ASSUME NEW d \in Client, writer[d] = "closed", reader[d]
               PROVE  answers'[d] # <<>> /\ Final(answers'[d][Len(answers'[d])])
    BY <1>0 DEF LastWord, Final
  <2>1. d # c
    BY <1>1
  <2> QED BY <2>1, <1>3 DEF IInv, LastWord
<1>5. Alive' => PendingAreOpen' /\ LostOnlyToRivals'
  BY <1>0 DEF IInv, PendingAreOpen, LostOnlyToRivals
<1> QED BY <1>0, <1>3, <1>4, <1>5

LEMMA TellsDone ==
    ASSUME IInv, Alive, requests # <<>>, NEW h \in Hash, NEW k \in Nat, NEW g \in Hash,
           TellDone(h, k, g), UNCHANGED reader
    PROVE  /\ answers' \in [Client -> Seq(Answer)] /\ FinalAnswerLast'
           /\ writer' = [writer EXCEPT ![Head(requests)] = "closed"] /\ requests' = <<>>
           /\ LastWord' /\ PendingAreOpen' /\ LostOnlyToRivals'
<1> DEFINE c == Head(requests)
           s == Nodes(h, k) \o Done(g)
<1>0. /\ answers' = Written(c, s) /\ requests' = <<>>
      /\ writer' = [writer EXCEPT ![c] = "closed"]
  BY DEF TellDone
<1>1. c \in Client /\ writer[c] = "open" /\ writer \in [Client -> {"none", "open", "closed"}]
  BY HeadOpen DEF IInv, TypeOK, FifosType
<1>2. /\ s \in Seq(Answer) /\ Len(s) = k + 1 /\ s # <<>>
      /\ \A i \in 1 .. k : ~Final(s[i])
      /\ Final(s[k + 1])
  <2>0. s \in Seq(Answer) /\ Len(s) = k + 1 /\ s[k + 1].type = "DONE"
    BY Answers
  <2>1. NodesFirst(s, k, h)
    BY Answers
  <2> HIDE DEF s
  <2>2. s # <<>>
    BY <2>0, EmptySeq
  <2> QED BY <2>0, <2>1, <2>2 DEF Final, NodesFirst
<1>3. writer'[c] = "closed" /\ \A d \in Client : d # c => writer'[d] = writer[d]
  BY <1>0, <1>1
<1> HIDE DEF c, s
<1>4. \A i \in 1 .. Len(s) : Final(s[i]) => i = Len(s) /\ writer'[c] = "closed"
  BY <1>2, <1>3
<1>5. /\ FinalAnswerLast' /\ answers' \in [Client -> Seq(Answer)]
      /\ \A d \in Client \ {c} : answers'[d] = answers[d]
      /\ reader[c] => answers'[c] # <<>> /\ answers'[c][Len(answers'[c])] = s[Len(s)]
  BY <1>0, <1>1, <1>2, <1>3, <1>4, FinalsKept
<1>6. LastWord'
  <2> SUFFICES ASSUME NEW d \in Client, writer'[d] = "closed", reader[d]
               PROVE  answers'[d] # <<>> /\ Final(answers'[d][Len(answers'[d])])
    BY DEF LastWord, Final
  <2>1. CASE d = c
    BY <2>1, <1>2, <1>5
  <2>2. CASE d # c
    BY <2>2, <1>3, <1>5 DEF IInv, LastWord
  <2> QED BY <2>1, <2>2
<1>7. PendingAreOpen' /\ LostOnlyToRivals'
  <2>1. DOMAIN requests' = {}
    BY <1>0
  <2> QED BY <2>1, <1>1, <1>3 DEF PendingAreOpen, LostOnlyToRivals
<1> QED BY <1>0, <1>5, <1>6, <1>7 DEF c

\* What a turn leaves as it was, whatever the callbacks have done.
LEMMA TurnFrame ==
    ASSUME IInv, UNCHANGED clientVars, UNCHANGED <<reader, request_num>>,
           pc = "select", NEW take \in BOOLEAN, take => server # <<>>,
           server' = IF take THEN Tail(server) ELSE server,
           req' = IF take THEN Head(server) ELSE req,
           NEW D, search' = [g \in Hash |-> IF g \in D THEN "done" ELSE search[g]],
           pc' \in {IF take THEN "open" ELSE "select", "crashed"},
           requests' \in Seq(Client), Len(requests') <= Len(requests),
           answers' \in [Client -> Seq(Answer)],
           writer' \in [Client -> {"none", "open", "closed"}],
           \A c \in Client : writer'[c] = "none" <=> writer[c] = "none"
    PROVE  TypeOK' /\ IsFiniteSet(Opened)' /\ Ends' /\ Once' /\ CountsAccepted'
<1>1. server \in Seq(Client) /\ IsInjective(server) /\ Alive
  BY DEF IInv, TypeOK, FifosType, Once, Alive
<1>2. /\ server' \in Seq(Client) /\ IsInjective(server') /\ ToSet(server') \subseteq ToSet(server)
      /\ take => req' \in ToSet(server) /\ req' \notin ToSet(server') /\ req' \in Client
  <2>1. CASE take
    <3>1. /\ Tail(server) \in Seq(Client) /\ IsInjective(Tail(server))
          /\ Head(server) \in ToSet(server) /\ Head(server) \in Client
          /\ ToSet(Tail(server)) = ToSet(server) \ {Head(server)}
      BY <2>1, <1>1, TailOne, HeadTailProperties
    <3> QED BY <2>1, <3>1
  <2>2. CASE ~take
    BY <2>2, <1>1
  <2> QED BY <2>1, <2>2
<1>3. FifosType'
  BY <1>2 DEF IInv, TypeOK, FifosType
<1>4. ClientType'
  BY DEF IInv, TypeOK, ClientType, clientVars
<1>5. DaemonType'
  <2>1. search' \in [Hash -> {"none", "running", "done"}]
    BY DEF IInv, TypeOK, DaemonType
  <2>2. req' \in Client \cup {NoRequest} /\ (pc' \in {"open", "flags"} => req' \in Client)
    BY <1>2 DEF IInv, TypeOK, DaemonType
  <2> QED BY <2>1, <2>2 DEF IInv, TypeOK, DaemonType
<1>6. Opened' = Opened
  BY DEF Opened
<1>7. Ends'
  BY DEF IInv, Ends, clientVars
<1>8. Once'
  <2>1. \A c \in ToSet(server) : c \in Client /\ phase'[c] # "start" /\ writer'[c] = "none"
    BY <1>1, ElementsOfSeq DEF IInv, Once, clientVars
  <2>2. pc' = "open" => take
    OBVIOUS
  <2> QED BY <1>2, <2>1, <2>2 DEF Once
<1>9. CountsAccepted'
  <2>1. {c \in Client : writer'[c] # "none"} = Opened
    BY <1>6 DEF Opened
  <2>2. Len(requests) <= request_num /\ Cardinality(Opened) >= request_num
    BY <1>1, Counted DEF IInv
  <2>3. Len(requests') \in Nat /\ Len(requests) \in Nat /\ request_num \in Nat
    <3>1. requests \in Seq(Client) /\ request_num \in 0 .. MAX_REQUEST
      BY DEF IInv, TypeOK, DaemonType
    <3> QED BY <3>1, LenProperties, DaemonAssumption
  <2>4. Len(requests') <= request_num'
    BY <2>2, <2>3
  <2>5. Cardinality({c \in Client : writer'[c] # "none"}) >= request_num'
    BY <2>1, <2>2
  <2> QED BY <2>4, <2>5 DEF CountsAccepted
<1> QED BY <1>3, <1>4, <1>5, <1>6, <1>7, <1>8, <1>9 DEF IInv, TypeOK

LEMMA TurnKeeps ==
    ASSUME IInv, NEW take \in BOOLEAN, NEW h \in Hash, NEW k \in 0 .. MaxNodes,
           NEW D \in SUBSET Hash, Turn(take, h, k, D), UNCHANGED clientVars
    PROVE  IInv'
<1> DEFINE next == IF take THEN "open" ELSE "select"
<1>0. /\ pc = "select" /\ (take => server # <<>>)
      /\ server' = IF take THEN Tail(server) ELSE server
      /\ req' = IF take THEN Head(server) ELSE req
      /\ search' = [g \in Hash |-> IF g \in D THEN "done" ELSE search[g]]
      /\ Callbacks(h, k, D, next)
      /\ UNCHANGED <<reader, request_num>>
  BY DEF Turn
<1>1. /\ requests \in Seq(Client) /\ answers \in [Client -> Seq(Answer)]
      /\ writer \in [Client -> {"none", "open", "closed"}] /\ Alive /\ k \in Nat
      /\ Len(requests) \in Nat
  BY <1>0, LenProperties, DaemonAssumption DEF IInv, TypeOK, DaemonType, FifosType, Alive
<1> DEFINE Frame == TypeOK' /\ IsFiniteSet(Opened)' /\ Ends' /\ Once' /\ CountsAccepted'
<1>2. ASSUME pc' \in {next, "crashed"}, requests' \in Seq(Client),
             Len(requests') <= Len(requests),
             answers' \in [Client -> Seq(Answer)],
             writer' \in [Client -> {"none", "open", "closed"}],
             \A c \in Client : writer'[c] = "none" <=> writer[c] = "none"
      PROVE  Frame
  BY <1>0, <1>2, TurnFrame
<1>3. ASSUME pc' = "crashed"
      PROVE  LastWord' /\ PendingAreOpen' /\ LostOnlyToRivals'
  BY <1>3 DEF LastWord, PendingAreOpen, LostOnlyToRivals, Alive
<1>4. ASSUME CloseAll
      PROVE  /\ writer' \in [Client -> {"none", "open", "closed"}]
             /\ \A c \in Client : writer'[c] = "none" <=> writer[c] = "none"
             /\ \A c \in Client : writer[c] # "none" => writer'[c] = "closed"
  BY <1>4, <1>1 DEF CloseAll
<1> HIDE DEF Frame, next
<1>5. CASE k = 0 /\ D = {} /\ pc' = next /\ UNCHANGED <<requests, answers, writer>>
  <2>1. Frame
    BY <1>5, <1>1, <1>2
  <2>2. Alive'
    BY <1>5 DEF Alive, next
  <2>3. LastWord' /\ PendingAreOpen' /\ LostOnlyToRivals' /\ FinalAnswerLast'
    BY <1>0, <1>1, <1>5 DEF IInv, LastWord, PendingAreOpen, LostOnlyToRivals, FinalAnswerLast, Final
  <2> QED BY <2>1, <2>3 DEF IInv, Frame
<1>6. CASE k > 0 /\ D = {} /\ requests # <<>> /\ pc' = next /\ TellNodes(h, k)
  <2>1. /\ answers' \in [Client -> Seq(Answer)] /\ FinalAnswerLast'
        /\ UNCHANGED <<requests, writer>>
        /\ Alive' => LastWord' /\ PendingAreOpen' /\ LostOnlyToRivals'
    BY <1>0, <1>1, <1>6, TellsNodes
  <2>2. Frame
    BY <2>1, <1>1, <1>2, <1>6
  <2>3. Alive'
    BY <1>6 DEF Alive, next
  <2> QED BY <2>1, <2>2, <2>3 DEF IInv, Frame
<1>7. ASSUME requests # <<>>, pc' = next, NEW g \in D, TellDone(h, k, g) PROVE IInv'
  <2>1. /\ answers' \in [Client -> Seq(Answer)] /\ FinalAnswerLast'
        /\ writer' = [writer EXCEPT ![Head(requests)] = "closed"] /\ requests' = <<>>
        /\ LastWord' /\ PendingAreOpen' /\ LostOnlyToRivals'
    BY <1>0, <1>1, <1>7, TellsDone
  <2>2. writer[Head(requests)] = "open" /\ Head(requests) \in Client
    BY <1>1, <1>7, HeadOpen
  <2>3. /\ writer' \in [Client -> {"none", "open", "closed"}]
        /\ \A c \in Client : writer'[c] = "none" <=> writer[c] = "none"
    BY <2>1, <2>2, <1>1
  <2>4. requests' \in Seq(Client) /\ Len(requests') <= Len(requests)
    BY <2>1, <1>1
  <2>5. Frame
    BY <2>1, <2>3, <2>4, <1>2, <1>7
  <2> QED BY <2>1, <2>5 DEF IInv, Frame
<1>8. ASSUME requests # <<>>, pc' = "crashed", CloseAll, UNCHANGED requests,
             NEW g \in D, answers' = Written(Head(requests), Nodes(h, k) \o Done(g))
      PROVE  IInv'
  <2> DEFINE c == Head(requests)
             s == Nodes(h, k) \o Done(g)
  <2>1. c \in Client /\ writer[c] = "open"
    BY <1>1, <1>8, HeadOpen
  <2>2. /\ s \in Seq(Answer) /\ \A i \in 1 .. Len(s) : Final(s[i]) => i = Len(s)
    <3>1. /\ s \in Seq(Answer) /\ Len(s) = k + 1
          /\ NodesFirst(s, k, h)
      BY <1>1, <1>8, Answers
    <3> HIDE DEF s
    <3> QED BY <3>1, <1>1 DEF Final, NodesFirst
  <2>3. answers' = Written(c, s) /\ writer'[c] = "closed"
        /\ \A d \in Client : writer[d] = "closed" => writer'[d] = "closed"
    BY <1>4, <1>8, <2>1
  <2> HIDE DEF c, s
  <2>4. FinalAnswerLast' /\ answers' \in [Client -> Seq(Answer)]
    BY <2>1, <2>2, <2>3, FinalsKept
  <2>5. Frame
    BY <2>4, <1>1, <1>2, <1>4, <1>8
  <2> QED BY <2>4, <2>5, <1>3, <1>8 DEF IInv, Frame
<1>9. CASE pc' = "crashed" /\ CloseAll /\ UNCHANGED <<requests, answers>>
  <2>1. Frame
    BY <1>1, <1>2, <1>4, <1>9
  <2>2. FinalAnswerLast'
    BY <1>4, <1>9 DEF IInv, FinalAnswerLast, Final
  <2> QED BY <2>1, <2>2, <1>3, <1>9 DEF IInv, Frame
<1> QED BY <1>0, <1>5, <1>6, <1>7, <1>8, <1>9 DEF Callbacks

\* handle_request opens the FIFO of req, which nobody has opened before.
LEMMA OpensFifo ==
    ASSUME IInv, pc = "open", reader[req], UNCHANGED clientVars,
           UNCHANGED <<server, reader, req>>,
           NEW w \in {"open", "closed"}, writer' = [writer EXCEPT ![req] = w],
           pc' \in {"select", "flags"}, pc' = "flags" => requests' # <<>> /\ Head(requests') = req
    PROVE  /\ req \in Client /\ writer[req] = "none" /\ Alive /\ Alive'
           /\ writer' \in [Client -> {"none", "open", "closed"}] /\ writer'[req] = w
           /\ \A d \in Client : d # req => writer'[d] = writer[d]
           /\ Ends' /\ Once' /\ ClientType'
           /\ IsFiniteSet(Opened)' /\ Cardinality(Opened') = Cardinality(Opened) + 1
           /\ Cardinality(Opened) \in Nat
<1>1. /\ req \in Client /\ writer[req] = "none" /\ req \notin ToSet(server)
      /\ writer \in [Client -> {"none", "open", "closed"}] /\ IsFiniteSet(Opened)
      /\ phase[req] \in {"opening", "reading"}
  BY DEF IInv, TypeOK, DaemonType, FifosType, Once, Ends
<1>2. /\ writer' \in [Client -> {"none", "open", "closed"}] /\ writer'[req] = w
      /\ \A d \in Client : d # req => writer'[d] = writer[d]
  BY <1>1
<1>3. Ends'
  BY <1>1, <1>2 DEF IInv, Ends, clientVars
<1>4. Once'
  <2>1. ToSet(server) \subseteq Client
    BY ElementsOfSeq DEF IInv, TypeOK, FifosType
  <2> QED BY <2>1, <1>1, <1>2 DEF IInv, Once, clientVars
<1>5. ClientType'
  BY DEF IInv, TypeOK, ClientType, clientVars
<1>6. Opened' = Opened \cup {req} /\ req \notin Opened
  BY <1>1, <1>2 DEF Opened
<1>7. /\ IsFiniteSet(Opened \cup {req})
      /\ Cardinality(Opened \cup {req}) = IF req \in Opened THEN Cardinality(Opened)
                                          ELSE Cardinality(Opened) + 1
  BY <1>1, FS_AddElement
<1>8. Cardinality(Opened) \in Nat
  BY <1>1, FS_CardinalityType
<1>9. IsFiniteSet(Opened)' /\ Cardinality(Opened') = Cardinality(Opened) + 1
  BY <1>6, <1>7
<1> QED BY <1>1, <1>2, <1>3, <1>4, <1>5, <1>8, <1>9 DEF Alive

\* The counter against what has been opened, from the sizes alone.
LEMMA CountsKept ==
    ASSUME Len(requests') <= request_num', Cardinality(Opened') >= request_num'
    PROVE  CountsAccepted'
<1>1. {c \in Client : writer'[c] # "none"} = Opened'
  BY DEF Opened
<1>2. Cardinality({c \in Client : writer'[c] # "none"}) >= request_num'
  BY <1>1
<1> QED BY <1>2 DEF CountsAccepted

LEMMA Sizes ==
    ASSUME IInv
    PROVE  /\ requests \in Seq(Client) /\ Len(requests) \in Nat
           /\ DOMAIN requests = 1 .. Len(requests)
           /\ request_num \in Nat /\ MAX_REQUEST \in Nat /\ request_num <= MAX_REQUEST
           /\ Len(requests) <= request_num
           /\ Alive => Cardinality(Opened) >= request_num
<1>1. requests \in Seq(Client) /\ request_num \in 0 .. MAX_REQUEST
  BY DEF IInv, TypeOK, DaemonType
<1> QED BY <1>1, LenProperties, Counted, DaemonAssumption DEF IInv

LEMMA RefuseKeeps == ASSUME IInv, Refuse, UNCHANGED clientVars PROVE IInv'
<1> DEFINE s == <<[type |-> "TOO_MUCH", about |-> HashOf[req]]>>
<1>0. /\ pc = "open" /\ reader[req] /\ answers' = Written(req, s)
      /\ writer' = [writer EXCEPT ![req] = "closed"] /\ pc' = "select"
      /\ UNCHANGED <<server, reader, req, requests, request_num, search>>
  BY DEF Refuse
<1>1. /\ req \in Client /\ writer[req] = "none" /\ Alive /\ Alive'
      /\ writer' \in [Client -> {"none", "open", "closed"}] /\ writer'[req] = "closed"
      /\ \A d \in Client : d # req => writer'[d] = writer[d]
      /\ Ends' /\ Once' /\ ClientType'
      /\ IsFiniteSet(Opened)' /\ Cardinality(Opened') = Cardinality(Opened) + 1
      /\ Cardinality(Opened) \in Nat
  BY <1>0, OpensFifo
<1>2. s \in Seq(Answer) /\ Len(s) = 1 /\ s # <<>> /\ Final(s[1])
  BY <1>1, FifosAssumption DEF Answer, Final
<1> HIDE DEF s
<1>w. /\ writer[req] # "closed" /\ reader[req]
      /\ \A i \in 1 .. Len(s) : Final(s[i]) => i = Len(s) /\ writer'[req] = "closed"
      /\ \A d \in Client : writer[d] = "closed" => writer'[d] = "closed"
  BY <1>0, <1>1, <1>2
<1>3. /\ FinalAnswerLast' /\ answers' \in [Client -> Seq(Answer)]
      /\ \A d \in Client \ {req} : answers'[d] = answers[d]
      /\ answers'[req] # <<>> /\ answers'[req][Len(answers'[req])] = s[Len(s)]
  BY <1>0, <1>1, <1>2, <1>w, FinalsKept
<1>4. TypeOK'
  BY <1>0, <1>1, <1>3 DEF IInv, TypeOK, FifosType, DaemonType
<1>5. LastWord'
  <2> SUFFICES ASSUME NEW d \in Client, writer'[d] = "closed", reader[d]
               PROVE  answers'[d] # <<>> /\ Final(answers'[d][Len(answers'[d])])
    BY <1>0 DEF LastWord, Final
  <2>1. CASE d = req
    BY <2>1, <1>2, <1>3
  <2>2. CASE d # req
    BY <2>2, <1>1, <1>3 DEF IInv, LastWord
  <2> QED BY <2>1, <2>2
<1>6. CountsAccepted'
  <2>1. Len(requests') <= request_num' /\ Cardinality(Opened') >= request_num'
    BY <1>0, <1>1, Sizes
  <2> QED BY <2>1, CountsKept
<1>7. PendingAreOpen' /\ LostOnlyToRivals'
  BY <1>0, <1>1, ElementOfSeq, Sizes DEF IInv, PendingAreOpen, LostOnlyToRivals
<1> QED BY <1>1, <1>3, <1>4, <1>5, <1>6, <1>7 DEF IInv

LEMMA AcceptKeeps == ASSUME IInv, Accept, UNCHANGED clientVars PROVE IInv'
<1> DEFINE n == Len(requests)
<1>0. /\ pc = "open" /\ reader[req] /\ request_num < MAX_REQUEST
      /\ writer' = [writer EXCEPT ![req] = "open"]
      /\ requests' = <<req>> \o requests /\ request_num' = request_num + 1 /\ pc' = "flags"
      /\ UNCHANGED <<server, answers, reader, req, search>>
  BY DEF Accept
<1>a. req \in Client /\ requests \in Seq(Client) /\ n \in Nat /\ DOMAIN requests = 1 .. n
  BY <1>0, Sizes DEF IInv, TypeOK, DaemonType
<1>b. /\ requests' \in Seq(Client) /\ Len(requests') = n + 1
      /\ requests'[1] = req /\ \A i \in 2 .. n + 1 : requests'[i] = requests[i - 1]
  <2>1. <<req>> \in Seq(Client) /\ Len(<<req>>) = 1 /\ <<req>>[1] = req
    BY <1>a
  <2>2. /\ <<req>> \o requests \in Seq(Client)
        /\ Len(<<req>> \o requests) = Len(<<req>>) + n
        /\ \A i \in 1 .. Len(<<req>>) + n : (<<req>> \o requests)[i] =
              IF i <= Len(<<req>>) THEN <<req>>[i] ELSE requests[i - Len(<<req>>)]
    BY <2>1, <1>a, ConcatProperties
  <2> QED BY <2>1, <2>2, <1>0, <1>a
<1>c. requests' # <<>> /\ Head(requests') = req /\ DOMAIN requests' = 1 .. n + 1
  <2>1. Len(requests') # 0
    BY <1>a, <1>b
  <2> QED BY <2>1, <1>b, EmptySeq, HeadTailProperties, LenProperties
<1> HIDE DEF n
<1>1. /\ req \in Client /\ writer[req] = "none" /\ Alive /\ Alive'
      /\ writer' \in [Client -> {"none", "open", "closed"}] /\ writer'[req] = "open"
      /\ \A d \in Client : d # req => writer'[d] = writer[d]
      /\ Ends' /\ Once' /\ ClientType'
      /\ IsFiniteSet(Opened)' /\ Cardinality(Opened') = Cardinality(Opened) + 1
      /\ Cardinality(Opened) \in Nat
  BY <1>0, <1>c, OpensFifo
<1>2. TypeOK'
  <2>1. request_num' \in 0 .. MAX_REQUEST
    BY <1>0, Sizes
  <2> QED BY <2>1, <1>0, <1>1, <1>b DEF IInv, TypeOK, FifosType, DaemonType
<1>3. FinalAnswerLast' /\ LastWord'
  BY <1>0, <1>1 DEF IInv, FinalAnswerLast, LastWord, Final
<1>4. CountsAccepted'
  <2>1. Len(requests') <= request_num' /\ Cardinality(Opened') >= request_num'
    BY <1>0, <1>1, <1>b, Sizes DEF n
  <2> QED BY <2>1, CountsKept
<1>5. \A i \in 1 .. n : requests[i] \in Client /\ writer[requests[i]] = "open"
  BY <1>a, <1>1, ElementOfSeq DEF IInv, PendingAreOpen, n
<1>6. \A i \in 1 .. n + 1 : i = 1 \/ (i \in 2 .. n + 1 /\ i - 1 \in 1 .. n)
  BY <1>a
<1>7. PendingAreOpen'
  <2>1. \A i \in 1 .. n + 1 : writer'[requests'[i]] = "open"
    BY <1>b, <1>1, <1>5, <1>6
  <2>2. ASSUME NEW i \in 1 .. n + 1, NEW j \in 1 .. n + 1, requests'[i] = requests'[j]
        PROVE  i = j
    <3>1. CASE i = 1 /\ j = 1
      BY <3>1
    <3>2. CASE i # 1 /\ j # 1
      <4>1. i - 1 \in 1 .. n /\ j - 1 \in 1 .. n /\ requests[i - 1] = requests[j - 1]
        BY <3>2, <2>2, <1>6, <1>b
      <4>2. i - 1 = j - 1
        BY <4>1, <1>a, <1>1 DEF IInv, PendingAreOpen
      <4> QED BY <4>2
    <3>3. CASE i = 1 /\ j # 1
      BY <3>3, <2>2, <1>1, <1>b, <1>5, <1>6
    <3>4. CASE i # 1 /\ j = 1
      BY <3>4, <2>2, <1>1, <1>b, <1>5, <1>6
    <3> QED BY <3>1, <3>2, <3>3, <3>4
  <2> QED BY <2>1, <2>2, <1>c DEF PendingAreOpen
<1>8. LostOnlyToRivals'
  <2> SUFFICES ASSUME NEW c \in Client, writer'[c] = "open",
                      \A i \in 1 .. n + 1 : requests'[i] # c
               PROVE  \E d \in Client \ {c} : writer'[d] = "closed"
    BY <1>c DEF LostOnlyToRivals
  <2>1. c # req
    <3>1. 1 \in 1 .. n + 1
      BY <1>a
    <3> QED BY <3>1, <1>b
  <2>2. \A i \in 1 .. n : requests[i] # c
    <3>1. \A i \in 1 .. n : i + 1 \in 2 .. n + 1 /\ i + 1 \in 1 .. n + 1 /\ (i + 1) - 1 = i
      BY <1>a
    <3> QED BY <3>1, <1>b
  <2>3. PICK d \in Client \ {c} : writer[d] = "closed"
    BY <2>1, <2>2, <1>1, <1>a DEF IInv, LostOnlyToRivals
  <2> QED BY <2>3, <1>1
<1> QED BY <1>1, <1>2, <1>3, <1>4, <1>7, <1>8 DEF IInv

LEMMA LaunchKeeps ==
    ASSUME IInv, NEW k \in 0 .. MaxNodes, NEW atOnce \in BOOLEAN, Launch(k, atOnce),
           UNCHANGED clientVars
    PROVE  IInv'
<1> DEFINE h == HashOf[req]
<1>0. /\ pc = "flags" /\ pc' = "select"
      /\ search' = [search EXCEPT ![h] = IF atOnce THEN "done" ELSE "running"]
      /\ IF atOnce THEN TellDone(h, k, h) ELSE TellNodes(h, k)
      /\ UNCHANGED <<server, reader, req, request_num>>
  BY DEF Launch
<1>1. /\ req \in Client /\ h \in Hash /\ k \in Nat /\ requests # <<>> /\ Alive /\ Alive'
      /\ writer \in [Client -> {"none", "open", "closed"}]
  BY <1>0, FifosAssumption, DaemonAssumption
     DEF IInv, TypeOK, DaemonType, FifosType, Once, Alive
<1>2. search' \in [Hash -> {"none", "running", "done"}]
  BY <1>0 DEF IInv, TypeOK, DaemonType
<1> HIDE DEF h
<1>3. /\ answers' \in [Client -> Seq(Answer)] /\ FinalAnswerLast'
      /\ LastWord' /\ PendingAreOpen' /\ LostOnlyToRivals'
      /\ requests' = requests \/ requests' = <<>>
      /\ writer' = writer \/ writer' = [writer EXCEPT ![Head(requests)] = "closed"]
  <2>1. CASE atOnce
    BY <2>1, <1>0, <1>1, TellsDone
  <2>2. CASE ~atOnce
    BY <2>2, <1>0, <1>1, TellsNodes
  <2> QED BY <2>1, <2>2
<1>4. Head(requests) \in Client /\ writer[Head(requests)] = "open"
  BY <1>1, HeadOpen
<1>5. /\ writer' \in [Client -> {"none", "open", "closed"}]
      /\ \A c \in Client : writer'[c] = "none" <=> writer[c] = "none"
  BY <1>1, <1>3, <1>4
<1>6. requests' \in Seq(Client) /\ Len(requests') <= Len(requests)
  <2>1. <<>> \in Seq(Client) /\ Len(<<>>) = 0
    BY EmptySeq
  <2>2. requests \in Seq(Client) /\ Len(requests) \in Nat
    BY Sizes
  <2>3. requests' = requests \/ requests' = <<>>
    BY <1>3
  <2>4. CASE requests' = requests
    BY <2>4, <2>2
  <2>5. CASE requests' = <<>>
    <3>1. Len(requests') = 0 /\ requests' \in Seq(Client)
      BY <2>5, <2>1
    <3> QED BY <3>1, <2>2
  <2> QED BY <2>3, <2>4, <2>5
<1>7. TypeOK'
  BY <1>0, <1>2, <1>3, <1>5, <1>6
     DEF IInv, TypeOK, FifosType, ClientType, DaemonType, clientVars
<1>8. Opened' = Opened
  BY <1>5 DEF Opened
<1>9. IsFiniteSet(Opened)'
  BY <1>8 DEF IInv
<1>10. Ends'
  BY <1>0, <1>5 DEF IInv, Ends, clientVars
<1>11. Once'
  <2>1. ToSet(server) \subseteq Client
    BY ElementsOfSeq DEF IInv, TypeOK, FifosType
  <2> QED BY <2>1, <1>0, <1>5 DEF IInv, Once, clientVars
<1>12. CountsAccepted'
  <2>1. Len(requests') <= request_num' /\ Cardinality(Opened') >= request_num'
    <3>1. Len(requests') \in Nat
      BY <1>6, LenProperties
    <3> QED BY <3>1, <1>0, <1>1, <1>6, <1>8, Sizes
  <2> QED BY <2>1, CountsKept
<1> QED BY <1>3, <1>7, <1>9, <1>10, <1>11, <1>12 DEF IInv

LEMMA StopKeeps == ASSUME IInv, Stop, UNCHANGED clientVars PROVE IInv'
<1>0. /\ pc' = "stopped" /\ CloseAll
      /\ UNCHANGED <<server, answers, reader, req, requests, request_num, search>>
  BY DEF Stop
<1>1. /\ writer' \in [Client -> {"none", "open", "closed"}]
      /\ \A c \in Client : writer'[c] = "none" <=> writer[c] = "none"
      /\ \A c \in Client : writer[c] # "none" => writer'[c] = "closed"
  BY <1>0 DEF CloseAll, IInv, TypeOK, FifosType
<1>2. TypeOK'
  BY <1>0, <1>1 DEF IInv, TypeOK, FifosType, ClientType, DaemonType, clientVars
<1>3. Opened' = Opened
  BY <1>1 DEF Opened
<1>4. Ends'
  BY <1>0, <1>1 DEF IInv, Ends, clientVars
<1>5. Once'
  <2>1. ToSet(server) \subseteq Client
    BY ElementsOfSeq DEF IInv, TypeOK, FifosType
  <2> QED BY <2>1, <1>0, <1>1 DEF IInv, Once, clientVars
<1>6. FinalAnswerLast'
  BY <1>0, <1>1 DEF IInv, FinalAnswerLast, Final
<1>7. LastWord' /\ PendingAreOpen' /\ LostOnlyToRivals'
  BY <1>0 DEF LastWord, PendingAreOpen, LostOnlyToRivals, Alive
<1>8. CountsAccepted'
  BY <1>0, Sizes DEF CountsAccepted, Alive
<1> QED BY <1>2, <1>3, <1>4, <1>5, <1>6, <1>7, <1>8 DEF IInv

-----------------------------------------------------------------------------
(* The theorems. *)

LEMMA StepKeeps == IInv /\ [Next]_vars => IInv'
<1> SUFFICES ASSUME IInv, [Next]_vars PROVE IInv'
  OBVIOUS
<1>1. ASSUME NEW c \in Client, OfClient(c), UNCHANGED daemonVars PROVE IInv'
  BY <1>1, StartKeeps, EnterOpenKeeps, LeaveOpenKeeps, ReadAnswerKeeps, ReadEndKeeps, DieKeeps
     DEF OfClient
<1>2. ASSUME DaemonNext, UNCHANGED clientVars PROVE IInv'
  BY <1>2, TurnKeeps, RefuseKeeps, AcceptKeeps, LaunchKeeps, StopKeeps DEF DaemonNext, Serve
<1>3. CASE UNCHANGED vars
  <2>1. /\ UNCHANGED <<server, answers, reader, writer, phase, last, got>>
        /\ UNCHANGED <<pc, req, requests, request_num, search>>
        /\ UNCHANGED daemonVars
    BY <1>3 DEF vars, fifoVars, clientVars, daemonVars
  <2>2. FifosType' /\ ClientType' /\ Ends' /\ Once'
    BY <2>1 DEF IInv, TypeOK, FifosType, ClientType, Ends, Once
  <2>3. FinalAnswerLast' /\ LastWord'
    BY <2>1 DEF IInv, FinalAnswerLast, LastWord, Final, Alive
  <2> QED BY <2>1, <2>2, <2>3, ClientsLeave DEF IInv, TypeOK
<1> QED BY <1>1, <1>2, <1>3 DEF Next

\* Every step of a client, of the daemon and of whoever kills them keeps the
\* invariant.
THEOREM Invariance == Spec => []IInv
BY Starts, StepKeeps, PTL DEF Spec

\* FinalAnswerLast: nothing is written to a FIFO after DONE or TOO_MUCH, and
\* the daemon has closed it by then.
THEOREM NothingAfterTheEnd == Spec => []FinalAnswerLast
<1>1. IInv => FinalAnswerLast
  BY DEF IInv
<1> QED BY <1>1, Invariance, PTL

\* EndOnlyByDeath: while the daemon runs no client meets the end of its FIFO
\* where it expects an answer.
THEOREM NoEndUnannounced == Spec => []EndOnlyByDeath
<1>1. IInv => EndOnlyByDeath
  BY DEF IInv, LastWord, Ends, EndOnlyByDeath
<1> QED BY <1>1, Invariance, PTL

\* PendingList: every pending request has an open descriptor of its own, and the
\* counter is no less than the list and no more than the FIFOs opened.
THEOREM PendingListSound == Spec => []PendingList
<1>1. IInv => PendingList
  BY DEF IInv, PendingList
<1> QED BY <1>1, Invariance, PTL

\* LostOnlyToRivals: a client the daemon has forgotten had a rival whose search
\* ended.
THEOREM LossNeedsARival == Spec => []LostOnlyToRivals
<1>1. IInv => LostOnlyToRivals
  BY DEF IInv
<1> QED BY <1>1, Invariance, PTL

-----------------------------------------------------------------------------
(* Clients that run one at a time, while nodes reply only to a search that  *)
(* runs and nobody stops the daemon.                                        *)

AboutOwn ==
    \A c \in Client : \A i \in DOMAIN answers[c] :
        answers[c][i].type = "NODE" => answers[c][i].about = HashOf[c]

LEMMA AboutKept ==
    ASSUME IInv, AboutOwn, NEW c \in Client, NEW s \in Seq(Answer), answers' = Written(c, s),
           \A i \in 1 .. Len(s) : s[i].type = "NODE" => s[i].about = HashOf[c]
    PROVE  AboutOwn'
<1> DEFINE a == answers[c]
           w == a \o s
<1>1. answers \in [Client -> Seq(Answer)] /\ a \in Seq(Answer)
  BY DEF IInv, TypeOK, FifosType
<1>2. /\ Len(a) \in Nat /\ Len(s) \in Nat /\ DOMAIN a = 1 .. Len(a)
      /\ w \in Seq(Answer) /\ Len(w) = Len(a) + Len(s)
      /\ \A i \in 1 .. Len(a) + Len(s) : w[i] = IF i <= Len(a) THEN a[i] ELSE s[i - Len(a)]
  BY <1>1, ConcatProperties, LenProperties
<1>3. \A d \in Client : answers'[d] = IF d = c /\ reader[c] THEN w ELSE answers[d]
  BY <1>1 DEF Written
<1>4. \A i \in 1 .. Len(a) : a[i].type = "NODE" => a[i].about = HashOf[c]
  BY <1>2 DEF AboutOwn
<1> HIDE DEF a, w
<1>5. ASSUME NEW i \in DOMAIN w, w[i].type = "NODE" PROVE w[i].about = HashOf[c]
  <2>1. i \in 1 .. Len(a) + Len(s)
    BY <1>2, LenProperties
  <2>2. CASE i <= Len(a)
    BY <2>1, <2>2, <1>2, <1>4, <1>5
  <2>3. CASE i > Len(a)
    <3>1. i - Len(a) \in 1 .. Len(s) /\ w[i] = s[i - Len(a)]
      BY <2>1, <2>3, <1>2
    <3> QED BY <3>1, <1>5
  <2> QED BY <2>1, <2>2, <2>3, <1>2
<1> SUFFICES ASSUME NEW d \in Client, NEW i \in DOMAIN answers'[d], answers'[d][i].type = "NODE"
             PROVE  answers'[d][i].about = HashOf[d]
  BY DEF AboutOwn
<1>6. CASE d = c /\ reader[c]
  BY <1>3, <1>5, <1>6
<1>7. CASE ~(d = c /\ reader[c])
  BY <1>3, <1>7 DEF AboutOwn
<1> QED BY <1>6, <1>7

LEMMA NodesAboutOwn ==
    ASSUME IInv, AboutOwn, requests # <<>>, NEW h \in Hash, NEW k \in Nat, NEW g \in Hash,
           k > 0 => h = HashOf[Head(requests)],
           TellNodes(h, k) \/ TellDone(h, k, g)
    PROVE  AboutOwn'
<1> DEFINE c == Head(requests)
           s == Nodes(h, k)
           w == Nodes(h, k) \o Done(g)
<1>1. c \in Client
  BY HeadOpen
<1>2. /\ s \in Seq(Answer) /\ Len(s) = k
      /\ NodesFirst(s, k, h)
  BY Answers
<1>3. w \in Seq(Answer) /\ Len(w) = k + 1 /\ w[k + 1].type = "DONE"
  BY Answers
<1>4. NodesFirst(w, k, h)
  BY Answers
<1>5. answers' = Written(c, s) \/ answers' = Written(c, w)
  BY DEF TellNodes, TellDone
<1>h. k > 0 => h = HashOf[c]
  OBVIOUS
<1> HIDE DEF c, s, w
<1>6. CASE answers' = Written(c, s)
  BY <1>1, <1>2, <1>h, <1>6, AboutKept DEF NodesFirst
<1>7. CASE answers' = Written(c, w)
  <2>1. \A i \in 1 .. Len(w) : w[i].type = "NODE" => w[i].about = HashOf[c]
    BY <1>3, <1>4, <1>h DEF NodesFirst
  <2> QED BY <2>1, <1>1, <1>3, <1>7, AboutKept
<1> QED BY <1>5, <1>6, <1>7

LEMMA AloneStarts == Init => AloneInv
BY DEF Init, FifosInit, DaemonInit, AloneInv, Alive

LEMMA AloneClient ==
    ASSUME OneAtATime, IInv, AloneInv, NEW c \in Client, OfClient(c), UNCHANGED daemonVars
    PROVE  AloneInv' /\ ~ReadEnd(c)
<1>1. UNCHANGED <<pc, req, requests, request_num, search>>
  BY DEF daemonVars
<1>2. ~ReadEnd(c)
  BY DEF ReadEnd, IInv, LastWord, Ends, AloneInv
<1>3. CASE Start(c)
  <2>1. /\ server = <<>> /\ requests = <<>> /\ pc = "select"
        /\ server' = Append(server, c) /\ UNCHANGED answers
    BY <1>3 DEF Start, Quiet, SendRequest
  <2>2. Len(server') = 1
    BY <2>1
  <2> QED BY <2>1, <2>2, <1>1, <1>2 DEF AloneInv, Alive
<1>4. CASE EnterOpen(c) \/ (\E fileThere \in BOOLEAN : LeaveOpen(c, fileThere)) \/ Die(c)
  <2>1. UNCHANGED <<server, answers>>
    BY <1>4 DEF EnterOpen, LeaveOpen, Die
  <2> QED BY <2>1, <1>1, <1>2 DEF AloneInv, Alive
<1>5. CASE ReadAnswer(c)
  <2> DEFINE s == answers[c]
             t == Tail(s)
  <2>1. /\ s # <<>> /\ answers' = [answers EXCEPT ![c] = t] /\ UNCHANGED server
        /\ answers \in [Client -> Seq(Answer)]
    BY <1>5 DEF ReadAnswer, Act, IInv, TypeOK, FifosType
  <2>2. s \in Seq(Answer)
    BY <2>1
  <2>3. /\ t \in Seq(Answer) /\ Len(s) \in Nat \ {0} /\ DOMAIN s = 1 .. Len(s)
        /\ Len(t) = Len(s) - 1 /\ DOMAIN t = 1 .. Len(s) - 1
        /\ \A i \in 1 .. Len(t) : t[i] = s[i + 1]
    BY <2>1, <2>2, HeadTailProperties, LenProperties, EmptySeq
  <2>4. answers'[c] = t /\ \A d \in Client : d # c => answers'[d] = answers[d]
    BY <2>1
  <2>5. \A i \in DOMAIN s : s[i].type = "NODE" => s[i].about = HashOf[c]
    BY DEF AloneInv
  <2> HIDE DEF s, t
  <2>6. \A i \in DOMAIN t : i + 1 \in DOMAIN s /\ t[i] = s[i + 1]
    BY <2>3
  <2>7. \A d \in Client : \A i \in DOMAIN answers'[d] :
          answers'[d][i].type = "NODE" => answers'[d][i].about = HashOf[d]
    BY <2>4, <2>5, <2>6 DEF AloneInv
  <2> QED BY <2>1, <2>7, <1>1, <1>2 DEF AloneInv, Alive
<1> QED BY <1>2, <1>3, <1>4, <1>5 DEF OfClient

LEMMA AloneTurn ==
    ASSUME ~LateReplies, IInv, AloneInv, NEW take \in BOOLEAN, NEW h \in Hash,
           NEW k \in 0 .. MaxNodes, NEW D \in SUBSET Hash, Turn(take, h, k, D)
    PROVE  AloneInv'
<1> DEFINE next == IF take THEN "open" ELSE "select"
<1>0. /\ pc = "select" /\ (take => server # <<>>) /\ (k > 0 => search[h] = "running")
      /\ D \subseteq {g \in Hash : search[g] = "running"}
      /\ server' = IF take THEN Tail(server) ELSE server
      /\ search' = [g \in Hash |-> IF g \in D THEN "done" ELSE search[g]]
      /\ Callbacks(h, k, D, next)
  BY DEF Turn, Answering
<1>1. k \in Nat /\ server \in Seq(Client) /\ Len(server) <= 1
  BY DaemonAssumption DEF IInv, TypeOK, FifosType, AloneInv
<1>2. /\ \A g \in D : requests # <<>> /\ g = HashOf[Head(requests)]
      /\ k > 0 => requests # <<>> /\ h = HashOf[Head(requests)]
  BY <1>0 DEF AloneInv
<1>3. take => requests = <<>> /\ D = {} /\ k = 0
  BY <1>0, <1>1, <1>2 DEF AloneInv
<1>4. server' \in Seq(Client) /\ Len(server') <= 1 /\ (take => server' = <<>>)
  <2>1. CASE take
    <3>1. server # <<>>
      BY <2>1, <1>0
    <3>2. Tail(server) \in Seq(Client) /\ Len(Tail(server)) = Len(server) - 1
          /\ Len(server) \in Nat \ {0}
      BY <3>1, <1>1, HeadTailProperties, EmptySeq
    <3>3. Len(Tail(server)) = 0
      BY <3>2, <1>1
    <3>4. Tail(server) = <<>>
      BY <3>2, <3>3, EmptySeq
    <3> QED BY <2>1, <3>2, <3>3, <3>4, <1>0
  <2>2. CASE ~take
    BY <2>2, <1>0, <1>1
  <2> QED BY <2>1, <2>2
<1>5. \A g \in Hash : search'[g] = "running" => search[g] = "running" /\ g \notin D
  BY <1>0
<1>n. next \in {"open", "select"} /\ (next = "open" <=> take)
  OBVIOUS
<1> HIDE DEF next
<1>6. CASE k = 0 /\ D = {} /\ pc' = next /\ UNCHANGED <<requests, answers, writer>>
  <2>1. /\ Alive' /\ (server' # <<>> => pc' = "select" /\ requests' = <<>>)
        /\ (pc' = "open" => requests' = <<>>)
    BY <1>0, <1>3, <1>4, <1>6, <1>n DEF AloneInv, Alive
  <2> QED BY <2>1, <1>4, <1>5, <1>6 DEF AloneInv
<1>7. CASE k > 0 /\ D = {} /\ requests # <<>> /\ pc' = next /\ TellNodes(h, k)
  <2>1. ~take /\ UNCHANGED requests
    BY <1>3, <1>7 DEF TellNodes
  <2>2. AboutOwn'
    BY <1>1, <1>2, <1>7, NodesAboutOwn DEF AloneInv, AboutOwn
  <2>3. /\ Alive' /\ (server' # <<>> => pc' = "select" /\ requests' = <<>>)
        /\ (pc' = "open" => requests' = <<>>)
    BY <2>1, <1>0, <1>4, <1>7, <1>n DEF AloneInv, Alive
  <2> QED BY <2>1, <2>2, <2>3, <1>4, <1>5 DEF AloneInv, AboutOwn
<1>8. ASSUME requests # <<>>, pc' = next, NEW g \in D, D = {g}, TellDone(h, k, g)
      PROVE  AloneInv'
  <2>1. ~take /\ requests' = <<>>
    BY <1>3, <1>8 DEF TellDone
  <2>2. AboutOwn'
    BY <1>1, <1>2, <1>8, NodesAboutOwn DEF AloneInv, AboutOwn
  <2>3. /\ Alive' /\ (server' # <<>> => pc' = "select") /\ pc' # "open"
    BY <2>1, <1>8, <1>n DEF Alive
  <2>4. \A f \in Hash : search'[f] # "running"
    BY <1>2, <1>5, <1>8 DEF AloneInv
  <2> QED BY <2>1, <2>2, <2>3, <2>4, <1>4 DEF AloneInv, AboutOwn
<1>9. ~(\E g \in D : D # {g})
  BY <1>2
<1>10. ~(requests = <<>> /\ (k > 0 \/ D # {}))
  BY <1>2
<1> QED BY <1>0, <1>6, <1>7, <1>8, <1>9, <1>10 DEF Callbacks

LEMMA AloneServe ==
    ASSUME ~MayStop, IInv, AloneInv, Serve \/ Stop
    PROVE  AloneInv'
<1>1. ~Stop
  BY DEF Stop
<1>2. CASE Refuse
  <2> DEFINE s == <<[type |-> "TOO_MUCH", about |-> HashOf[req]]>>
  <2>1. /\ pc = "open" /\ pc' = "select" /\ answers' = Written(req, s)
        /\ UNCHANGED <<server, requests, search>>
    BY <1>2 DEF Refuse
  <2>2. req \in Client
    BY <2>1 DEF IInv, TypeOK, DaemonType
  <2>3. s \in Seq(Answer) /\ Len(s) = 1 /\ s[1].type # "NODE"
    BY <2>2, FifosAssumption DEF Answer
  <2> HIDE DEF s
  <2>4. AboutOwn'
    BY <2>1, <2>2, <2>3, AboutKept DEF AloneInv, AboutOwn
  <2> QED BY <2>1, <2>4 DEF AloneInv, AboutOwn, Alive
<1>3. CASE Accept
  <2>1. /\ pc = "open" /\ pc' = "flags" /\ requests' = <<req>> \o requests
        /\ UNCHANGED <<server, answers, search>>
    BY <1>3 DEF Accept
  <2>2. requests = <<>> /\ server = <<>> /\ \A h \in Hash : search[h] # "running"
    BY <2>1 DEF AloneInv
  <2> QED BY <2>1, <2>2 DEF AloneInv, Alive
<1>4. ASSUME NEW k \in 0 .. MaxNodes, NEW atOnce \in BOOLEAN, Launch(k, atOnce)
      PROVE  AloneInv'
  <2> DEFINE h == HashOf[req]
  <2>1. /\ pc = "flags" /\ pc' = "select"
        /\ search' = [search EXCEPT ![h] = IF atOnce THEN "done" ELSE "running"]
        /\ IF atOnce THEN TellDone(h, k, h) ELSE TellNodes(h, k)
        /\ UNCHANGED server
    BY <1>4 DEF Launch
  <2>2. /\ h \in Hash /\ k \in Nat /\ requests # <<>> /\ Head(requests) = req
        /\ server = <<>> /\ search \in [Hash -> {"none", "running", "done"}]
    BY <2>1, FifosAssumption, DaemonAssumption DEF IInv, TypeOK, DaemonType, Once, AloneInv
  <2>3. h = HashOf[Head(requests)]
    BY <2>2
  <2> HIDE DEF h
  <2>4. AboutOwn'
    BY <2>1, <2>2, <2>3, NodesAboutOwn DEF AloneInv, AboutOwn
  <2>5. CASE atOnce
    <3>1. requests' = <<>> /\ \A f \in Hash : search'[f] # "running"
      BY <2>1, <2>2, <2>3, <2>5 DEF TellDone, AloneInv
    <3> QED BY <3>1, <2>1, <2>2, <2>4 DEF AloneInv, AboutOwn, Alive
  <2>6. CASE ~atOnce
    <3>1. requests' = requests /\ \A f \in Hash : search'[f] = "running" => f = h
      BY <2>1, <2>2, <2>3, <2>6 DEF TellNodes, AloneInv
    <3> QED BY <3>1, <2>1, <2>2, <2>3, <2>4 DEF AloneInv, AboutOwn, Alive
  <2> QED BY <2>5, <2>6
<1> QED BY <1>1, <1>2, <1>3, <1>4 DEF Serve

LEMMA AloneKeeps ==
    ASSUME OneAtATime, ~LateReplies, ~MayStop
    PROVE  IInv /\ AloneInv /\ [Next]_vars => AloneInv'
<1> SUFFICES ASSUME IInv, AloneInv, [Next]_vars PROVE AloneInv'
  OBVIOUS
<1>1. ASSUME NEW c \in Client, OfClient(c), UNCHANGED daemonVars PROVE AloneInv'
  BY <1>1, AloneClient
<1>2. ASSUME DaemonNext, UNCHANGED clientVars PROVE AloneInv'
  BY <1>2, AloneTurn, AloneServe DEF DaemonNext
<1>3. CASE UNCHANGED vars
  BY <1>3 DEF vars, fifoVars, clientVars, daemonVars, AloneInv, Alive
<1> QED BY <1>1, <1>2, <1>3 DEF Next

-----------------------------------------------------------------------------
(* The refinement of RequestPromise. *)

\* What the mapping makes of a phase, and of all of them.
StatusOf(p) == CASE p = "start" -> "idle" [] p \in Ended -> "over" [] OTHER -> "asked"

Status == [c \in Client |-> CASE phase[c] = "start" -> "idle"
                              [] phase[c] \in Ended -> "over"
                              [] OTHER -> "asked"]

LEMMA StatusMoves ==
    ASSUME NEW c \in Client, NEW p, phase \in [Client -> Running \cup Ended],
           phase' = [phase EXCEPT ![c] = p]
    PROVE  Status[c] = StatusOf(phase[c]) /\ Status' = [Status EXCEPT ![c] = StatusOf(p)]
<1>1. \A d \in Client : Status[d] = StatusOf(phase[d]) /\ Status'[d] = StatusOf(phase'[d])
  BY DEF Status, StatusOf
<1>2. phase'[c] = p /\ \A d \in Client : d # c => phase'[d] = phase[d]
  OBVIOUS
<1>3. /\ Status = [d \in Client |-> Status[d]]
      /\ Status' = [d \in Client |-> Status'[d]]
  BY DEF Status
<1> QED BY <1>1, <1>2, <1>3

LEMMA StatusValues ==
    /\ StatusOf("start") = "idle"
    /\ \A p \in {"sent", "opening", "reading"} : StatusOf(p) = "asked"
    /\ \A p \in Ended : StatusOf(p) = "over"
BY DEF StatusOf, Ended

\* A step that moves a client among the phases of one status is a stutter.
LEMMA StatusStays ==
    ASSUME NEW c \in Client, NEW p, phase \in [Client -> Running \cup Ended],
           phase' = [phase EXCEPT ![c] = p], StatusOf(p) = StatusOf(phase[c])
    PROVE  Status' = Status
<1>1. Status[c] = StatusOf(phase[c]) /\ Status' = [Status EXCEPT ![c] = StatusOf(p)]
  BY StatusMoves
<1>2. Status = [Status EXCEPT ![c] = Status[c]]
  BY DEF Status
<1> QED BY <1>1, <1>2

LEMMA AskedEnds ==
    ASSUME NEW c \in Client, NEW p \in Ended, phase \in [Client -> Running \cup Ended],
           phase[c] \in {"sent", "opening", "reading"}, phase' = [phase EXCEPT ![c] = p]
    PROVE  Status[c] = "asked" /\ Status' = [Status EXCEPT ![c] = "over"]
<1>1. Status[c] = StatusOf(phase[c]) /\ Status' = [Status EXCEPT ![c] = StatusOf(p)]
  BY StatusMoves
<1>2. StatusOf(phase[c]) = "asked" /\ StatusOf(p) = "over"
  BY StatusValues
<1> QED BY <1>1, <1>2

LEMMA ClientKeepsPromise ==
    ASSUME IInv, AloneInv, NEW c \in Client, OfClient(c), ~ReadEnd(c)
    PROVE  Promise!Next \/ UNCHANGED Promise!vars
<1>0. phase \in [Client -> Running \cup Ended] /\ got \in [Client -> SUBSET Hash]
  BY DEF IInv, TypeOK, ClientType
<1>1. CASE Start(c)
  <2>1. phase[c] = "start" /\ phase' = [phase EXCEPT ![c] = "sent"] /\ UNCHANGED got
    BY <1>1 DEF Start, SendRequest
  <2>2. Status[c] = "idle" /\ Status' = [Status EXCEPT ![c] = "asked"]
    <3>1. Status[c] = StatusOf("start") /\ Status' = [Status EXCEPT ![c] = StatusOf("sent")]
      BY <2>1, <1>0, StatusMoves
    <3> QED BY <3>1, StatusValues
  <2>3. Promise!Ask(c)
    BY <2>1, <2>2 DEF Promise!Ask, Status
  <2> QED BY <2>3 DEF Promise!Next
<1>2. CASE EnterOpen(c)
  <2>1. phase[c] = "sent" /\ phase' = [phase EXCEPT ![c] = "opening"] /\ UNCHANGED got
    BY <1>2 DEF EnterOpen
  <2>2. UNCHANGED Status
    BY <2>1, <1>0, StatusStays, StatusValues
  <2> QED BY <2>1, <2>2 DEF Promise!vars, Status
<1>3. ASSUME NEW fileThere \in BOOLEAN, LeaveOpen(c, fileThere)
      PROVE  Promise!Next \/ UNCHANGED Promise!vars
  <2>1. /\ phase[c] = "opening" /\ UNCHANGED got
        /\ phase' = [phase EXCEPT ![c] = IF fileThere THEN "reading" ELSE "failed"]
    BY <1>3 DEF LeaveOpen
  <2>2. CASE fileThere
    <3>1. UNCHANGED Status
      BY <2>1, <2>2, <1>0, StatusStays, StatusValues
    <3> QED BY <2>1, <3>1 DEF Promise!vars, Status
  <2>3. CASE ~fileThere
    <3>1. Status[c] = "asked" /\ Status' = [Status EXCEPT ![c] = "over"]
      BY <2>1, <2>3, <1>0, AskedEnds DEF Ended
    <3>2. Promise!End(c)
      BY <2>1, <3>1 DEF Promise!End, Status
    <3> QED BY <3>2 DEF Promise!Next
  <2> QED BY <2>2, <2>3
<1>4. CASE Die(c)
  <2>1. /\ phase[c] \in {"sent", "opening", "reading"} /\ UNCHANGED got
        /\ phase' = [phase EXCEPT ![c] = "killed"]
    BY <1>4 DEF Die, Running
  <2>2. Status[c] = "asked" /\ Status' = [Status EXCEPT ![c] = "over"]
    BY <2>1, <1>0, AskedEnds DEF Ended
  <2>3. Promise!End(c)
    BY <2>1, <2>2 DEF Promise!End, Status
  <2> QED BY <2>3 DEF Promise!Next
<1>5. CASE ReadAnswer(c)
  <2> DEFINE a == Head(answers[c])
             p == CASE a.type = "DONE" -> "done"
                    [] a.type = "NODE" /\ KindOf[c] = "up" -> "uploaded"
                    [] a.type = "NODE" /\ KindOf[c] = "get" -> "reading"
                    [] OTHER -> "failed"
  <2>1. /\ phase[c] = "reading" /\ answers[c] # <<>> /\ phase' = [phase EXCEPT ![c] = p]
        /\ got' = [got EXCEPT ![c] = got[c] \cup (IF a.type = "NODE" THEN {a.about} ELSE {})]
    BY <1>5 DEF ReadAnswer, Act
  <2>2. a.type = "NODE" => a.about = HashOf[c]
    <3>1. answers[c] \in Seq(Answer)
      BY DEF IInv, TypeOK, FifosType
    <3>2. 1 \in DOMAIN answers[c] /\ a = answers[c][1]
      BY <2>1, <3>1, HeadTailProperties, LenProperties, EmptySeq
    <3>3. answers[c][1].type = "NODE" => answers[c][1].about = HashOf[c]
      BY <3>2 DEF AloneInv
    <3> QED BY <3>2, <3>3
  <2>3. p \in {"reading"} \cup Ended /\ (p = "reading" => a.type = "NODE")
    BY DEF Ended
  <2> HIDE DEF p, a
  <2>4. got' \in {got, [got EXCEPT ![c] = got[c] \cup {HashOf[c]}]}
    <3>1. CASE a.type = "NODE"
      BY <3>1, <2>1, <2>2
    <3>2. CASE a.type # "NODE"
      <4>1. got' = [got EXCEPT ![c] = got[c] \cup {}]
        BY <3>2, <2>1
      <4> QED BY <4>1, <1>0
    <3> QED BY <3>1, <3>2
  <2>5. CASE p = "reading"
    <3>1. UNCHANGED Status
      BY <2>1, <2>5, <1>0, StatusStays, StatusValues
    <3>2. Status[c] = "asked"
      BY <2>1, <1>0, StatusMoves, StatusValues
    <3>3. got' = [got EXCEPT ![c] = got[c] \cup {HashOf[c]}]
      BY <2>1, <2>2, <2>3, <2>5
    <3>4. Promise!Tell(c)
      BY <3>1, <3>2, <3>3 DEF Promise!Tell, Status
    <3> QED BY <3>4 DEF Promise!Next
  <2>6. CASE p \in Ended
    <3>1. Status[c] = "asked" /\ Status' = [Status EXCEPT ![c] = "over"]
      BY <2>1, <2>6, <1>0, AskedEnds
    <3>2. Promise!End(c)
      BY <2>4, <3>1 DEF Promise!End, Status
    <3> QED BY <3>2 DEF Promise!Next
  <2> QED BY <2>3, <2>5, <2>6
<1> QED BY <1>1, <1>2, <1>3, <1>4, <1>5 DEF OfClient

\* The safety of RequestPromise: it asks once, is told only of its own hash,
\* and after its end it is told nothing more.
PromiseSafety == Promise!Init /\ [][Promise!Next]_(Promise!vars)

\* Clients started one at a time, with no late replies and a daemon nobody stops,
\* behave as RequestPromise says, step by step, whoever of them is killed: no
\* NODE answer is about another client's hash, and nothing comes after the end.
THEOREM OneAtATimeImplements ==
    ASSUME OneAtATime, ~LateReplies, ~MayStop
    PROVE  Spec => PromiseSafety
<1>1. Init => Promise!Init
  <2> SUFFICES ASSUME Init PROVE Promise!Init
    OBVIOUS
  <2>1. got = [c \in Client |-> {}] /\ \A c \in Client : phase[c] = "start"
    BY DEF Init, ClientInit
  <2>2. Status = [c \in Client |-> "idle"]
    <3>1. \A c \in Client : Status[c] = StatusOf(phase[c])
      BY DEF Status, StatusOf
    <3>2. \A c \in Client : Status[c] = "idle"
      BY <2>1, <3>1, StatusValues
    <3> QED BY <3>2 DEF Status
  <2> QED BY <2>1, <2>2 DEF Promise!Init, Status
<1>2. IInv /\ AloneInv /\ [Next]_vars => [Promise!Next]_(Promise!vars)
  <2> SUFFICES ASSUME IInv, AloneInv, [Next]_vars
               PROVE  Promise!Next \/ UNCHANGED Promise!vars
    OBVIOUS
  <2>1. ASSUME NEW c \in Client, OfClient(c), UNCHANGED daemonVars
        PROVE  Promise!Next \/ UNCHANGED Promise!vars
    BY <2>1, AloneClient, ClientKeepsPromise
  <2>2. CASE UNCHANGED clientVars
    BY <2>2 DEF clientVars, Promise!vars
  <2>3. CASE UNCHANGED vars
    BY <2>3 DEF vars, clientVars, Promise!vars
  <2> QED BY <2>1, <2>2, <2>3 DEF Next
<1>3. Spec => [](IInv /\ AloneInv)
  BY Starts, StepKeeps, AloneStarts, AloneKeeps, PTL DEF Spec
<1> QED BY <1>1, <1>2, <1>3, PTL DEF Spec, PromiseSafety
=============================================================================
