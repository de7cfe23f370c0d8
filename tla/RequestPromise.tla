--------------------------- MODULE RequestPromise ---------------------------
(* What the request service promises each client (src/dht/README.md): it    *)
(* asks once, is told of nodes for its own hash only, and its request ends. *)
CONSTANTS Client, Hash, HashOf

VARIABLES
    status,      \* "idle", then "asked", then "over"
    told         \* the hashes of the nodes the client was told of

vars == <<status, told>>

Init ==
    /\ status = [c \in Client |-> "idle"]
    /\ told = [c \in Client |-> {}]

Ask(c) ==
    /\ status[c] = "idle"
    /\ status' = [status EXCEPT ![c] = "asked"]
    /\ UNCHANGED told

Tell(c) ==
    /\ status[c] = "asked"
    /\ told' = [told EXCEPT ![c] = @ \cup {HashOf[c]}]
    /\ UNCHANGED status

End(c) ==
    /\ status[c] = "asked"
    /\ status' = [status EXCEPT ![c] = "over"]
    /\ told' \in {told, [told EXCEPT ![c] = @ \cup {HashOf[c]}]}

Next == \E c \in Client : Ask(c) \/ Tell(c) \/ End(c)

Spec == Init /\ [][Next]_vars /\ \A c \in Client : WF_vars(End(c))
=============================================================================
