------------------------------ MODULE RateLimit ------------------------------
(***************************************************************************)
(* token_bucket, the rate control for requests (dht.c): a bucket of tokens *)
(* that is filled again only when it is found empty, by what the time      *)
(* since it was last filled is worth.  `since' and `served' belong to no   *)
(* variable of the code: they count the requests let through since some    *)
(* moment, which WindowOpens chooses.                                      *)
(***************************************************************************)
EXTENDS Integers

CONSTANTS
    MAX_TOKENS,  \* MAX_TOKEN_BUCKET_TOKENS (400)
    RATE,        \* tokens a second is worth (100)
    MAX_TIME     \* bound of the model: the time at which it ends

ASSUME RateAssumption == MAX_TOKENS \in Nat /\ RATE \in Nat /\ MAX_TIME \in Nat

VARIABLES
    tokens,    \* token_bucket_tokens
    filledAt,  \* token_bucket_time
    clock,     \* now.tv_sec
    since, served

rateVars == <<tokens, filledAt, clock, since, served>>

Least(a, b) == IF a <= b THEN a ELSE b

\* dht_init
RateInit ==
    /\ tokens = MAX_TOKENS
    /\ clock = 0 /\ filledAt = 0
    /\ since = 0 /\ served = 0

\* Mutant: a filling is worth the whole time since the start.
RefillFromStart == Least(MAX_TOKENS, RATE * clock)

Refill == Least(MAX_TOKENS, RATE * (clock - filledAt))

\* What an empty bucket holds when the next request looks at it.
Filled == IF tokens = 0 THEN Refill ELSE tokens

Request ==
    /\ filledAt' = IF tokens = 0 THEN clock ELSE filledAt
    /\ tokens' = IF Filled = 0 THEN 0 ELSE Filled - 1
    /\ served' = IF Filled = 0 THEN served ELSE served + 1
    /\ UNCHANGED <<clock, since>>

Second ==
    /\ clock < MAX_TIME
    /\ clock' = clock + 1
    /\ UNCHANGED <<tokens, filledAt, since, served>>

WindowOpens ==
    /\ since' = clock
    /\ served' = 0
    /\ UNCHANGED <<tokens, filledAt, clock>>

RateNext == Request \/ Second \/ WindowOpens
RateSpec == RateInit /\ [][RateNext]_rateVars

---------------------------------------------------------------------------
\* Types; a bucket never holds more than MAX_TOKENS, nor fewer than none.
RateTypeOK ==
    /\ tokens \in 0 .. MAX_TOKENS
    /\ clock \in Nat /\ filledAt \in 0 .. clock /\ since \in 0 .. clock
    /\ served \in Nat

\* The rate that token_bucket really enforces: from any moment on, no more
\* than twice the bucket and RATE for each second.  It is twice the bucket
\* because a full bucket may be emptied and, if it had long been full, filled
\* again in the same second.
RateIsBounded == served <= 2 * MAX_TOKENS + RATE * (clock - since)
=============================================================================
