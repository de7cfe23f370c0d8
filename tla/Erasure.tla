------------------------------ MODULE Erasure ------------------------------
(* A file cut into blocks, coded, scattered and put together again          *)
(* (src/erasure_code/MODULE: split.c, upload.c, check.c, download.c,        *)
(* combine.c, over the LRC library in lrc/src/lrc.c).                       *)
(*                                                                          *)
(* Chunks are numbered as in lrc_buf_t: the data blocks, then the four      *)
(* local codes, then the global codes; their coefficients are those of      *)
(* ReedSolomon.  Of contents we keep whether the bytes in a buffer are      *)
(* those of the file.                                                       *)
EXTENDS ReedSolomon

CONSTANTS
    Length,      \* the lengths of the files that may be uploaded
    MAX_LOST     \* BOUND: how many chunks of a file of a given length may go
                 \* missing or fail their checksum

ASSUME ErasureAssumption == Length \subseteq Nat /\ MAX_LOST \in [Length -> Nat]

VARIABLES
    phase,       \* "file", "stored", "failed" (upload exits), "over"
    length,      \* of the file
    lost,        \* the chunks for which check finds no valid block
    outcome,     \* what download ends with
    padded,      \* whether the buffers of upload and download agree beyond
                 \* the end of a short last block, which nobody writes
    whole        \* whether the file it wrote is the file

vars == <<phase, length, lost, outcome, padded, whole>>

-----------------------------------------------------------------------------
(* split.c.  The fourth limit repeats digits of the others.                 *)

BlockLen(L) ==
    CASE L <= 10 -> 1
      [] L > 10 /\ L <= 131072 -> 2048
      [] L > 131072 /\ L <= 10486576 -> 32768
      [] L > 10486576 /\ L <= 16777216 -> 262144
      [] L > 16777216 /\ L <= 268435456 -> 4194304
      [] OTHER -> 67108864

\* blocknum; between 128K and 16M the remainder is taken of another number.
BlockNum(L) ==
    LET b == BlockLen(L)
        part == IF L > 131072 /\ L <= 16777216 THEN L % 2612144 ELSE L % b
    IN  L \div b + (IF part > 0 THEN 1 ELSE 0)

\* last_blocklen as it is written into every name.
LastLen(L) == L % BlockLen(L)

\* The bytes of the last piece: whatever the others leave, which is more than a
\* block where the remainder that was taken is 0 and the real one is not.
LastPiece(L) == L - BlockLen(L) * (BlockNum(L) - 1)

\* A last piece of no bytes is a read error; more than 64 names overrun
\* `blockname', with any outcome.
SplitFails(L) == BlockNum(L) = 0 \/ LastPiece(L) <= 0
Overruns(L) == BlockNum(L) > 64

-----------------------------------------------------------------------------
(* The code for n data blocks.                                              *)

N_LOCAL == 4

GroupLen(n) == n \div 4 + (IF n % 4 > 0 THEN 1 ELSE 0)
Globals(n) == GroupLen(n)

\* array[3] is a uint8_t.
LastGroupLen(n) == (n - 3 * GroupLen(n)) % 256

\* reed_sol_vandermonde_coding_matrix has at most 2^8 rows.
InitFails(n) == 3 * GroupLen(n) + LastGroupLen(n) + Globals(n) + 1 > 256

Data(n) == 0..n-1
Local(n, i) == n + i                     \* for i \in 0..N_LOCAL-1
GlobalCodes(n) == n + N_LOCAL .. n + N_LOCAL + Globals(n) - 1
Chunks(n) == 0 .. n + N_LOCAL + Globals(n) - 1
Codes(n) == Chunks(n) \ Data(n)

Group(n, i) ==
    {d \in Data(n) : i * GroupLen(n) <= d /\ d < (i + 1) * GroupLen(n)}

\* The chunks of the equation that code c stands for (lrc_make_matrix).
Equation(n, c) ==
    {c} \cup (IF c \in GlobalCodes(n) THEN Data(n) ELSE Group(n, c - n))

InGroup(n, c, d) == IF d \in Group(n, c - n) THEN One ELSE Zero

\* Mutant: the row of ones, the sum of the local codes, is a global code.
CoefficientsWithOnes(n) ==
    LET vandermonde == CodingMatrix(n, Globals(n) + 1)
    IN  Tabled([c \in Codes(n) |->
            IF c \in GlobalCodes(n) THEN vandermonde[c - n - N_LOCAL]
            ELSE Tabled([d \in Data(n) |-> InGroup(n, c, d)])])

\* The coefficients of the codes.  The first row of the Vandermonde code, the
\* sum of the local codes, is left out.
CoefficientsOf(n) ==
    LET vandermonde == CodingMatrix(n, Globals(n) + 1)
    IN  Tabled([c \in Codes(n) |->
            IF c \in GlobalCodes(n) THEN vandermonde[c - n - N_LOCAL + 1]
            ELSE Tabled([d \in Data(n) |-> InGroup(n, c, d)])])

Coefficients == Tabled([n \in {BlockNum(L) : L \in Length} |-> CoefficientsOf(n)])

-----------------------------------------------------------------------------
(* lrc_get_source.                                                          *)

Damaged(n, erased) ==
    {i \in 0..N_LOCAL-1 : Equation(n, Local(n, i)) \cap erased # {}}

\* What the local codes leave to the global ones.
Left(n, erased) == Cardinality(erased) - Cardinality(Damaged(n, erased))

\* Mutant: the last global code is never used.
RecoverableStrictly(n, erased) == Left(n, erased) < Globals(n)

Recoverable(n, erased) == Left(n, erased) <= Globals(n)

\* Mutant: with global codes only the damaged groups are read.
SourceOfGroups(n, erased) ==
    LET left == Left(n, erased)
        first == {c \in GlobalCodes(n) : c < n + N_LOCAL + left}
    IN  ((UNION {Equation(n, Local(n, i)) : i \in Damaged(n, erased)}) \cup first) \ erased

Source(n, erased) ==
    LET left == Left(n, erased)
        first == {c \in GlobalCodes(n) : c < n + N_LOCAL + left}
    IN  ((UNION {Equation(n, Local(n, i)) : i \in Damaged(n, erased)})
           \cup (IF left > 0 THEN Data(n) \cup first ELSE {})) \ erased

-----------------------------------------------------------------------------
(* lrc_decoder_init and jerasure_matrix_decode.                             *)

Unknown(n, erased) == Data(n) \cap erased

\* The rows of the decoding matrix: of the codes that are sources, the first
\* ones, as many as there are unknowns.  Mutant: from the intact codes.
RowsOfIntact(n, erased) ==
    LET intact == Codes(n) \ erased IN
    {c \in intact : Cardinality({b \in intact : b < c}) < Cardinality(Unknown(n, erased))}

Rows(n, erased) ==
    LET rows == Source(n, erased) \ Data(n) IN
    {c \in rows : Cardinality({b \in rows : b < c}) < Cardinality(Unknown(n, erased))}

\* No set of unknowns meets fewer equations than it has members: without this
\* no coefficients make the system solvable.
Enough(n, unknown, rows) ==
    \A S \in SUBSET unknown :
        Cardinality(S) <= Cardinality({c \in rows : Equation(n, c) \cap S # {}})

\* jerasure_invert_matrix, on the columns of the unknowns: the others belong to
\* data that is there, whose rows are unit rows.
Inverts(n, unknown, rows) ==
    Invertible([c \in rows |-> [d \in unknown |-> Coefficients[n][c][d]]], n, unknown)

\* The bytes of d in the buffer are the file's, to its end if `pad'.
Trusted(n, erased, d, pad) == d \in Source(n, erased) /\ (d = n - 1 => pad)

\* An unknown that is alone in its group is solved by the local code, any other
\* with all the data.
Alone(n, erased, d, i) ==
    Local(n, i) \in Rows(n, erased) /\ Group(n, i) \cap erased = {d}

Solved(n, erased, d, pad) ==
    LET own == {i \in 0..N_LOCAL-1 : Alone(n, erased, d, i)}
        used == IF own = {} THEN Data(n) ELSE UNION {Group(n, i) : i \in own}
    IN  \A x \in used \ erased : Trusted(n, erased, x, pad)

\* combine_blocks writes whole blocks and then last_blocklen bytes of the last,
\* which are its bytes only if it is shorter than a block; what was neither
\* read nor solved is what malloc returned.
Combined(L, erased, pad) ==
    LET n == BlockNum(L) IN
    /\ LastLen(L) = LastPiece(L)
    /\ \A d \in Data(n) : \/ d \in Source(n, erased)
                          \/ d \in erased /\ Solved(n, erased, d, pad)

-----------------------------------------------------------------------------
Init ==
    /\ phase = "file" /\ length \in Length /\ lost = {}
    /\ outcome = "none" /\ padded = TRUE /\ whole = FALSE

\* A last piece longer than a block spills over in the buffer of upload, into
\* that of the first code, which lrc_encode then fills.
Upload ==
    /\ phase = "file"
    /\ ~SplitFails(length) /\ ~InitFails(BlockNum(length))
    /\ phase' = "stored"
    /\ UNCHANGED <<length, lost, outcome, padded, whole>>

UploadFails ==
    /\ phase = "file"
    /\ SplitFails(length) \/ Overruns(length) \/ InitFails(BlockNum(length))
    /\ phase' = "failed"
    /\ UNCHANGED <<length, lost, outcome, padded, whole>>

\* The block of a chunk is not collected, or its checksum is wrong.
Lose(c) ==
    /\ phase = "stored" /\ Cardinality(lost) < MAX_LOST[length]
    /\ lost' = lost \cup {c}
    /\ UNCHANGED <<phase, length, outcome, padded, whole>>

\* With a valid local block check learns the length of a block.
LenKnown(n) == \E i \in 0..N_LOCAL-1 : Local(n, i) \notin lost

\* A last block longer than the others spills over here too, before the first
\* code, if that is a source, is read to the same place.
Download ==
    LET n == BlockNum(length) IN
    /\ phase = "stored" /\ LenKnown(n)
    /\ phase' = "over"
    /\ padded' \in (IF LastPiece(length) >= BlockLen(length) THEN {TRUE} ELSE BOOLEAN)
    /\ outcome' = IF ~Recoverable(n, lost) THEN "unrecoverable"
                  ELSE IF Inverts(n, Unknown(n, lost), Rows(n, lost)) THEN "written"
                  ELSE "exit"
    /\ whole' = (outcome' = "written" /\ Combined(length, lost, padded'))
    /\ UNCHANGED <<length, lost>>

\* Without one blockLen holds what malloc returned: the buffers have any size.
DownloadBlind ==
    LET n == BlockNum(length) IN
    /\ phase = "stored" /\ ~LenKnown(n)
    /\ phase' = "over"
    /\ outcome' \in (IF Recoverable(n, lost) THEN {"exit", "written"}
                     ELSE {"exit", "unrecoverable"})
    /\ UNCHANGED <<length, lost, padded, whole>>

Next ==
    \/ Upload \/ UploadFails
    \/ \E c \in Chunks(BlockNum(length)) : Lose(c)
    \/ Download \/ DownloadBlind

Spec == Init /\ [][Next]_vars

-----------------------------------------------------------------------------
TypeOK ==
    /\ phase \in {"file", "stored", "failed", "over"}
    /\ length \in Length
    /\ lost \subseteq Chunks(BlockNum(length)) /\ Cardinality(lost) <= MAX_LOST[length]
    /\ outcome \in {"none", "unrecoverable", "exit", "written"}
    /\ padded \in BOOLEAN /\ whole \in BOOLEAN
    /\ whole => outcome = "written"

\* download refuses exactly the losses that no decoder of this code could
\* repair: those with more chunks somewhere than equations about them.  The
\* count of lrc_get_source, which looks at no such set, is exact.
RefusedIfHopeless ==
    outcome \in {"unrecoverable", "written"} =>
        LET n == BlockNum(length)
        IN  (outcome = "unrecoverable") <=> ~Enough(n, lost, Codes(n))

\* Nor does lrc_get_source name too few codes, or codes about something else,
\* where it accepts: of the first of them, which the decoder takes, every set
\* of unknown blocks meets as many as it has members.
AcceptedHasRows ==
    LET n == BlockNum(length)
    IN  phase = "over" /\ LenKnown(n) /\ outcome # "unrecoverable" =>
            Enough(n, Unknown(n, lost), Rows(n, lost))

\* By what each code is about, whatever its coefficients: what is hopeless, and
\* nothing else, is refused, and what is accepted has its equations.
RefusedOrHasRows == RefusedIfHopeless /\ AcceptedHasRows

\* The unknowns that no local code settles by itself.
Unsettled(n, erased) ==
    {d \in Unknown(n, erased) : \A i \in 0..N_LOCAL-1 : ~Alone(n, erased, d, i)}

\* Having equations enough is not all: it also depends on the coefficients.
\* The decoder is sure to solve them when no local code is used for a part of
\* the unknowns that are left to the global codes: when these all lie in one
\* group, whose local code then stands for the row of ones that the library
\* leaves out, or in groups without.  Others it may fail on, from 6 blocks on;
\* of 13, for instance, on the loss of 0, 1, 4 and 5.
OneGroupIsDecoded ==
    LET n == BlockNum(length)
        left == Unsettled(n, lost)
        apart == \A i \in 0..N_LOCAL-1 :
                    Local(n, i) \in Rows(n, lost) => left \cap Group(n, i) \in {{}, left}
    IN  phase = "over" /\ LenKnown(n) /\ apart => outcome # "exit"

\* A loss of as many chunks as there are global codes, and of one more, is
\* never refused, whichever they are (README.md:76 promises the former): so it
\* follows from RefusedIfHopeless.
LimitIsRecoverable ==
    outcome = "unrecoverable" => Cardinality(lost) > Globals(BlockNum(length)) + 1

\* When global codes are needed the chunks named as sources are all that the
\* decoder looks at, and the file comes back whole: but for a last block that
\* is full or longer, and for a short one whose unwritten tail enters the
\* equations.
SourcesSuffice ==
    LET n == BlockNum(length)
        usual == /\ LenKnown(n) /\ Left(n, lost) > 0
                 /\ LastLen(length) = LastPiece(length) /\ (padded \/ n - 1 \in lost)
    IN  outcome = "written" /\ usual => whole

-----------------------------------------------------------------------------
\* "When fewer blocks are lost than global codes + 1, recovery is guaranteed"
\* (README.md:76), with a local code present as README.md:86 asks for.
WithinLimitIsWhole ==
    LET n == BlockNum(length) IN
    phase = "over" /\ LenKnown(n) /\ Cardinality(lost) <= Globals(n) => whole
=============================================================================
