# A TLA+ verification of X-exciting

X-exciting is a distributed file store. Each host runs a daemon (`src/dht/dht_daemon.c`)
which is a node of a Kademlia DHT (`src/dht/dht.c`, a modified copy of jech/dht), serves the
clients of its host over FIFOs, and receives and sends files over TCP. A client
(`src/dht/client.c`) uploads or downloads one file. Beside it, `src/erasure_code` cuts a file into
blocks, adds a locally repairable code (LRC), and puts the file together again from what is left;
the LRC library brings its own arithmetic of Galois fields (`src/erasure_code/lrc/src/gf*.c`).

This directory holds TLA+ models of those parts, the TLC runs that check them, and proofs that
TLAPS checks. Everything is translated from the code; line numbers are those of the commit in
`src/`. `PROJECT.json` maps each definition to its lines.

Contents: 1 inventory · 2 modules and the code · 3 runs · 4 fairness and environment · 5 proofs ·
6 findings · 7 other divergences met · 8 what is not modelled · 9 plan

## 1. Inventory

| Part | State | Operations | Interacts with | What is hard |
|---|---|---|---|---|
| **DHT searches** (`dht.c` 1000–1440, 2040–2165, 2252–2286) | list of `struct search`: target, tid, port, step_time, up to 14 candidates with pinged / replied / acked / token / times; `search_id`; `search_time`; blacklist ring | `dht_search`, `search_step`, `search_send_get_peers`, `insert_search_node`, `add_search_node`, `expire_searches`, handling of replies | callback to the daemon (values, end), routing table (candidates), remote nodes (UDP) | replies late, twice or never; slots reused while requests are in flight; one deadline for all searches; a full array |
| **Routing table** (`dht.c` 426–1030, 2607–2721) | sorted list of buckets of nodes with times and counts of requests, a cached candidate each; the blacklist ring | `new_node`, `split_bucket`, `expire_buckets`, `pinged`, `blacklist_node`, `send_cached_ping`, `insert_closest_node` | every message; searches (candidates); other nodes (what is offered them) | a split that inserts again what it took out, and splits further meanwhile; who gives way to whom |
| **Table maintenance** (`dht.c` 1866–1984, 2252–2316) | three timers; the time of the last growth | `bucket_maintenance`, `neighbourhood_maintenance`, expiry | routing table, remote nodes | random choices of bucket and node; dead nodes must leave |
| **Rate limit** (`dht.c` 1848–1864) | tokens, the time they were filled | `token_bucket` | every request | the bucket is filled only when found empty |
| **DHT storage, tokens** (`dht.c` 1442–1640, 2200–2250) | hashes and their peers with times; two secrets; two deadlines | `dht_storage_store`, `expire_storage`, `rotate_secrets`, `make_token`, `token_match`, get_peers / announce_peer | remote nodes; `tcp_periodic` (our own entries) | rotation between issue and use of a token; time 0 as a mark; full tables; late timers |
| **Start, end, known nodes** (`dht_daemon.c` 510–830, 1205–1211) | `.dht_id`, `.nodes`, the port | read or make the id, read and truncate the nodes, bind, dump the table | the next daemon in the directory | death between any two steps; a second daemon; a file truncated at the start and written much later |
| **Client process** (`client.c`) | where `main` is, the last answer read | request, open, read loop, fork per node | daemon (two FIFOs, TCP) | unchecked `read`; being killed at any point |
| **Client requests in the daemon** (`dht_daemon.c` 303–490, 975–1203) | list of pending requests, `request_num`, flags | `handle_request`, `callback`, one turn of the main loop, `sigexit` | clients (FIFOs), searches | one search's end answers another's client; a blocking open; descriptors in two places |
| **TCP transfers** (`dht_daemon.c` 100–300, 1010–1150) | lists `tcp_recv` and `tcp_send`, two fd sets, buffers, files | accept, recv, send, `tcp_periodic` | peers; the DHT storage | fragmentation; two uploads of one hash; peers dying; fd sets and lists in step |
| **Erasure coding** (`MODULE/*.c`, `lrc/src/lrc.c`) | blocks, their names, valid or not | `split`, `upload`, `check`, `download`, `combine_blocks`, `lrc_get_source`, `lrc_make_matrix`, decoder; of jerasure, `reed_sol_vandermonde_coding_matrix` and `jerasure_invert_matrix` | file system | which losses are repairable; whether the equations can be solved; which blocks must be read; lengths at the limits |
| **Galois fields** (`lrc/src/gf.c`, `gf_w4.c`, `gf_w8.c`, `gf_w16.c`, `gf_wgen.c`, `neon/`) | a `gf_t`: five function pointers and the tables they use | `gf_error_check`, `gf_scratch_size`, the init functions; multiply, divide, inverse, multiply_region, extract_word of each method | jerasure; the fields below a COMPOSITE one | three pieces of code that must agree on what a method can do; some 150 implementations of one product; regions cut for their alignment; layouts |
| Messages | buffers | `parse_message`, `send_*` | | parsing |
| Vendored or generated, not modelled | jerasure's bit matrices, wider fields, MD5, autotools, reports | | | |

For each part, what makes it correct:

* searches: what is recorded of a node is true of *this* search; a search is always scheduled, and
  ends; a search with a port has announced itself when it reports its end; nearer candidates are
  never given up for farther ones;
* routing table: every node is where it is looked for, once; counts are right at every step of a
  split; only our own range is split; a good node stays; what is offered is the nearest there is;
  a split ends; silent nodes leave;
* rate limit: a bound on what passes from any moment on;
* storage: whoever is listed proved its address recently; a token is good for long enough and not
  for too long; entries die, our own do not; limits hold;
* start and end: no part of an id is taken for one, and an id once settled stays; what was dumped is found; a daemon that runs on writes;
* requests: each client gets an end, and nodes of its own hash only; no answer follows a final one;
  no closed descriptor is ever written to;
* transfers: lists and fd sets agree; every unit sent is on the wire, in a buffer or on the disk; a
  file is announced only when whole; connections end;
* erasure coding: a loss is refused only if no decoder could repair it; for what is accepted there
  are equations enough, of the blocks that are read, and the decoder solves them; the file comes
  back;
* Galois fields: what is accepted is ready for use with room for its tables; every method computes
  the product, every quotient undoes it, every region is multiplied word by word once.

The components, modelled or not, and the hazards at their lines are listed in `PROJECT.json`.
Beyond those: a length of more than eight digits written with `%8d` is cut (`client.c:116`); when
accept fails for another reason than EAGAIN, -1 is put into an fd set (`dht_daemon.c:1017`); between
128K and 16M `split.c:56` takes the remainder of a misprinted number; a file of five blocks gives
-1 in a `uint8_t` (`upload.c:30`). The last two are in Erasure's definitions, the others are not
modelled.

## 2. Modules and the code

```
DhtSearch ───────── MCDhtSearch (adds XOR distances)      DhtSearch_proofs
RoutingTable ── NodeOffers ── MCRoutingTable              KnownNodes_proofs
DaemonStart ─┐                                                │
RateLimit ───┴ Daemon ── MCDaemon ────────────────────────────┘
DhtStorage ──────── MCDhtStorage                          DhtStorage_proofs
Fifos ── ClientProcess ─┐
   └──── RequestDaemon ─┴ RequestService ── MCRequestService
                            │ INSTANCE                    RequestService_proofs
                        RequestPromise
TcpTransfer ─────── MCTcpTransfer                         TcpTransfer_proofs
ReedSolomon ─ Erasure ── MCErasure                        Erasure_proofs
GaloisField ┬ ReedSolomon
            ├ GaloisRegion ─ GaloisSplit, GaloisComposite ─┐
            └ GaloisBytwo, GaloisMethod ───────────────────┤
                    GaloisW4, GaloisW8, GaloisW16, GaloisWgen ─ GaloisInit ─ GaloisCalls
                                       GaloisFields ── MCGaloisFields ──┘     Galois_proofs
```

A proof module extends the module it is about. KnownNodes_proofs extends NodeOffers (and through it
RoutingTable) and Daemon: it is about the nodes a daemon knows, in memory and on disk. Galois_proofs
extends GaloisCalls, and through it all modules of the methods; Erasure_proofs extends Erasure,
GaloisFields and Galois_proofs, since the coder and the fields it computes in are one program.
Those that need lists, counting, least numbers, powers of two or loops extend `CommonFacts`, which
has the lemmas about them.

**DhtSearch.** One DHT node's searches. `searches[h]` is the slot of hash `h`; a record's fields
carry the code's names, except that times are kept as *ages* (ticks up to one more than the largest
constant the code compares them with), so no bound on the clock is needed. `sent` holds the
requests that were sent and only grows: any of them may be answered now, later, again or never, so
loss, delay, duplication and reordering are one thing. Every action that stands for a message ends
in `Periodic`, because `dht_periodic` goes on to expire and step searches after any message:
`NodesReply`, `AckReply`, `Pong`, `TruncatedReply`, `BrokenNodesReply`, `Timeout`; `StartSearch`
is `dht_search`. What the routing table and the remote nodes offer are the constants `Tables` and
`Lists`. Random delays (`random() % DHT_SEARCH_RETRANSMIT`) are a choice.

**RoutingTable.** `bucket` maps the first id of a bucket to its capacity, count, nodes, time and
cached candidate; ids are numbers below 2^BITS. Times are ages here too. The one call of
`dht_periodic` that a message makes is several steps, for the sake of the split: `calls` holds the
`new_node` calls the message has still to make (`NewNode`, `Reject`), `loose` the nodes
`split_bucket` took out and inserts again one by one (`SplitTurn`, with the splits on the way), and
`EndSplit` goes back to `new_node`, which starts over. Then come `ExpireStuff` and `ConfirmNodes`.
Nothing else happens in between, and invariants hold at each of these steps. `Message`,
`BrokenReply` (`blacklist_node`), `SearchAsks` and `Timeout` start a call. Wherever the code takes
a random node or bucket, any will do.

**NodeOffers** computes what `send_closest_nodes` puts into an answer: `insert_closest_node` over
the nodes of three buckets (`LookedAt`).

**DaemonStart, RateLimit, Daemon.** `pc[d]` is where `main` of a daemon is; what it keeps on disk
is `idFile` and `nodesFile`, shared by all daemons of a directory; `Stop` may come at any step and
takes the memory with it, not the disk. There is no lock: any number of daemons may be between
finding no id file, opening one (`ofd` says whose descriptor is the file of that name), writing it
in full or in part, and unlinking it after a short write. Each daemon writes the nodes file at an offset of its own
(`written`, a stdio stream opened once): where another one has truncated the file since, the
gap is NULs (`Padded`), and `Lines` stops at one as fgets and strstr do. `RateLimit` is
`token_bucket`; `Daemon` puts the two together, as `dht_init` fills the bucket in each process.

**DhtStorage.** `age[h][p]` is the time since peer `p` of `h` was last announced, or `Absent`;
this node's own entry, `Self`, is one of the entries of a hash like the others, with `TimeZero`,
which the test of `expire_storage` finds as old as can be (`Old`). A token is a function of the
sender and a secret, so it is kept as how many rotations ago it was made: the code knows
two secrets and so does `Matches`. `Finish` is the tail of `dht_periodic`, part of every message
action: it rotates and expires when due. `OwnStore` is the call in `tcp_periodic`.

**Fifos, ClientProcess, RequestDaemon, RequestService.** The server FIFO is a sequence of clients,
a client FIFO a sequence of answers with a reader and a writer that may be open or not. `phase[c]`
is where `main` of a client is. The daemon's `pc` is `select`, `open` (inside `handle_request`,
blocked until the client opens its end), `flags` (before `dht_search`), or how it ended. `Turn` is
one turn of the loop, with the callbacks of the one `dht_periodic` it makes: some nodes about one
hash and any searches that end. `Callbacks` is the function `callback`, which looks at the head of
the list whatever the hash; without a pending request it dereferences NULL (`crashed`). Nodes and
values of one datagram come before an end, as in `dht_periodic`.

**RequestPromise** is the abstract service: a client asks, is told of nodes for its own hash, and
its request ends. `RequestService!KeepsPromise` is the refinement, with `status` computed from
`phase` and `told` from `got`.

**TcpTransfer.** The daemon's loop is `select`, `accept`, the ready descriptors one by one, then
`tcp_periodic` entry by entry. Each of these is a step, so that peers may do anything between any
two. `entry[c]` is `struct tcp_recv`; `disk[h]` the length of the file, or `Absent`; `wire` and
`inbox` what is under way. Bytes come in units: a header, then the file. Accepted sockets are
blocking (only the listening one is not), so `Send` stays in its loop while the peer makes no room.

**Erasure.** The life of one file: uploaded, some chunks lost, downloaded. The arithmetic of
`split.c` is taken over as it is, misprinted limits included. Chunks are numbered as in
`lrc_buf_t`; `Equation(n, c)` says which chunks code `c` is about (`lrc_make_matrix`), `Source` is
`lrc_get_source`, `Rows` the rows the decoder takes. `Coefficients` are the ones the library
computes, and `Inverts` is the elimination it makes: both come from **ReedSolomon**, which has the
extended Vandermonde matrix, what `reed_sol.c` does to its columns and rows, and
`jerasure_invert_matrix`, over GF(2^8) with the multiplication of GaloisField. A buffer nobody wrote
is never the file; whether the unwritten tails of the short last block agree in upload and download
is a choice (`padded`). A last block longer than the others, which `split.c:61` makes of some
lengths, spills over into the buffer of the first code and is overwritten there; `combine_blocks`
then writes too little of it (`Combined`).

**The Galois modules.** A word, a polynomial and a region of memory are the set of the places of
their bits: the sum is the symmetric difference, a shift adds to every place. `GaloisField` has the
arithmetic of polynomials; `GaloisBytwo`, `GaloisSplit`, `GaloisComposite` what the methods of
several widths share, `GaloisRegion` how a region is cut at its alignment (`gf_set_region_data`,
the two ends word by word, the middle in one go), and `GaloisW4`, `GaloisW8`, `GaloisW16`,
`GaloisWgen` one definition per function of `gf_w4.c`, `gf_w8.c` (with the NEON files), `gf_w16.c`
and `gf_wgen.c`. A function that is the same for all widths in the library's sources is written
once and named for each width. The vector loops stand for what they do to a region: which bits come
from which word, in which layout, with which table; the number of registers they use for it is left
out. Tables that fill lazily or for one multiplier are functions. `GaloisInit` is
`gf_error_check`, `gf_scratch_size`, the choice of the default polynomial, and the choice of the
functions each init function makes in a build (`build` is the set of instruction sets the library
was compiled for). A field is a record of the names of the chosen functions, as `gf_t` is one of
pointers; `GaloisCalls` makes the calls through them, where functions of a field call each other
and those of the field below. `GaloisFields` makes a field, perhaps puts COMPOSITE ones on top,
takes two words, and compares with `Ref`, which multiplies polynomials and knows of no method.
Logarithms of GF(2^16) are tabulated only near the powers that are read (`LogExponents`, natural
numbers by `LogAssumption`) and computed elsewhere (`DiscreteLog16`); that both are what `log_init`
fills in is part of `ProductsAlwaysAgree`.
What the code gets wrong is spelled out in `MayFail`, `WrongProduct`, `WrongQuotient` and
`WrongRegion` (section 7), each as narrowly as the code is wrong.

Definitions named `...` with a comment "Mutant" (for instance `InsertFarthest`) are plausible wrong
forms of a definition. They are used nowhere; substituted for it, they make the property they are
listed with fail, which shows that the property depends on that piece of code.

## 3. Runs

Twelve runs; each finishes within five minutes on two workers.

| Run | Configuration | Question and bounds |
|---|---|---|
| `search_announce` | `DhtSearchAnnounce` | One hash, nodes 1, 2, 4, an array of two, quorum of two, one query at a time: the array overflows, evicts and is refilled; every request may be answered late, repeatedly or never. `TypeOK`, `AckedWasAnnounced`, `NeverForgotten`, `CompletionAnnounces`, `KeepsNearest`. Three nodes are the fewest with which a full array must choose. |
| `search_slots` | `DhtSearchSlots` | Two hashes, one slot, tids modulo 2, two calls, broken replies and the blacklist: the slot changes hands with requests in flight. `RepliedWasAsked`; under fairness `Terminates`, for searches started again too. |
| `routing_split` | `RoutingSplit` | Four nodes among eight ids, ours being 0; buckets of two, at least one; three messages of any node, which may name another one. Two of them in one half and two in the other make splits within splits, offers of up to two nodes (`CLOSEST`) collected from three buckets push nodes out of a full array, and a third id in a full foreign bucket makes candidates and replacements. Lives of no or one tick let nodes go stale between two messages. `WellFormed` (types; every node filed once and in its range; counts; only our own range is split), `OffersNearest`, `GoodNodesStay`; under fairness `SplitsEnd` and `SilentNodesLeave`. |
| `daemon_restart` | `DaemonRestart` | Two daemons in one directory, started three times between them, at once or one after the other, two ids, one node: opens fail, writes are short, everything may be killed at every step, and each may truncate, write over or unlink what the other has just written; files of up to two lines, of which one is read; a bucket of one token and two a second, over one second. `DumpIsFound`, `RateIsBounded`, `IdIsKept` (whatever a daemon runs with is a whole id, and once the file has one and nobody is at work on a file of its own, every later start has that); under fairness `NodesGetWritten`. Three starts are the fewest with which one finds what two others, starting together, have left. |
| `requests_many` | `RequestMany` | Three clients (two of one file, an upload of another), two slots for requests (`MAX_REQUEST` = 2, so the third is refused), clients killed anywhere, late replies, signals and crashes of the daemon. `PendingList` (types; every pending request's descriptor is open; requests are counted), `FinalAnswerLast`, `EndOnlyByDeath`, `LostOnlyToRivals`. |
| `requests_alone` | `RequestAlone` | The same clients one at a time on a network without late replies: `KeepsPromise`, the refinement of `RequestPromise` with its liveness. It shows under which conditions the promise is kept; `requests_many` shows what remains without them. |
| `requests_crash` | `RequestCrash` | *Violation* of `Survives`: see 6. |
| `tcp_many` | `TcpMany` | Two uploads and a download of one two-unit file, headers of two units and one, a buffer of three, windows of one, one upload's peer mortal: headers in pieces or with part of the file, full buffers, partial files. `ListsAgree` (types; the fd sets are the two lists; no recv into a full buffer), `StoredIsWhole`, `OneWriter`, `NothingLost`; under fairness `EveryConnectionEnds` and `RestIsStored`. |
| `storage_time` | `StorageTime` | Two nodes, two hashes, room for one hash and two peers, rotation every 2–3 ticks, expiry every 1–2, life 2, timers late by at most 1. `WithinLimits`, `FreshTokenHonoured`, `OldTokenRefused`, `NoStalePeers`, `PeersAreProven`, `OwnStays`. `MAX_AGE` = 9 lies above 2·(3+1), beyond which the age of a token makes no difference; the proofs of section 5 do not need the bounds. Nodes and hashes are interchangeable (symmetry; all its properties are safety). |
| `erasure_loss` | `ErasureLoss` | Files of 4 and 7 full blocks, 5, 6 and 8 blocks with a short one, one of 163840 bytes, whose last piece would be empty, and one of 13060720, whose last of 49 blocks is longer than the others; every loss of up to 7 chunks (one more than any code of up to 8 blocks can repair), of the last file of up to 2 (`MAX_LOST`). `RefusedOrHasRows` (refused exactly if no coefficients could help, and equations enough if accepted), `OneGroupIsDecoded` (the matrix can be inverted when what is left to the global codes lies in one group, or in groups whose local code is not used), `SourcesSuffice`. |
| `erasure_whole` | `ErasureWhole` | *Violation* of `WithinLimitIsWhole`: see 6. |
| `galois` | `GaloisFields` | Every method with every pair of region flags and every division, for widths 1, 4, 5, 8, 9, 16 and 20, in builds with no vector instructions, SSE2, everything up to PCLMUL, and NEON; for each width a polynomial of every kind the code distinguishes; COMPOSITE fields on bases of three methods, and again on top. Multipliers are 0, the small words the code has loops of their own for, and powers of x; regions have an initial part, a middle and an end. `AcceptedIsReady`, `ProductsAgree`, `QuotientsUndo` (also that the polynomials the library picks for COMPOSITE fields have no root), `RegionsAgree` (also that `gf_multby_one` adds every byte once for every alignment). Most states are different fields, so that the bound that matters is that of words: multiplication is bilinear in each method, table lookups aside, and the tables hold a power of x in each place that is read. |

`CHECK_DEADLOCK FALSE` stands where the system may stop: all clients served, the daemons ended, all
transfers over, a file downloaded, a field made and its words taken. In `DhtStorage` a tick may be
refused until `dht_periodic` runs, but that is always enabled. `DhtSearch` and `RoutingTable` are
checked for deadlock.

## 4. Fairness and environment

* `DhtSearch!FairSpec`: weak fairness of `Timeout` (the main loop calls `dht_periodic` whenever
  select times out) and of `Tick`. Nothing is assumed of the network. `Terminates` is conditional
  on replies and new calls ceasing: with replies for ever a search need not end.
* `RoutingTable!FairSpec`: weak fairness of the steps within one call of `dht_periodic`, of
  `Timeout`, and *strong* fairness of `Tick`: time does not pass while a call is being made, so
  `Tick` is enabled now and then only, but it does pass. `SilentNodesLeave` needs the messages to
  end (`MAX_MESSAGES`), and nothing of the random choices: a node that is chosen over and over is
  asked over and over, and leaves.
* `Daemon!FairDaemonSpec`: weak fairness of the seconds and the dumps of each daemon that runs. Nothing
  makes a daemon start or stop.
* `RequestService!FairSpec`: weak fairness of the daemon reading and serving a request, and of a
  client's opens and reads. A search's end is *strongly* fair: the FIFO its answer goes to may be
  full from time to time, so the step is not always enabled, and the searches do end
  (`DhtSearch!Terminates`).
* `TcpTransfer!FairSpec`: weak fairness of the daemon's loop and of each live peer's next system
  call. A peer that lives but never reads blocks the daemon (section 7), and one that lives and
  stops sending keeps its connection: both are excluded by the fairness of `Receive` and
  `PeerSend`, not by the code.

Switches that widen or narrow the environment: `MayDie` (clients killed), `Mortal` (the peers that
may be killed), `MayStop` (signals), `LateReplies` (replies after the end of a search),
`OneAtATime` (clients one after the other), `Malformed` (replies of broken length). Bounds, which are not part of the program:
`MaxStarts` (DhtSearch), `MAX_MESSAGES` (RoutingTable), `MAX_LINES`, `MAX_STARTS` and `MAX_TIME`
(Daemon), `MaxNodes` and `MaxAnswers` (RequestDaemon), `LATE` and `MAX_AGE` (DhtStorage),
`MAX_LOST` (Erasure), `WINDOW` (TcpTransfer, the peer's socket buffer).

## 5. Proofs

TLAPS proves the following for all values of the constants that satisfy the modules' assumptions
(numbers are numbers, sets of addresses finite where the code counts them). With it every safety
invariant and every action property of the runs is a theorem, except `OneGroupIsDecoded` of the
coder and `QuotientsUndo` and `RegionsAgree` of the Galois fields, about some of whose methods there are theorems of their own.
A theorem with a further hypothesis says so below, and why it is needed.

**DhtSearch_proofs.** `TypeCorrect` contains that an array never holds more than `SEARCH_NODES`
candidates and that no node is asked more than three times without an answer. Its lemmas go through the
operators the actions are made of (`Insert`, `Step`, `AddToAll`, `Expired`, `Periodic`), each
preserving the type of a search; the other theorems are proved along the same operators.

* `NoRepliesMixed`: `RepliedWasAsked`, for `MaxStarts <= TID_SPACE`. That a candidate replied
  because it was asked is not inductive: what is asked under one tid might be answered under the same
  tid later given to another search. The invariant (`AskInv`) says that the tids of searches and
  of requests are among the last `starts` ones given out, that no two searches share one, that requests
  under the tid of a search are about its hash, and that who replied was asked for that hash. The hypothesis is the code's own limit, a 16-bit
  counter: beyond it tids come round, and a request of 65536 searches ago may be answered.
* `NoUnsentAcks`, `EndsAnnounced`: `AckedWasAnnounced` and `CompletionAnnounces`, where every
  search has a port, no reply is broken and every reply carries a token (`AllAnnounce`). The run that
  checks them has the same hypotheses, and they are needed: `search_step` marks a node without a token as
  acknowledged
  without sending it anything. The invariant
  (`AnnounceInv`) adds that who replied gave a token and that who acknowledged was sent an `ap`.
* `OnlyNearerReplace`: `KeepsNearest`, for every array size and every distance that tells nodes
  apart.
* `AlwaysScheduled`: `NeverForgotten`, with the types. `dht_search` makes a search due at once, the
  tail of `dht_periodic` sets the next deadline as long as a search runs, and no message begins one.

**KnownNodes_proofs**, the routing table. The invariant (`IInv`) has three parts. `Table`: the buckets are blocks of
ids, each half as long as one it was cut from, and only blocks with our own id were ever cut; every
node is in the bucket of its block or loose, once; each count is the number of nodes and within the
capacity, in the middle of a split too. `Others`: times, counts of requests and the state of the call. `OnlyGoodLoose`:
what is loose in a split is good, and so are the nodes of the bucket that is split, since
`new_node` splits only a bucket of good nodes. Without it `GoodNodesStay` is not to be had: what a
split drops is known to have found its half full of good nodes only because all were good.
`AlwaysWellFormed` (`WellFormed`) and `GoodNodesAreKept` (`GoodNodesStay`) follow, for ids of any length; the
arithmetic of the middles of blocks (lowest bits, odd multiples of powers of two) is the first
part of the module.
`NearestAreOffered` (`OffersNearest`): the order of `xorcmp` is shown to be a strict total order
of ids through their first different bit (`FirstDifference`); ids of the target's block are nearer than
all others (`BlockNearer`); `insert_closest_node` keeps a sorted list of the nearest met so far
(`InsertKeepsBest`), and so does any order of insertions, those of three buckets one after the
other included (`FoldKeepsBest`, by least
counterexample on the number of nodes, as the folds of the libraries are unfolded by hand).

**KnownNodes_proofs**, start, end and rate limit: `RateBounded`, that from any moment on no more than two buckets and `RATE` for each
second pass. The bound itself is not inductive; the invariant (`Spent`) distinguishes whether the
bucket was last filled before the moment or after: before, what has passed and what is left are
together one bucket at most; after, two buckets and what the time *up to the filling* is worth.
`IdStays` (`IdIsKept`), for any number of daemons starting at once. That who runs has a whole id is
an invariant (`IdInv`). The rest is a property of pairs of states: once the file has the id i while
nobody is at work on one, no step gives it another (`Keeps`), since only who found no whole id goes
to work, and a daemon that starts from then on finds i. `DumpSurvives`, for overlapping ones as well: the first line of the file is a node as soon as its owner has written anything, since the others
write behind it, or nodes over it.

**DhtStorage_proofs**: `TypeCorrect`, `FreshTokens`, `OldTokens`, `PeersExpire`, `ProvenPeers`,
`Limits`, `OwnIsKept`. The properties about time are not inductive: that a token issued less than
`ROTATE_MIN` ago is still good says nothing of one rotation hence. The invariant relates age and
generation (`TokenAges`): a token of the current secret is no older than that secret, one of the old
secret is at least as old as the current one and at most a late rotation older, and one that is
worth nothing is at least `ROTATE_MIN` old. Likewise a peer's age is bounded by its life plus the
time since the last expiry (`PeerAges`). Both use that the timers are at most `LATE` late. The
limits have an invariant of their own (`Bounded`), which says that what is listed is finite as well:
hashes and addresses may be of any number.
`ProvenPeers` and `OwnIsKept` are action properties, from the same invariant; `OwnIsKept` needs
that the entry of this node has time 0 throughout (`OwnTime`), because no announcement comes from
its address 0.0.0.0 to renew it.

**RequestService_proofs.** `Invariance` is about `IInv`: the types; `Ends` (a client holds its end of
the FIFO from its open to its own end), `Once` (a request is in the server FIFO once, or in `req`, or
answered, and in none of them before it was sent), `LastWord` (while the daemon runs, a FIFO it
has closed and that is still read holds a final answer at its end), and the four properties, which need each other: that a final answer is the last one
(`NothingAfterTheEnd`) rests on the daemon closing the FIFO it puts one into, and that no pending
request has a closed descriptor (`PendingListSound`) on requests being in the list once.
`NoEndUnannounced` (`EndOnlyByDeath`), `LossNeedsARival` (`LostOnlyToRivals`).
`OneAtATimeImplements`: for clients one at a time, without late replies or signals, each step of the
service is a step of `RequestPromise` or a stutter of it; its invariant (`AloneInv`) is that there is one request in
the whole system and that only its search runs. These are the hypotheses of `requests_alone`; without them the service does not
keep the promise (sections 6 and 7).

**TcpTransfer_proofs.** `Invariance`: `IInv` is the types, `Counts` (what is counted on one side, wire,
inbox, file, is bounded by what the other side has counted), `Places` (a connection is new, or waits
to be accepted, or is in one list), `Visits` (what the walk of a list has still to visit is in the
list, once, through removals in the middle of it), `Writes` (only an upload writes, and its file
exists), and the properties. `ListsAlwaysAgree`,
`StoredAreWhole`, `NeverTwoWriters` (an upload whose file exists is refused) and
`NothingIsLost` are its conjuncts, for any number of connections and any sizes.

**Erasure_proofs**, the pipeline. For files of any length and losses of any size.

* `AcceptsExactly`: `lrc_get_source`, which counts only (`Recoverable`), accepts a loss exactly if every
  part of it meets at least as many equations as it has chunks (`Enough`, Hall's condition). Groups are disjoint,
  so that the damaged groups have a lost chunk each of its own (`OneEach`); a part leaves over no
  more than the whole (`LeftGrows`); and each lost block is in every global equation.
* `RowsSuffice`: the rows the decoder takes, the first codes of those `lrc_get_source` names, meet
  every set of unknown blocks often enough. The local ones come first, so that what has to be shown is that the
  global ones fill up what they leave.
* `RefusedOrRows` (`RefusedOrHasRows`), `SourcesAreEnough` (`SourcesSuffice`), `TypeCorrect`
  are the invariants of the run and its types, and `Limit` (`LimitIsRecoverable`) what the first
  says of the losses the README is about; their invariant `IInv` ties the outcome
  to the loss that is there and the result to what was read.
* `LossWithinLimit`: no loss of up to one chunk more than there are global codes is refused.
  `GroupsFit`: of the numbers of blocks from 4 to 191 the library refuses the code for five and for no
  other.

They say which equations there are and that they are enough by count, whatever the coefficients;
`SourcesAreEnough` is about what happens if the decoder solves them, for last blocks shorter than
the others. That it does solve them is not a theorem, and not true of every loss (section 7): the
coefficients are computed, and only the runs do so.

**Galois_proofs** and the rest of Erasure_proofs are about the arithmetic the coder computes in, for
every width and every polynomial below x^w, a primitive one or not (`IsGF`), and for words and regions
of any content. What is said of a method is in Galois_proofs; `AcceptedIsAlwaysReady`,
`EveryMethodIsTimes`, `EveryFieldMultiplies` and `ProductsAlwaysAgree`, about the fields the calls of a
program make, are in Erasure_proofs.

* The reference `Times` is a product as one expects it: the turns of `Reduced` keep sums and
  doublings (`ReducedSum`, `ReducedDouble`), so that it is associative, commutative and distributive
  (`TimesIsRing`), and a quotient computed as the product with an inverse undoes the product
  (`DivisionUndoes`).
* The loops of the methods compute it: `BytwoPIsTimes`, `BytwoBIsTimes`, `ShiftIsTimes`. The
  invariant says what the i highest, or lowest, bits of the multiplier make of the other factor. A
  loop is a recursive function given by CHOOSE; `LoopExists` (CommonFacts) shows that there is one
  and `LoopKeeps` is the induction over its turns.
* `CarryFreeIsTimes`: a reduction lowers the degree by the gap between x^w and the next bit of the
  polynomial, so that r of them are enough if r times the gap is w - 1 or more. `ReductionsSuffice`:
  the numbers that `gf_w4.c`, `gf_w8.c` and `gf_w16.c` choose are, for the polynomials
  `gf_error_check` lets through. `NeonTwiceIsTimes`: the NEON function with two reductions, too;
  those with three and four are not (section 7).
* Many words at a time: `PackedBytwoPIsTimes`, `PackedBytwoBIsTimes` and, for the loops written
  for small multipliers, `SmallLoopsAreTimes`. What has to be shown is that no bit of a word gets
  into the next (`WordOfDouble`).
* Regions: `RegionIsTimes` says that the words before the middle, the middle and those after it are
  the words of the region, each once (`SpanOfWords`, `InPartsIs`), at every address and for every
  size; with it `BytwoRegionIsTimes` and `CarryFreeRegionIsTimes`. Its hypothesis `RegionCall` is
  that the call is one `gf_set_region_data` does not end the program for, and that the region
  reaches up to the first aligned address. The multiplication of one word enters through `SlowOp`,
  as a hypothesis that the theorems above meet. The middle of `gf_w4.c` for the multiplier 9, which skips words (section 7), is not
  among those `BytwoMiddles` lists.
* Powers of x: `FullOrderIsCycle` and `NotMetIsCycle`, that the tests for a primitive polynomial are
  right, that is, that a field whose powers of x pass one has them meet every word but 0 once before they
  come back to 1. A power is a product (`PowerIs`, `PowerOfPower`), the word before is determined by
  the next (x divides no unit), and there are no more words than turns (`SameSize`, `WordCount`), so
  that a sequence that meets 1 late has met all.
* `AcceptedIsAlwaysReady` (`AcceptedIsReady`): what `gf_error_check` lets through is initialised,
  with all functions a field needs and with tables that `gf_scratch_size` measured, or is one of
  the calls that section 7 lists. The invariant `FieldInv` says of every field made that it is a base
  field a caller may ask for, or a composite one on such a base, and of a field whose initialisation
  has run that `Settled` holds: it fails only in the named cases (`W4Fails`, `W8Fails`, `W16Fails`,
  `WgenFails`), and otherwise is `Complete`. Each width has its lemma, one step per method; the
  ones with logarithms rest on the powers of x above, since an initialisation that
  fills the logarithms fails where a power comes back to 1 too early. The assumption is
  `FieldAssumption` (GaloisFields), that the calls are what a program can make.
* The methods with tables, each of which computes `Times`: `LogsAreTimes`, because the powers of x
  make a cycle and an entry of the logarithms is where its word is met; `TablesAreTimes`, because the
  entries are products; `Split88IsTimes`, `Group44IsTimes`, `GroupsOfOneSize` and `GroupsOfTwoSizes`,
  because an entry is the product by a sum of powers of x, and the pieces of a word add up to it. In
  GROUP the reductions are put off: after i groups the rest stands for the i highest groups times the
  other factor, and what was shifted out above x^w is brought down by a table of the multiples of the
  polynomial, at once where the two groups have one size and at the end where they have two.
* `EveryMethodIsTimes` goes from there to the choices: for the record of functions that an init
  function leaves (`Built` says what was checked and what the initialisation computed), `MultiplyWith`
  is `Times`, whichever function it is, the cases of `WrongProduct` apart. There is a lemma for each
  width with a step for each function. For CARRY_FREE it is here that the number of reductions chosen
  is shown to be enough (`ReductionsAre`, `ReductionsAre16`), and for the logarithms that those the
  model keeps are those of the cycle, of GF(2^16) by the Chinese remainder of 255 and 257.
* `EveryFieldMultiplies`: on top of fields that multiply, a COMPOSITE one does. Both composite
  functions, the recursive one and the one that reads the base field's tables directly, make of two
  halves what polynomials over the base make (`CompositeIsRef`, `CompositeAgrees`); a base field
  computes `Times` in words of half the width. `Chain` says of a field and its bases what the layers
  ask of each other.
* `ProductsAlwaysAgree` (`ProductsAgree`): in every state two words have been taken of a field that
  computes, `Multiply` is `Ref`. The invariant, `ProductInv`, adds to `FieldInv` that a field that may
  be used is a `Chain`: it was made by the calls of `gf_init_hard`, in the order of its layers. It is
  needed since `ProductsAgree` speaks of a field of any shape, and a record with the name of a function
  of another width is one too.
* The functions that divide. `LogsUndo` and `TablesUndo`: a quotient found by subtracting logarithms,
  or by searching a row of the table, gives the dividend back when it is multiplied by the divisor, if
  the powers of x make a cycle; LOG_ZERO_EXT divides 0 by 1 wrongly, which the statement leaves out.
  `EuclidIsInverse`: where the polynomial is `Irreducible`, `gf_w8_euclid` and its siblings return the
  inverse of every word but 0, with any function that multiplies. What each turn keeps (`EuclidStates`)
  is that the two cofactors times the word are the two remainders, and that what divides both
  remainders divides the polynomial, so that the last one is 1. The division inside the loop is
  `LongDivisionIs`: dividend is quotient times divisor plus rest, and the rest has the lower degree.

**Only model-checked.** Liveness, which rests on fairness: `Terminates`, `SplitsEnd`,
`SilentNodesLeave`, `NodesGetWritten`, `EveryConnectionEnds`, `RestIsStored`, and the liveness in
`KeepsPromise`. `OneGroupIsDecoded`, because the coefficients are the result of eliminations. And
two invariants of the run of the Galois fields. `QuotientsUndo` is not a theorem
for every polynomial: it needs one without factors, and for COMPOSITE that the polynomial the library
picks has no root in the base field, which is a computation over that field and not an argument.
The quotients of logarithms and tables and Euclid's inverses are theorems all the same; the inversion
of a matrix, and inverses over a base field, are checked there only. `RegionsAgree` is about every
function for regions at once; the theorems above cover those of BYTWO and CARRY_FREE, the run alone
those of the methods with tables, ALTMAP, CAUCHY and COMPOSITE.

## 6. Findings

1. **A reply after the end brings the daemon down** (`requests_crash`). The callback uses
   `requests->clientfd` without looking whether there is a request. A node that answers when the
   search has ended is still reported (`find_search` finds searches that are done). One client, its
   DONE, one late reply.
2. **Blocks that need no repair are not read** (`erasure_whole`). `download` reads the sources of
   `lrc_get_source`, which are those the *lost* blocks are decoded from. With nothing lost, nothing
   is read, and the file written is what the memory held.

## 7. Other divergences met

Seen while modelling, kept in the models as the code has them, and not made into runs of their own.

* Searches: `add_search_node` queries every node that turns up, so the in-flight limit of
  `DHT_INFLIGHT_QUERIES` is exceeded; nodes enter searches that are over, against the comment at
  1186; a reply of broken length is blacklisted and then recorded as having replied; a second call
  for the same hash replaces the port of the first, and a late find_node reply, which has no token, replaces
  the one a node gave.
* Requests: answers go to the head of the list, so a client may be told of another's hash; the first
  DONE frees the list, and the other clients hear nothing more; `request_num` is never decremented,
  so that after `MAX_REQUEST` requests every client is refused; the open of a client's FIFO blocks
  the daemon if that client is gone; a client that reads end of file acts again on the last answer.
* Transfers: an upload of which nothing is missing after the header's recv is never stored
  (`filelen == 0` is tested only when more of the file comes, `dht_daemon.c:240`): it stays in the
  list until its peer closes, is on the disk, and is not in the DHT; hence `RestIsStored` speaks of
  the rest. A download of a file that is still being received gets the part that is there and
  takes it for the whole; one of a missing file ends as an empty success; a partial upload stays on
  the disk and keeps out all later ones; lengths of more than eight digits are cut; a downloader
  that does not read stops the daemon; our own entry is served with the address of the listening
  socket, 0.0.0.0.
* Storage: `dht_storage_store` refuses our own entry when the hash has peers (`dht.c:1481`), which
  the code comments as impossible; downloads announce their hash before anybody has the file, so
  that one announced before it arrived is never listed as ours.
* Daemon: `.nodes` is truncated at every start (`dht_daemon.c:715`) and written only at a dump, up to
  1000000 seconds later, while `dht/README.md:16` has it keep the nodes for the next start: a daemon
  that dies before its first dump leaves no node. A dump is appended to the one before, and a start
  reads the first 20 lines: those of the oldest dump. A second daemon that is started by mistake
  fails to bind, but has truncated the first one's file by then. Two daemons *starting* at once may
  both find no id file and write one after the other, and run on with different ids until they
  end: nothing locks the directory. `IdIsKept` is about every start after that. `time_dump` counts the seconds the loop meant to sleep, not those that
  went by. A clock that steps back makes `token_bucket_tokens` negative (`dht.c:1854`), which is
  why the models' clocks do not.
* Erasure coding: `src/erasure_code/README.md:76` guarantees recovery when fewer blocks are lost than
  global codes and one, but of a file of 13 blocks, with four global codes, losing the blocks 0, 1, 4
  and 5, two in each of two groups, is accepted, and the matrix of the two local codes and the first
  two global ones is singular, so that `jerasure_invert_matrix` gives up and `download` exits: the
  coefficients of ReedSolomon give this, as the library does. Beyond that limit such losses begin with
  files of six blocks, and are among those of `erasure_loss`; hence `OneGroupIsDecoded` speaks of one
  group. A full last block is dropped by `combine_blocks` (`last_blocklen` is 0); the tail of
  a short last block enters the codes as the memory held it; files of five blocks are refused by
  `lrc_init_n`; between 128K and 16M the remainder is taken of 2612144, so that a multiple of that number is cut
  into one block too few, the last block overruns its buffer in upload and download and the file is
  written short (13060720 bytes: 262144 too few); up to 320 blocks meet an array
  of 64 names; without a local code block the block length is never set; `strcpy` drops the
  directory of the blocks to be moved.
* Galois fields. None of these is met with the methods `galois.c` asks for by default.
  * `gf_w4.c`, BYTWO_b without SSE, multiplier 9 without xor: `d64++` twice in one turn (near 1733),
    so that only every other word is written, in the regions of ALTMAP on ALTMAP over such a field
    too (`WrongRegion`).
  * `gf_wgen.c`, GROUP with arg1 = w and arg2 another number is let through and computes something
    else; `gf_w4.c` QUAD and LAZY with a polynomial that is not primitive reads logarithms that were
    never written (692–732), as `gf_w16_log_zero_init` does, which never compares (1874–1910);
    `neon/gf_w8_neon.c` is wrong where a polynomial needs a third or fourth reduction
    (`WrongProduct`).
  * `gf_w8.c`, LOG_ZERO_EXT: 0 divided by 1 reads an entry that was not filled (`WrongQuotient`).
  * `gf_error_check` lets CARRY_FREE_GK through for 4, 8 and 16 bits, CARRY_FREE for 16 bits in NEON
    builds, which have no function for it, against the comment in `gf_init_hard` that what was
    checked does not fail; `gf_w16_split_init` ignores what `gf_w16_log_init` returns, which leaves
    multiply NULL for a polynomial that is not primitive and has a term from x^13 to x^15, in a
    PCLMUL build (`MayFail`). COMPOSITE without a base is let through and then dereferences NULL or
    fails, depending on the polynomial given; the model's callers give one.
  * `gf_set_region_data`: for a region shorter than the gap to its alignment, the middle starts
    beyond the end; for CAUCHY `d_top` is set from the source (`gf.c`, near 822), and the loops for the ends run on beyond it. Regions of the run
    reach their first aligned address, and only the source's pointers are used in the models.
  * `GF_MULT_GROUP_SIZE` is a macro without parentheses (`gf_w16.h:18`): `-GF_MULT_GROUP_SIZE + 1` is
    -65536 and not -65534. LOG_ZERO of 16 bits is right only because of it (`LogOfZero`, whose mutant
    has the parentheses).

## 8. Not modelled

Parsing and formatting of messages; start-up options, becomeDaemon and the FIFOs of the daemon, a
straight line of system calls whose failures exit; an fopen of `.nodes` that fails; failing disk
writes and failing accepts; IPv6, which has lists of its own with the same code; failing
allocations; file names and paths; MD5; jerasure's bit matrices and schedules, which the program does
not use; fields of 32, 64 and 128 bits (`gf_w32.c`, `gf_w64.c`, `gf_w128.c`), the same methods at
widths where the reference itself is out of TLC's reach, and which are asked for only if the caller
of the LRC library sets w; how many registers or words a vector loop handles at a time; `cauchy_best_r6.c`,
a table; build files and reports.

## 9. Plan

Done: DhtSearch; Fifos, ClientProcess, RequestDaemon, RequestService with its abstract
RequestPromise; TcpTransfer; DhtStorage; Erasure with ReedSolomon; RoutingTable with NodeOffers; DaemonStart, RateLimit and
Daemon; the Galois modules; the theorems of section 5, which are all the safety properties of the
runs but one of the coder and two of the Galois fields, and of those the regions of the methods without tables.

Next, most important first:

1. **More Galois proofs**: the regions of the methods with tables, which look up word by word what
   `TablesAreTimes` and `LogsAreTimes` have, through `RegionIsTimes`; the layouts of ALTMAP; the
   inverse by a matrix of bits, and inverses over a base field where its polynomial has no root.
2. **Service composed with transfers**: a daemon whose `dht_storage_store` calls come from
   TcpTransfer and feed DhtStorage, with an abstract "file store" (a file found was uploaded whole)
   that the composition implements where sections 6 and 7 allow it.
3. **Wider fields**: GF(2^32) over GF(2^16), whose COMPOSITE methods are those of GaloisComposite.
4. **Solvable losses**: which losses beyond those of `OneGroupIsDecoded` the code of a given number
   of blocks repairs, and a proof that the rows of an extended Vandermonde matrix do in one group.
