# A TLA+ model of FREE-AI

FREE-AI is a peer-to-peer node in C++: it registers with seed nodes over UDP,
exchanges peer lists, keeps a Kademlia routing table, punches holes through NATs,
and runs a local language model that manages its own conversation memory. This
directory holds TLA+ modules that model the program's own logic, TLC
configurations that check them, and TLAPS proofs. Paths below are relative to
the root of the repository; `PM` stands for `src/network/PeerManager.cpp`.

## 1. The system and its hard behaviours

| Component | State | Operations | Interacts with | What makes it hard |
|---|---|---|---|---|
| Seed tracker (`PeerConnectionTracker`) | state, retry count, delay, time stamps | SetState, ShouldRetry, RecordRetryAttempt, TryRecover | seed loop and listener, one mutex per tracker | two clocks, retries, recovery |
| Seed registration (`PM` 626-780) | `m_seedTrackers`, the static `dhtDiscoverySent` | ConnectToSeeds, SendInitialRegistrations, SeedRegistrationLoop | listener, under `m_networkMutex` | three threads, copies of state, critical sections split by sends |
| Registration (`PM` 159-398) | `m_peers`, `m_peerPublicKeys`, routing table | REGISTER, REGISTER_RESP, REGISTER_ACCEPTED, REGISTER_FAILED, PEER_LIST | other nodes, over UDP | loss, repetition, delay, restarts with a new identity |
| Coordination (`PM` 332-542, 1027-1207) | `m_failureReports` | introductions, coordinated punches, failure reports | a super node and two peers | repeated and late reports, one packet type for two purposes |
| Hole punching (`HolePunchManager`, `PM` 847-999) | single-port and multi-port sessions | StartPunch, Cleanup, ShouldSendPunchAuto, RecordAttempt, MarkSuccess | punch thread and listener | three mutex acquisitions per punch, late acks, time-outs |
| Punch strategy (`HolePunchManager` 756-996, 1121-1172) | a tracker per peer, the ports of multi-port sessions | StartPunchAuto, UpdateTrackerAfterAttempt, SwitchToMultiPortPunch, RecordPunchSuccess | punch thread, listener, callers of the class | two mutexes, check then act, a mutex taken twice |
| Envelope (`PacketSecurity`) | one compression buffer | PrepareOutgoing, ProcessIncoming | all threads that send | a buffer shared without a lock, order of signing and compressing |
| MiniLZO (`minilzo.c`) | dictionary, positions in two buffers | lzo1x_1_compress, lzo1x_decompress_safe | PacketSecurity | lengths at the limits of codes, copies of 4 to 16 bytes at once, untrusted input |
| DHT (`DHT.cpp`) | k-buckets, value store | AddNode, GetClosestNodes, StoreValue, GetValue, ProcessIncoming | PeerManager | full buckets, expiry on a 32-bit clock |
| STUN (`STUNParser`, `HolePunchManager` 43-298, `NetworkInit`) | server thread, cached external address | server loop, query, parser | main does not start it | formats, time-outs, a stop beside a query |
| Life of a node (`main.cpp`, `PM` 17-104, `NetworkInit`, `UDPSocket`) | five threads, socket, network environment | Start, Stop, the destructors | keyboard | blocking receive on a leaf node, a thread nobody joins |
| Statement memory (`MemoryManager` 572-843, `LlamaContext::Generate`) | `m_statements`, next id | append, compress, delete, by lists and ranges | the language model | ids out of order, commands that overlap or fail |
| Texts of the agent (`MemoryManager` 17-566, 856-874, `InferenceEngine`) | identity, session, conversation, archive; files of the first two | set, append, replace by lines, write, search, delete, save | Generate, main | files truncated before they are written, a mutex taken twice, line numbers counted twice |
| Context (`ContextBuilder`) | none of its own | statement context, status of the round | Generate | marks that the model may repeat |
| Configuration (`Config.cpp`, `Identity.cpp`) | sections and comments, config.ini, key pair | Load, Save, Get, Set, Generate, LoadFromPEM | main | keys over several lines, a crash in a save: a lost key is a new identity |

What makes each correct: a tracker is retried within its budget and delays and
never given up for good; Connected means that both sides have each other's key;
a signed packet sent after a handshake can be verified; no chain of lists and
restarts binds an address to somebody else's identity; a punch counts as
successful only if the other side punches too; a routing table forgets nobody it
has room for; a value is served exactly while it is kept; nothing that was said
gets lost by an edit of the memory; a payload comes out of the compressor as it
went in, within the buffers; a punched peer goes through the phases of the
strategy in their order; a query ends; a key pair once saved is found again; an
edit of the texts survives; Stop returns. The list of hazards, each at its line and
with the properties that cover it, is in `PROJECT.json`.

## 2. Modules

| Module | Models | Composition |
|---|---|---|
| `PeerConnectionTracker` | the tracker class as operators on a record, with both clocks | |
| `SeedLifecycle` | abstract: which moves between tracker states are the node's own, which need a packet | |
| `SeedRegistration` | one node: the connector, seed and listener threads | extends the tracker, implements `SeedLifecycle` |
| `SeedRegistration_proofs` | | proofs |
| `Registration` | all nodes and the network: handshake, peer lists, FIND_NODE, restarts | its trackers are checked against `SeedLifecycle` |
| `Registration_proofs` | | proofs |
| `Selection` | what a loop that skips or erases elements of a vector leaves | used by `HolePunch`, `PunchCoordination`, `DHT`, `StatementMemory`, `AgentMemory` |
| `Selection_proofs` | | lemmas for the other proofs |
| `HolePunch` | sessions, punch loop, PUNCH and PUNCH_ACK of all nodes | |
| `HolePunch_proofs` | | proofs |
| `PunchCoordination` | introductions, coordinated punches, failure reports | starts the punches `HolePunch` models |
| `PunchCoordination_proofs` | | proofs |
| `PunchStrategy` | trackers, phases, ports of multi-port sessions | chooses the sessions `HolePunch` models |
| `DHT` | routing tables, lookups, values | filled by the handshakes and lists of `Registration` |
| `STUN` | messages in bytes, server, queries, cache | |
| `Services_proofs` | | proofs about `DHT`, `PunchStrategy` and `STUN` |
| `PacketSecurity` | the envelope and the threads that compress | carries the packets of the others |
| `MiniLZO` | compressor and decompressor in bytes | what `PacketSecurity` compresses with |
| `PacketSecurity_proofs` | | proofs about `PacketSecurity` and `MiniLZO` |
| `StatementMemory` | statements and the loop of `Generate` | |
| `AgentMemory` | identity, session, conversation, archive, their files, line numbers | |
| `ContextBuilder` | the context of a round with its status | shows the statements of `StatementMemory` |
| `NodeLife` | main, the threads, Start and Stop, socket | runs the loops that the other modules detail |
| `Agent_proofs` | | proofs about `StatementMemory`, `AgentMemory`, `ContextBuilder`, `NodeLife` and `ConfigFile` |
| `ConfigFile` | config.ini line by line, the key pair in it | gives `Registration` its identities |
| `MC...` | instances for TLC | `MCPeerManager`, `MCServices` and `MCAgent` put several modules into one run |

`MCPeerManager` (seed trackers, envelope with its compressor), `MCServices` (DHT,
strategy, STUN, coordination) and `MCAgent` (statements, texts, context, node,
configuration) compose components that share no variable, and that no code makes
wait for each other beyond what each module holds: the parts are explored one at a
time, each while the others stand in their initial states, since the product of
their states would show no more of any of them. Fairness is that of the part: a
liveness property is about the behaviours in which its part runs.

Names are those of the source wherever TLA+ allows. Each critical section, each
stretch between two critical sections that reads or sends, and each packet
handler is one action; the map in `PROJECT.json` names the lines of every
definition. Definitions marked as mutants in a comment are plausible bugs: the
definition below them, replaced by the mutant, violates a property. They are not
part of any specification.

### Correspondence, module by module

**SeedRegistration.** `trackers` is `m_seedTrackers`; a tracker keeps
`since = std::time - last_attempt_ts` instead of the two stamps, saturated where
no comparison can tell values apart. `EpochOffset` is what the wall clock is ahead
of the steady clock: `RecordRetryAttempt` stamps with the latter, `ShouldRetry`
compares with the former. `ConnectToSeeds` is `CreateTrackers` and
`SendInitialRegistrations`; a pass of the seed loop is `ReadClock` (before the mutex)
and `RegistrationPass` (the whole pass, sends included, under it); REGISTER_RESP
is two actions because the code sends between two critical sections. The seeds
may send anything at any time, or nothing.

**Registration.** `net` holds packets; with `Replays` every packet ever sent may be
received at any time and any number of times or never; without, each is received
at most once, and those of `Lossy` may vanish. A key stands for the PEM text and
the ids derived from it. `Restart` empties everything a process holds and takes
the same identity or a new one, which is what `main.cpp` 69-89 does with a
configuration that is there or is not. `m_peers` keeps the entry of a known
address (AddPeer), so the new key of an address is stored by peer id but never
used to verify: the model does the same.

**HolePunch.** Time is counted in punch intervals. The punch thread is `Cleanup`,
`GetActiveSessions`, and for each peer of the snapshot `CheckSingle`,
`SendPunchPacket`, `RecordPunch`, each under the mutex for itself. PUNCH packets
have a plain header that a receiver takes only when the low half of the time
stamp is zero: whether a packet is taken is left open.

**PunchCoordination.** One packet type, PT_COORD_HOLE_PUNCH_FAILED, carries the
reports of peers and the refusals of the coordinator, and a super node that
receives a refusal records it as a report: the model sends and reads both alike.

**DHT.** A node is its address and has one id. STORE, GET_VALUE and its answer are
modelled as `DHT::ProcessIncoming` takes them; in the program packets go through
`PeerManager::ProcessDHTPacket` (`PM` 548-568), which drops them, so that no value is
ever stored, although README.md:205 speaks of full support.

**PacketSecurity.** A packet is prepared, compressed (an action of its own, during
which other threads may be compressing with the same buffer) and sent. A
compression that has met another may yield any stream.

**MiniLZO.** `in`, `out`, `packet` and `dec` are the buffers, positions count from 0. A
step is a pass through the loop of do_compress, or the code between two labels
of the decompressor, with the branches the preprocessor leaves for x86-64. Copies
of 4, 8 and 16 bytes at a time are copies of what they leave in the buffer; `top` remembers
how far they have written. `DINDEX` is a parameter, since no property may depend on
which matches are found.

**PunchStrategy.** The class has two mutexes: each action is what is done under
one of them, or under one inside the other. The check of the punch thread and
its switch are two actions (`CheckSwitch`, `ActOnSwitch`), since the mutex is free in between;
RecordPunchSuccess is three. It locks `m_mutex` a second time when the peer has a
multi-port session: the thread then waits for itself (`stuck`, and with it all that need the
mutex) or the call goes on. Of the operations only the punch thread's switch and StartMultiPortPunch are
reached in the program.

**STUN.** A message is a sequence of bytes, with the structures of the source laid
out in memory order, so that what server, client and parser each take for the type, the
cookie or an attribute is what they read there. `arrived[t]` is the buffer of the query
socket; the 5 s of a query are a number of polls.

**NodeLife.** `main` is the position of main. Start binds the socket (super node) or
fails to (leaf). The sockets are those of Windows, for which main is written
(`_kbhit`, `Sleep`): receiving from a socket that is not bound fails at once, sending binds it,
and only a bound socket that blocks keeps the listener. `Joining` are the stages of
PeerManager::Stop. Returning from main destroys the PeerManager (whose Stop finds
nothing left), and its DHT, which joins the refresh thread.

**StatementMemory.** A statement is the ids of what has been said that it still
stands for, and `said` is the history of all ids given to a prompt or an answer that
became a statement; a response is the commands found in it, in the order in which
ExtractStatementCommands finds them. As the code is, the patterns are malformed
and the first response ends the process (`PatternsCompile = FALSE`); the run checks the
operations with patterns that compile. A range with a number that std::stoi does not
take ends the process too, after the commands before it (`ThrowOutOfRange`). An engine that were initialised a second
time would start its ids anew; main initialises it once.

**AgentMemory.** Texts are sequences of words and line ends. SaveToDisk is four
actions (open and write of two files, opening empties) under the mutex, and a crash
may come before each. `Relocks` holds what a mutex that its own thread locks again may do:
the standard leaves it undefined. `ShownFirst` counts lines as ContextBuilder
does, `SectionStart` as ApplyReplaceCommand does.

**ContextBuilder.** A context is a sequence of pieces: statements and the marks and
text of the status block. A statement may itself hold a mark, or a whole block that the
model has repeated.

**ConfigFile.** A line is its kind and what is in it; a PEM key takes several. Load
goes through them as the code does, with the comment that waits and the key that is being read;
Save is a step per line, each of which is flushed.

## 3. Runs

| Run | Instance | Question and answer |
|---|---|---|
| `peer_manager` | one seed, wall clock ahead; four threads, one packet each, of every kind they send; compressor and decompressor over payloads and foreign streams | no seed is forgotten or given up for good, its retries stay within the budget; FIND_NODE goes out once all are connected for good; the node implements `SeedLifecycle`; signed packets arrive whole or not at all; untouched packets are taken; harm needs a thread without the mutex; what is compressed is restored, in a buffer of the promised size; no stream leads out of the buffers |
| `seed_backoff` (violated) | the same seed | "Exponential backoff: 2, 4, 8, ..." does not hold: after an attempt the delay has always elapsed |
| `reg_clients` | three nodes on 127.0.0.1, one client and seed at once, every packet any number of times | keys are mutual, lists verify, of two clients one hears of the other, nobody is its own peer, trackers follow the lifecycle |
| `reg_restart` | client and seed, one restart of either, any packet lost | tables bind no address to a foreign identity; the client gets connected |
| `hole_punch` | two nodes, one asked again after a time-out, a multi-port session beside | attempts are paced, one live session per peer, success is mutual, sessions end |
| `services` | the DHT of a seed and two clients, buckets of one node; the strategy for one peer; two threads that query STUN beside a server that starts and stops; a coordinator and three peers, one of which is a super node too, with three failure reports | tables forget only for lack of room, answers are the closest, values are served while kept; phases only advance; every query ends; multi-port punches only when due |
| `punch_pairs` (violated) | a coordinator and three peers, one of which is a super node too; four calls | "For each pair of failed peers" (`PM` 1155): only the first two are ever told |
| `envelope_punch` (violated) | the four threads | punch packets sent "in plain format" (`PM` 407) are not taken by a receiver |
| `agent` | two rounds of two commands, ten ids; texts of three words with crashes; six statements with marks; a node with and without seeds; configuration files as users write them, two key pairs | nothing said is lost or doubled, order is kept; an edit survives; the context is whole, unless a statement opens a block that it does not close; only silence keeps Stop waiting; the key pair is kept and the settings survive |
| `replaced_lines` (violated) | the texts | "You can reference and replace any line" (ContextBuilder.cpp:210): with a warning shown, the number of a line of the identity replaces the next one |
| `comments_lost` (violated) | the files and key pairs | "Save to file (preserves comments and multiline)" (Config.hpp:32): of two comments in a row only the later is kept |
| `stop_returns` (violated) | the node | "Press x to stop" (`main.cpp` 90): a leaf node that is sent nothing waits in recvfrom for ever |

The properties of the runs are what could go wrong; the type invariants are kept in
the modules and, for the modules that are proved about, are part of the proofs.

### Bounds, and why they are enough

* Seeds: one. Trackers do not interact but through AllConnected and
  the search for the first of an address; what a seed that is configured twice leads to
is proved (`DuplicateBlocks`).
  Retries 2, delays 2, 3, 4 instead of 10 and 2, 60, 300: the budget is passed,
  the cap is reached on the second attempt, and recovery is later than backoff.
  `EpochOffset = 100` is past every delay, as the time since 1970 is on a machine that was
  not booted then. `MaxLag = 1` lets a thread use a clock value of a second ago. `MaxCount` stops packets
  to a seed whose counter is past it. The proofs have no such bounds.
* Registration: three nodes are the fewest with two clients of a seed, and with a
  node that is both; ten listed peers are more than there are. One restart is
  enough for every kind of stale packet, two identities for a wrong binding.
* Hole punching: `MaxAttempts = 2` with starts up to time 2 gives a session that times
  out and is asked for again before and after it is cleaned up, and success
  while another is live.
* Coordination: with three reporting peers the first two, the last two and a late
  pair differ; the requesting super node shows a refusal read as a report.
* DHT: ids of three bits and buckets of one node overflow with two clients; TTL 1
  and a horizon of 2 pass the expiry; one STORE and one GET_VALUE call, each of
  whose packets may come again.
* Strategy: two attempts in either phase, so that one is not the last, ranges of
  0 to 2 ports, a thread that reports beside the punch thread and the listener. Peers share
  nothing but the mutex; the proofs are for any number.
* STUN: two threads, two queries, sockets that hold one packet: an answer to an earlier
  query comes to a later one, and packets are lost; a second server start finds the first.
* MiniLZO: the offsets at which codes change are 16 and 32 instead of 0x800 and
  0x4000, a block has 64 bytes instead of 49152, so that inputs of up to some 150 bytes
  reach every kind of match, a second block with literals carried over, and the ends where
  fewer than 20 bytes are left; a few of up to some 700 bytes have literal runs and matches
  whose lengths take more than one byte. The foreign streams are all strings of up to four
  bytes out of seven that begin the codes, and of up to three after literals that a match
  can refer to, each with a room too small and one that may do. `StaysInBounds` is proved for all streams and sizes.
* Texts: three words and line ends make sections of no, one and two lines; one archive
  file of two names that are the same file; a crash at every step.
* Context: six statements and three rounds: two blocks, before and after the status.
* Node: nothing is bounded; a packet waits or does not.
* Configuration: the files have comments, sections that come twice, entries outside of
  sections, a public key without a private one; two generated pairs let a second one
  replace the first. `IdentityIsKept` and `SettingsSurvive` are proved for files of any length.
* Envelope: two threads that lock, two that do not, so both an excluded and a possible
  race; one packet each suffices, as a compression leaves nothing behind.
* Statements: ids up to ten allow a summary of a summary, a range with ends out of order,
  and a second prompt over what the first has left.

Symmetry is used in `punch_pairs` only, for the two clients that no constant tells
apart; it checks an invariant. Deadlock is checked in `seed_backoff` and `hole_punch`, whose
threads never stop; in the others a bound on calls, packets or ids is where the
model, or one of its parts, stops.

### Fairness

* `SeedRegistration`: weak fairness of the threads and of time. The threads are loops
  without exit while the node runs, and every wait is for a mutex held for a
  bounded time. Nothing is assumed of the seeds.
* `Registration`, `FairSpec`: the seed loop registers a seed that is not connected again
  and again, which is what `KeepsTrying` of `SeedRegistration` shows. Strong fairness of the
  receipt of REGISTER and its answer: of packets sent again and again some arrive.
  A lost packet is never resent by anything but the loop.
* `HolePunch`: time passes, and the punch thread runs.
* `STUN`: a thread that polls goes on; the server and the network do what they like.
* `NodeLife`: the joining main, the listener, the punch, seed and refresh threads run
  when they can, which a blocked listener cannot. Nobody has to press a key or send
  a packet, and the detached thread need not wake up.

The other specifications state safety only and assume nothing.

## 4. Proofs

Checked by TLAPS for every value of the constants that the named assumptions allow.

**`SeedRegistration_proofs`** (assumptions: `TrackerAssumption`, the order of the delays and that
six doublings reach the maximum; `SeedAssumption`). The properties are not inductive:
`RetryBudget` needs that the count of a Disconnected tracker is zero, and the
claim about discovery needs that a shadowed tracker is never Connected. `SeedInv`
adds what holds of one tracker whenever the mutex is free (`Sound`), of the history
kept for it (`Kept`), and of the time before ConnectToSeeds (`Created`). One lemma shows
that every method keeps a tracker sound, one that a pass does; each action then
needs only the trackers it touches. From it follow `TypeCorrect`, `BudgetKept`,
`DelayConsistent`, `NoneForgotten` and `DuplicateBlocks`. `NodeImplementsLifecycle` shows the
refinement: every step of the three threads is a step of `SeedLifecycle` or a stutter.
`GivenUpForOnePass` is about the delays, which the code does not keep: on a machine whose wall
clock is ahead of its steady clock by more than any delay (`EpochOffset >= Horizon`, every machine that
was booted after 1970) a seed given up in one pass is registered again in the next. Its
invariant is `Overdue`: a stamp that the steady clock gave is long past by the wall clock.

**`Registration_proofs`** (`RegistrationAssumption`). `GenuineInv` says that everything stored *or under
way* is genuine, and holds with any number of restarts: identities only grow, so
what was genuine stays so (`KeysAreGenuine`, `TypesAreKept`). `HandshakeInv`, under `MaxRestarts = 0`, says what a packet
proves about its two ends: whoever sends REGISTER_RESP or REGISTER_ACCEPTED knows the
receiver, whoever is sent an acceptance or a list knows the sender. With a restart
it is false: a seed that has lost its tables is still Connected at its clients.
It gives `KeysAreMutual` and `ListsAreVerified`. `OwnInv` adds to `GenuineInv` that a REGISTER
or its answer never comes from its receiver, which a lost or repeated packet cannot change;
`NeverOwn` follows, with restarts. `TrackersInv` adds that the trackers of a node are
created together, so that ConnectToSeeds finds all of them absent; from it `TrackersFollow` shows,
action by action, that each node's trackers implement `SeedLifecycle` among the others. `ListsInv` adds to
`HandshakeInv` that of two lists of one sender the later holds all that the earlier one does, and that
a list holds its addressee; from it comes `OneIsIntroduced`, for any number of nodes, without
restarts: a node that restarts begins its lists anew.

**Selections and induction: `Selection_proofs`.** Loops that erase elements of a vector are `Selected`, a
selection of positions, rather than SelectSeq, whose definition the provers cannot use.
`SelectedProperties` says that it has the elements at these positions, each once and in order.
The induction theorems of the library cannot be instantiated, so a proof by induction takes the
least number for which the claim fails (`LeastNumber`): that is how recursive functions (AddNodes,
FlattenSeq) and sorted answers are reasoned about.

**`HolePunch_proofs`** (`HolePunchAssumption`). None of the three properties is inductive. `PunchInv` adds that
sessions, and the acknowledgements under way, are of punches that were begun (`SessionsBegun`,
`AcksBegun`), that the snapshot a pass goes through names a peer once (`WorkDistinct`), and how far
the attempts of a session may be at each point of a pass (`Paced`). It is the last that makes three
separate holds of the mutex safe: whatever is started, finished or erased between check and
record, a session for which an attempt may still be recorded has been below its limit
since the pass began. `RateIsLimited`, `OneSessionAPeer` and `PunchesAreMutual` follow.

**`PunchCoordination_proofs`** (`CoordinationAssumption`). `PairsAreFirst` says that whoever was ever told to
punch several ports is one of the first two reporters of its coordinator, which no later report
changes, since reports are only appended. `MultiPortOnlyWhenDue` follows. It is
also why all later pairs are forgotten (`punch_pairs`).

**`PacketSecurity_proofs`** (`PacketAssumption`, `MiniLZOAssumption`, `FormatAssumption`). `PacketInv`: what is under way was made by
PreparePacket and at most replaced by what a race in the buffer makes of it (`Excused`); threads
that lock compress only while they hold the mutex, and meet none that lock. From it come
`SignedStayIntact`, `PreparedAreTaken` and `OnlyUnlockedHarm`. For MiniLZO, `DecodeInv` gives, label by label, what the checks of
the decompressor have established about the bytes that are left and the room that is left;
`DecompressStaysInBounds` follows for every stream, well formed or not, and every size.
`CompressInv` is about the compressor: at each point between two matches 16 times what is
written is at most 17 times what has been encoded, since a match of at least four bytes is written
in no more than three and pays for one byte of the literals before it, and a longer run of literals
needs one byte more for 255. With the 64 bytes and the 3 bytes that CompressData adds (`maxOutSize`) `CompressedFits` follows for
every payload and size of block. Its hypothesis `HashesFit` says that DINDEX stays in the
dictionary, which the code gets from masking with D_MASK.

`CodecRoundTrips` is about both. What the compressor has written is described by marks, pairs of a place in the output and the
number of bytes encoded before it (`Encodes`): behind each mark stand some literals and then a match that
leads to another mark, or the end code. The set of marks takes the place of an induction over the output.
The compressor adds a mark for every match (`Written`); since it stores the number of the next one to
three literals in two bits of the last but one byte, all that it changes of what is already there, every code must be shown
to mean the same whatever those bits are (`Kept`). `BlockInv` says that the entries of the
dictionary and the first four bytes of a block are what the match search takes them for. The decompressor
stands at a mark, or behind the literals that follow it, with the input decoded up to there (`Reading`).
`RoundInv` joins the two (`CodecInvariant`). Besides `HashesFit` it needs `FormatAssumption`, that no match is further back than its
code can say: M2 offsets up to 2048, M3 up to 16384, and a block no longer than
M3_MAX_OFFSET + 32768, which 49152, the value in the code, equals.

**`Services_proofs`**. For the DHT (`DHTAssumption`) `TablesInv` says that each known node is in its bucket or the bucket is full.
`NeighboursAreKept` follows for buckets of two and more: with one place (the code has 20) the node's own entry may
be pushed out by its closest neighbour, depending on the ids. `AnswersListTheClosest`
needs that the XOR distance orders nodes as the numbers do, and that ranks are
without gaps. `ValuesInv` ties each entry of a store to the time at which it was stored last;
`ValuesAreKept` and `ValuesAreFresh` have the hypothesis `Horizon + TTL < TimeWrap`, that the clock does not come
near its 32 bits (in 2106), without which both are false.
For the punch strategy (`PunchStrategyAssumption`) `TrackersFit` says how a tracker's phase, counters and
flags belong together, whatever thread changed it last and with an answer of
the punch thread still to be acted on; `PhasesOnlyAdvance` and `StrategyViewsAgree` follow. The
switch of the punch thread is harmless because it is never made: whoever sets the flag that the
thread asks for sets the next phase in the same hold of the mutex, so that the invariant can say
that no answer is ever yes.
For STUN (`STUNAssumption`) `NoValidResponse`: no message at all passes IsValidBindingResponse,
because the cookie is looked for in bytes 0 to 3 and the type in 2 and 3, where the
cookie would have to hold another value. So `QueriesDiscoverNothing`: whatever a server
answers, no query ever returns an address, nothing is cached as discovered and no
hole punch request is sent.

**`Agent_proofs`**. For the statements (`MemoryAssumption`) `StatementInv` says that each statement stands for ids that were
given and not deleted, that no two stand for the same, that they come in the order of the
first of them (`Kept`), and that what was said is just what was deleted together with what some
statement stands for. The last needs to know what all statements together stand for (`AllOf`) after a
selection, an insertion and a summary: one lemma each. Every command preserves the invariant, found or not, and so do
the records of a prompt and its answer; `NothingIsLost` and `OrderIsKept` are the two sides of it.
For the texts (`AgentMemoryAssumption`) `TextsInv` says what is in the files at each of the four stages of
SaveToDisk (`OnDisk`); a crash leaves the files, so `EditsSurvive`. `LinesAreMoved` is the arithmetic of
two ways of counting lines, for sections of any size: with a warning and an identity, `NumberedLineIsReplaced` fails by
one line forwards for the identity, by one line back for a conversation behind a summary,
and not at all elsewhere (`MovedLines`).
For the context (`ContextAssumption`) `ContextsAreWhole` follows the marks through BuildStatementContext and
UpdateSystemStatus: what precedes the first opening mark is kept, and so is what follows a closing one; the marks of
a statement that holds a whole block enclose nothing but what it holds itself. So all statements are kept
unless one of them opens a block that it does not close.
For the threads, those that have ended do not begin again (`EndedStaysEnded`), and main joins in
a fixed order (`Joined`); so all but the detached thread have ended when the objects they use are
closed or destroyed (`ThreadsEndBeforeTheirObjects`).

For the configuration (`ConfigAssumption`: what users write are lines, of which a header has a name
and a comment a text) the question is what Load has of a file that Save has written, or of a
part of it. Two loops over the same data meet here, so that the answer is about prefixes. `ReadInv` says
what Load has of any file after any of its lines (`ReadLineKeeps`): each section and each key in
it once, and no value of several lines without its end but the one that is being read (`Tidy`).
`At` says where Load is in the text of settings m: behind an entry, with the comment of the next
header or of the next entry read, or within a key. `ReadsOn` is the step from a place to the next one, line by
line, and `ReadsPrefix` follows: of the first n lines of the text of m, Load has
the sections and entries up to a place in m, the last of them perhaps without its end. If n is all of
the lines, this is m but for the ends of lines behind keys (`SavedIsLoaded`); if a save is cut, it is a
beginning of m (`CutIsGood`), and `SettingsKept` follows. `ConfigInv` is about the processes: what a
file has is `Good`, that is, only its last entry lacks an end, and only keys of the identity have several lines;
LoadIdentity makes of it settings that are `Renewed`, in which both keys have the lines of the new pair; while they are
saved no pair was kept before; and once one has been kept, it is what Load finds. So `IdentityKept`.

The three theorems have the hypothesis `PlainlyWritten`: in the files of users only `public_key_pem` and
`private_key_pem` of `security` have several lines, and these end. Without it `IdentityIsKept` is
false: this was found when `ConfigInv` turned out not to be inductive. If a certificate is kept in
another section and a save is cut within it, the next process reads the certificate without its end and
saves its new keys behind it; the process after that reads them as lines of the certificate,
finds no pair and generates another one (`CutKeyTakesPair`, which TLC evaluates with MCAgent).
The hypothesis is about the files before the first start only; what cut saves leave there later is
covered. MCAgent states it as an assumption (`UsersWritePlainly`), so that TLC evaluates it for the files of the
instance.

**Model-checked only.** Liveness (`KeepsTrying`, `DiscoveryHappens`, `HandshakeCompletes`, `SessionsEnd`, `QueriesEnd`,
`OnlySilenceBlocks`) is out of the prover's reach. All safety and action properties of the passing runs are
proved.

## 5. What the modelling showed

* No delay between attempts is kept: the stamp is of the steady clock, the comparison is with the
  wall clock. Backoff (`seed_backoff`; PeerConnectionTracker.cpp:61) has always elapsed, and a seed given up is
  tried again one pass later (`GivenUpForOnePass`), where PeerConnectionTracker.hpp:25 speaks of
  "5 minutes before retrying failed connections". The budget of retries is kept.
* Only the first pair of peers that report failure is ever coordinated (`punch_pairs`).
* Punch packets are dropped by `PacketSecurity::ProcessIncoming` unless the low half of the
  time stamp is zero (`envelope_punch`).
* A value of several lines that a crash has cut in a save takes what is behind it as its own lines: with a
  certificate in the configuration a pair of keys that has been saved may be lost
  (`CutKeyTakesPair`; Config.cpp:96). Without one it cannot (`IdentityKept`).
* On a leaf node Stop may wait for ever (`stop_returns`; `PM` 99, UDPSocket.cpp:72). Nothing
  else can keep it (`OnlySilenceBlocks`).
* The STUN client recognises no answer, neither a standard one nor its own server's
  (`NoValidResponse`; STUNParser.cpp:25): the server answers with type 101 and attributes without
  a length, the parser wants cookie and type in the same bytes.
* With a warning shown and an identity stored, a number that the model sees at a line of the identity
  replaces the next line, and one at a line of a conversation behind a summary the line before
  (`replaced_lines`, `LinesAreMoved`; MemoryManager.cpp:363), although ContextBuilder.cpp:210 says "You can reference
  and replace any line".
* Load keeps only the comment that stands directly before a header or an entry, and drops it for a section
  that is repeated and at the end of a file; the next save loses the others (`comments_lost`; Config.cpp:57),
  although Config.hpp:32 and README.md:45 promise that comments are preserved.
* Of the statements between an opening mark that a statement has left without its end and the next closing
  mark nothing is shown to the model (the exclusion of `StatementsAreShown`).
* A range of statement ids with a number too large for an int ends the process, for std::stoi
  throws (`ThrowOutOfRange`; MemoryManager.cpp:617).
* WriteArchiveFile, SearchArchive and RecordPunchSuccess lock a mutex that they hold.
* Seen while reading, without a run: GetFailedTrackers still lists a peer that was
  reached after it had failed; StartPunchAuto, UpdateTrackerAfterAttempt, RecordPunchSuccess,
  GetExternalAddress, InitializeSTUNServer and CleanupMultiPortSessions have no caller; a Connected seed is never checked again,
  so a seed that restarts stays unknown to its clients, although README.md:201 calls
  registration self-healing; no code sends ers_failed; strategy trackers are never
  created, so the fallback to several ports never happens;
  RequestIntroduction, SendPunchFailureReport, RequestHolePunch, StoreValue and GetValue have
  no caller in the program (in the models the application calls them); the patterns
  of ExtractStatementCommands do not compile; own entries of a peer list are
  recognised on 127.0.0.1 only.

## 6. Not modelled

* The wording of prompts, the patterns with which commands are found in a response (but for the
  order in which they are found), the typed getters and setters of the
  configuration: conversions without state.
* llama.cpp and mbedTLS: libraries, modelled by what the code relies on. A signature
  is what was signed and the key.
* What a socket does on other systems than Windows; Socket.cpp (TCP), which nothing uses.
* The branches of minilzo.c and its headers that the preprocessor leaves out on x86-64.
* DHT::ProcessPendingQueries (nothing ever adds a query), TTLValueStore::CleanupExpired and Remove,
  ClearFailureReports, SetComment: no caller and no state that another part reads.
* The wrap of the 32-bit clock of the value store: the bounds of the clock stay below it.
* Helpers, the build files, the empty test file.

## 7. Plan

Done, in this order: tracker and seed registration with its abstract
lifecycle and proofs; registration with proofs; hole punching; coordination; DHT;
envelope; statement memory; compressor with proofs; texts and their files; configuration
file; context; life of the node with proofs; punch strategy with proofs; STUN with proofs.

Since then the loops that erase elements were given a form that can be reasoned about (`Selection`), and
the safety and action properties of all passing runs were proved: last, that the decompressor of
`MiniLZO` restores what the compressor was given, and that `ConfigFile` keeps what it has saved.
What is left is liveness, which stays with TLC, and the hazards that no property covers yet
(PROJECT.json gives the reasons).
