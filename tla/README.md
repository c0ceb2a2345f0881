# TLA+ models of Podrum-R4

Podrum-R4 is a server for Minecraft Bedrock Edition written in C: a RakNet
implementation over UDP, a small game on top of it, a console, and a library for
Anvil region files. This directory holds TLA+ modules translated from that code,
TLC configurations that check them on small instances, and TLAPS proofs for
every instance.

    tlc -config MCRegion.cfg MCRegion      # one file.cfg per run, see "Runs"
    tlapm RegionProofs.tla                 # the *Proofs modules

`PROJECT.json` has the machine-readable side: components, runs, the mutants that
show that each property can fail, the source lines of every definition, the
hazards of the code, the findings and the theorems.

## 1. The system

| component | files (under `src/`) | state | operations |
|---|---|---|---|
| message queue | `podrum/queue.c`, `worker.c` | `items`, `items_count`, a mutex | `put_queue`, `get_queue` |
| RakNet sender | `network/raknet/rakserver.c`, `rakhandler.c`, `rakmisc.c` | of each `connection_t`: the counters, the open datagram `queue`, `recovery_queue` | `add_to_raknet_queue`, `append_raknet_frame`, `send_raknet_queue`, `handle_ack`, `handle_nack` |
| RakNet receiver | same | of each `connection_t`: `receiver_sequence_number`, `ack_queue`, `nack_queue`, `frame_holder` | `handle_frame_set`, `handle_frame`, `handle_fragmented_frame`, the two flushes |
| packet codec | `network/raknet/rakpacket.c`, `rakmisc.c`, `rakinternal.c` | none | one `get_`/`put_` pair per packet; ACK and NACK carry ranges |
| server and threads | `rakserver.c`, `rakinternal.c`, `socket.c`, `server.c` | connection table, two queues, `is_running` | the tick, the worker loop, open, disconnect, destroy, `main`, the console |
| players | `network/minecraft/mcplayermanager.c`, `mchandler.c`, `mcplayer.c`, `server.c` | the player table, fields of a player | the handlers, the broadcasts, leaving |
| game packets | `mcpackets.c`, `mcmisc.c` | none | one `get_`/`put_` pair per packet; a batch, deflated |
| mapping, resources | `mcmapping.c`, `misc/resourcemanager.c` | tables read once | load, free, lookups |
| console commands | `command/commandmanager.c` | a table of commands | register, delete, get, execute |
| chunks | `world/chunk/*.c` | palettes and block arrays | get and set of blocks and biomes, the highest block, the sub chunks to send |
| region files | `world/format/anvil/region.c` | offset table, free map, the file in memory, the file on disk | open, get, set, save, close |
| codecs | `cbinarystream`, `cnbt`, `misc/json.c`, `base64.c`, `jwt.c` | a buffer and an offset; the blocks of a parsed value | encode, decode, destroy |
| others | `uuid.c`, `logger`, `czlibhelper`, `miniz` | none | not modelled, see section 6 |

How they interact:

* Three kinds of threads. The **RakNet thread** (`tick_raknet_task`) owns the
  socket: each tick receives one datagram, drains `threaded_to_main`, then flushes
  the ACKs, NACKs and frames of every connection. A **worker**
  (`handle_raknet_main_to_threaded`) takes messages of `main_to_threaded` and runs
  the callbacks of `server.c`, which own the players. The **console** thread puts
  the shutdown message. `main` starts them and waits.
* The queues hold copies: an address and a payload. Everything else is shared
  without a lock: the worker reads `server->connections` while the RakNet thread
  moves it, and `destroy_raknet_server` frees the queues under a worker's feet.
* A connection is known by its port and by a pointer to the one static buffer of
  `inet_ntoa` (`socket.c:84`), so its IP reads as that of the last datagram.
* A player follows its connection only through the disconnect notification that
  the RakNet thread queues when it removes the connection. A client that comes
  back from the same port may find messages of its last session on their way.
* A frame's payload is a game packet: a batch of packets, deflated
  (`get_packet_game`), which `server.c` takes apart by their identifiers and hands
  to `mchandler.c`. Each handler gets a structure with a function of
  `mcpackets.c`, changes the player, and puts its answers into new batches.
* A login is a JSON text with a chain of tokens (`jwt.c`), each of them base64 and
  JSON again. The tables of blocks and items come from JSON, NBT and base64 in
  files, and chunks name blocks by their position in those tables.
* Region files are a library: `server.c` does not call it yet.

What is hard here, and what has to be right in each part:

| component | behaviours hard to test | properties |
|---|---|---|
| queue | threads between any two statements | mutual exclusion, count and array agree, it is an atomic FIFO, it is always unlocked |
| sender | loss, reordering, late and repeated ACK/NACK, the resend's new number, packing | a number means one datagram; no frame is forgotten; fragments are complete; indices follow the order of submission; a datagram fits the MTU |
| receiver | the same on the way in; fragments in any company | what was ACKed was handled; messages are whole; no fragment waits for ever; gaps are NACKed |
| threads | stale pointers, messages of a gone connection, shutdown against everything | players follow connections, the notification comes last, stop ends the process |
| players | packets in an order no client sends, two clients whose sessions overlap, a return before the last session ended | the table is who is there; a spawned player hears every broadcast in order; a walker has the chunks under its feet; an accepted login is one chain of tokens that names Mojang's key |
| packet codecs | two functions far apart that must agree; optional fields, lists, a batch within a packet | what is got is what was put, nothing is left behind, sizes computed apart add up |
| texts (JSON, base64, JWT) | the end of the text, escapes, padding, a refusal in the middle | what is read is what was written, nothing is read that nobody wrote, each block is freed once |
| streams, NBT | signs, the last group of a number, nested lists | as above |
| resources | a counter of one byte, entries without a name | every state is found again; a creative item means what its file says |
| commands | a name registered twice, deleted when it is there once, twice or not at all | what is found is held by the callers; execute runs what exists (it does not) |
| chunks | palettes over long histories of sets, unsigned loop counters | a chunk is a map from places to ids; both searches; the packed words |
| region | long histories of moves; death in the middle of a save | sectors are not shared, the free map is exact, read after write, reopen after crash |

The full list of hazards, each at its line, is `hazards` in `PROJECT.json`.

## 2. Modules

Threads and network:

| module | models | how state and actions correspond |
|---|---|---|
| `WorkQueue` | the abstract queue | calls take effect at one point between invocation and return |
| `MutexQueue` | `queue.c` | one action per statement (`PutCount`, `PutGrow`, `PutStore`, `GetTake`, `GetShift`), `Lock` and `Unlock` around; an unwritten cell is `Garbage`; refines `WorkQueue` with `Contents` as the mapping |
| `RakSender` | sending half of a connection | `conn` has the C fields, `recovery_queue` as a set; operators on it have the names of the C functions; the loops over fragments and over NACKed numbers are steps, `step` says which; the answers to a datagram are queued before `ReceiveNothing` ends it, and are fragmented like any message; a NACK may be of a number that has arrived since; `conn.sent`, `submitted`, `seen`, `popped` are history |
| `RakReceiver` | receiving half | `ReceiveFrameSet` is the body of `handle_frame_set` up to its loop, `Dispatch`/`Hold` one pass of the loop, `Update` the flush; the client packs any of its fragments into any datagram, `wire` is never emptied (loss and duplication) |
| `AckRanges` | `put_packet_acknowledge`, `get_packet_acknowledge` | each pass of each loop is a step; the stream is written and read flag by flag and triad by triad, a record is where one starts |
| `RakServer` | threads, connection table, queues, shutdown | `tick`, `worker[w]` and `main` are program counters; the frames of a datagram are handled one after the other (`peer`, `frames`); the lookup of a connection and the callback that uses it are two steps of the worker |

The game:

| module | models | how state and actions correspond |
|---|---|---|
| `Session` | the abstract promise to a client | unknown, known, playing, gone; what was said and who heard it |
| `PlayerSession` | `on_f` and `on_dn` of `server.c`, `mchandler.c`, `mcplayer.c`, `mcplayermanager.c` | a step per packet of a batch, each with the whole handler; `players` is the table, `sent` what each address was put; refines `Session` |
| `Sessions` | the same with its clients and `main_to_threaded` | a client waits for the answer to each stage before the next; its leaving queues the notification |
| `Login` | `handle_packet_login`, `verifly_jwt_chain` | a step per token; a token is the fields that are read; of a key, `Start` is what strcmp sees: its bytes before the first 0, if base64 takes the text. `Fault` is a NULL that is compared and a payload that is read after it was freed |
| `Resources` | `resourcemanager.c`, `mcmapping.c` | loading each table, the lookups, freeing |
| `CommandManager` | the command table | one action per function; `registered` is what the callers hold, doubles included; a cell that was never written is `Unset`, and what `strcmp` and `execute` find in one is a choice, the end of the process (`Crash`) included |
| `BlockMap` | the abstract chunk | a map from places to ids |
| `Chunk` | `chunk.c`, `subchunk.c`, `blockstorage.c` | a set is one step with the growth of the palette and of the sub chunks; the two downward searches are a step per pass |
| `StorageEncoding` | `put_misc_block_storage` | a step per index shifted into a word |
| `SectorMap`, `RegionSearch` | the free map, the two search loops of `set_region_chunk` | each pass is a step |
| `Region` | `region.c` | `set_region_chunk` is rewrite in place, move or append; `save_region` is truncate, then write; `Crash` at any point leaves the prefix of the file that was written |

Bytes and texts:

| module | models | how state and actions correspond |
|---|---|---|
| `BinaryStream` | `binary_stream.c` | every put and get, over bytes of `ByteSize` values and var ints of `VarIntBytes` and `VarLongBytes` bytes, so that all numbers of all formats can be tried; `StreamSpec` is a writer that puts values of any formats behind each other and a reader that gets them from any one on |
| `Nbt`, `NbtTree` | `nbt.c` | get and put of a tree in three byte orders, on the stream's numbers of the sizes that occur in packets; `heap` and `wild` follow the blocks |
| `Layout` | how a put or get function is run | a function of the code is a sequence of fields, conditions and lists, and `Put` and `Get` interpret it |
| `PacketLayouts` | every put and get function of `mcpackets.c` and `mcmisc.c` | two layouts per pair, each from its own function, so that a disagreement shows |
| `Packets` | a batch: `put_packet_game`, `get_packet_game`, `server.c`'s dispatch | put into streams, packed, deflated or not, taken apart |
| `RakPackets` | `rakpacket.c`, `rakmisc.c`, `rakinternal.c` | layouts again; `get_frame_size` against the bytes put |
| `JsonText`, `Json` | `json.c` | the parser on characters; the lookups, and what destroying frees |
| `Base64`, `Base64Exchange` | `base64.c` | the loops over groups of three bytes and four characters by the place in the result; the loops that skip or stop are recursive functions. `TextSpec` takes bytes from any of the four encoders, over a way that may drop the padding or put a line feed in, to any of the four decoders |
| `Jwt` | `jwt.c` | a peer's token, cut, decoded and parsed; a buffer without its final 0 runs on into what follows it |

The MC modules are `MCRakSending`, `MCRakReceiver`, `MCRakServer`, `MCSessions`,
`MCServerParts`, `MCChunk`, `MCFormats` and `MCRegion`. Four of them hold several
machines that share nothing, and check them in one run: the variable `part` says
which one runs, and the others stand still: `MCRakSending` extends `RakSender` and
`AckRanges`; `MCServerParts` extends `Resources`, `CommandManager` and `Login`;
`MCChunk` extends `Chunk` and `StorageEncoding`; `MCFormats` has the codecs,
`BinaryStream`, `Base64Exchange` and `RegionSearch`. Their properties are those of the component modules, which the
proofs are about. `MCSessions` has `PlayerSession` twice and `Sessions` once.

`RakServer` uses the queue as an atomic sequence, which `MutexQueue` refines (proved).
`Region` uses `FirstRun` for the search, which `RegionSearch` computes (proved).
`RakSender` and `RakReceiver` are one connection each: connections do not interact
except through the table of `RakServer`, where the frames are reduced to what they
make the handlers do. `RakServer` has the threads and one kind of player,
`PlayerSession` every handler and one worker: what ties them is that a connection's
messages come in order and its notification last, which is proved of `RakServer`
(`NotificationComesLast`) and which `Sessions` assumes. `PlayerSession` implements
`Session` (proved). `Nbt` has the numbers of `BinaryStream` that occur in packets, and
`Layout` and all codecs stand on it.

Abstractions. In the network modules payloads are a message's number, its size and
its fragment; the codec modules have the bytes. The network delivers any datagram
ever sent, any number of times, in any order, or never. Compression is a value that
decodes to itself or not at all. A signature is good, bad, or cannot be looked at, as the input says.
What a stale connection pointer reads is a choice: the old contents, any current
connection, or the end of the process; what a call on a destroyed mutex or a freed
queue does is a choice too: it works or ends the process. A write past the end of
a region's memory does nothing visible or ends the process. Allocation does not
fail. A player's position is the pair of its horizontal coordinates, and a square
of level chunks that is sent is one entry.

`server.c` and `mchandler.c` are in the middle of a migration: they use fields and
parameters that `rakserver.h` does not declare, so this tree does not build as it
is. The models take `rakserver.c` as the library and the callbacks of `server.c`
for what they do to the players and the queues.

## 3. Runs

| run | instance | distinct states | shows |
|---|---|---|---|
| `mutex_queue` | 3 threads, 2 messages, length 2 | 6 thousand | `LockProtects`, refinement `ImplementsWorkQueue`, `LockReleased` |
| `raknet_sending` | MTU 63, 3 messages of 1 or 6 bytes, 3 reliabilities, 2 channels, 4 datagrams, lists of 2 numbers, answers of both sizes; and every order of up to 4 of 7 numbers to acknowledge | 1.1 million | `NumbersIdentify`, `NothingLost`, `WholeMessagesSent`, `OrderFollowsSubmission`, `DatagramsFitTheMtu`; `RoundTrip` |
| `receiver` | 3 messages (1, 2, 2 fragments), 4 datagrams of one frame | 480 thousand | `AckedIsHandled`, `AckedMessageIsDispatched`, `DispatchedIsWhole`, `GapNackedButHead` |
| `receiver_live` | 2 messages, 3 datagrams of up to 2 frames | | `SentIsDispatched` |
| `server` | 2 clients behind one IP, 1 worker, 5 datagrams | 400 thousand | `NoOrphanPlayer`, `NotificationComesLast`, `PlayersLeave`, `StopEnds` |
| `sessions` | *open*: two clients that say anything; *walk*: one walker on 3 x 4 chunks; *sessions*: one client of the protocol with its queue | 650 thousand | `WorldIsToldFirst`, `TableFollowsClients`, `StandsOnSentChunk`, `PromiseIsKept` (the refinement `KeepsPromise` of the first two parts), `StaysThenPlays` |
| `server_parts` | *resources*: up to 4 block states of 3 names and a creative item; *commands*: 2 names, 2 executors, 3 cells, any calls; *login*: chains of up to 5 tokens, 4 keys | 410 thousand | `StatesAreFound`, `CreativeItemsMeanTheirNames`, `CommandsAreFound`, `LoginFollowsChain` |
| `chunk` | 3 sub chunks of 2 x 2 x 2, 2 layers, 3 ids, 3 sets; and a whole storage with palettes around each change of width | 410 thousand | `HeightIsKnown`, `ReadWhereWritten`, refinement `ImplementsBlockMap` |
| `formats` | every codec over its examples, the search of a free map of up to 8 sectors | 380 thousand | `ReadBack` (sizes computed apart included), `NumbersReadBack`, `TextComesBack`, `ComesApart`, `AllIsFreed`, `FindsFirstRun` |
| `region` | 2 chunks, values of 1 and 2 sectors, 6 sectors | 530 thousand (symmetry) | `NoSharedSectors`, `FreeMapIsExact`, `ReadBack`, `ReopenGivesSaved` |
| `commands_unknown` | 3 names, 3 cells, any calls | | `ExecuteRunsExisting` is **violated** |
| `chunk_empty` | as `chunk`, columns without blocks too | | `StaysInside` is **violated** |

Why the bounds are enough for the cases they are meant for:

* The MTU of 63 leaves 3 bytes to a fragment and 27 to a datagram: messages fill a
  datagram exactly, share it, do not fit, are cut in three with an empty last
  fragment. Four datagrams allow a resend of a resend, an ACK of the old number and
  a NACK repeated after both.
* Four datagrams at the receiver allow a gap of more than one, its filling in any
  order, and a number that goes backwards. Two fragmented messages let a fragment
  of one complete or disturb the other.
* Five datagrams let a client open, log in, leave and come back while the other
  one shares the table, which is what moves connections under the worker.
* In six sectors two chunks leave holes of one and two sectors, fill them, and grow
  the file; a save is cut in the tables, between and within chunks.
* A `rand()` that gives an entity identifier in use is drawn again; in `MCSessions`
  it has one of three values for two players. The two identifiers of a player are
  drawn together (`OneDraw`), as they are never compared with each other.
* `MaxByte` is 2 in `server_parts`: three states fill the counter of a name, the
  fourth overflows it. The proof is for every width.
* In `MCFormats` the streams of `BinaryStream` have bytes of two bits, var ints of 8 and
  var longs of 16 groups, and every value of a short format is tried, and every ninth and
  the ends of a longer one, two items to a stream; the proof is for any bytes and
  values. The inputs of base64 are the sequences of up to three of six bytes, and one of
  each length up to 14, in which every group of four is whole, padded once or twice;
  the proof is for any bytes. The
  structures of a packet are made from its layouts: every way through the
  conditions, lists of up to two entries, numbers all zero or all different. JSON
  is what a writer writes with white space between any two tokens, and every
  sequence of up to four tokens.
* A token of a login has at most one thing wrong, or the time and the signature, which
  `kicktype` 2 takes. What the code does with another fault is decided before it is
  looked at. Of the keys one is Mojang's, one `strcmp` takes for it, one it does not,
  and one is a text that base64 refuses. A fifth token of a chain is the first that is
  taken for the client's own. The proof is for any tokens, keys and length.

`CHECK_DEADLOCK FALSE` is given where the program ends: the codecs, the searches,
the packing, the login, the server's process.

Some properties say what the code does not do, because it does not:

* `NothingLost` excepts datagram 0: `pop_raknet_recovery_queue` answers number 0
  for "not found", so a NACK of number 0 drops it (`rakhandler.c:121`).
* `GapNackedButHead` excepts the first number of a gap (`rakhandler.c:196`).
* `NotificationComesLast` speaks of ports, and is proved for clients of any IPs with
  the one worker that `server.c:442` creates. `NoOrphanPlayer` speaks of whole addresses and
  **fails with clients of two IPs**: every address holds the one buffer of `inet_ntoa`
  (`socket.c:84`), so a notification carries the IP of whoever sent the last datagram
  and removes nobody. It is checked, and not proved, for clients behind one IP, which
  is no more than the run's instance. `PlayersLeave` and `StopEnds` are checked in the same run.
* `NoSharedSectors`, `FreeMapIsExact` and `ReadBack` of a region are stated for a
  file no save of which was cut (`~torn`): after a cut the table keeps offsets past
  the end, and the next append hands those sectors to another chunk.
  `ReopenGivesSaved` has no such condition.
* `StatesAreFound` is about names whose states stand together and fit in the byte.
  `resource/block_states.json` has 12 blocks with more than 256 states, and the file
  of creative items has about 13 whose block is not among the states.
* `StandsOnSentChunk` is about a walker whose view distance is above `Reach`, the
  chunks it moves at once. The square of chunks is drawn around the position before
  the step (`mchandler.c:487`): who jumps further than its view stands on nothing.
* `TableFollowsClients` lets a client that believes to be playing be still on its way
  into the table (`IsToHandle`). That it is always there is what the run's bounds
  suggest, and it is false: with a queue of 8 and 20 packets owed, TLC finds 75 steps
  in which a client leaves and returns five times while the worker is behind, and
  takes what was answered to its earlier sessions for answers of its own, one more
  each time, until it is a whole login ahead. The proof is of what remains true.
* `LoginFollowsChain` is what acceptance means, which is less than what the code sets out to
  do. Keys follow each other as far as `strcmp` looks (`mchandler.c:328`): it compares
  decoded keys, which have a 0 byte in their header, so that keys that differ behind it
  pass for one. The signatures need not be good: one that does not match sets `1 << 6`
  and the token is "done" all the same (`mchandler.c:385`, `mchandler.c:404`), and only
  `1 << 9` is looked at (`mchandler.c:45`); `kicktype` 2, which says "invalid login
  signature", needs the time to be wrong too. What `verifly_jwt_chain` sees at index 4
  it takes for the client's own data, so of a fifth token of a chain neither time nor
  next key is read (`Excused`, `Giver`).
* `CommandsAreFound` says what is true under any calls: nothing looks whether a name
  is registered already (`commandmanager.c:5`) or at all (`commandmanager.c:27`). After a
  delete that named what is not held exactly once (`misused`) commands may be lost and
  cells unwritten; that `execute` runs what exists then fails, run `commands_unknown`.
* A resource pack response is taken to name no packs, as the server offers none: with
  names, `ids[i]` is freed once for each, `i` being the place of the packet in its batch
  (`server.c:356`). The array of entry ids of the creative content is written at that same
  `i` only (`server.c:335`); the ids are not in the model.

What two functions of a pair do differently, which the layouts reproduce and the
examples of `ReadBack` leave out where it says so:

* An escaped quote ends a string: the loop stops at the quote before its body looks
  whether a backslash was in front of it (`json.c:58`, `json.c:73`). The writer of
  the run writes a quote by its code point.
* The count of a skin's tint colours is read again before each colour
  (`mcmisc.c:369`); the examples have no colours. `mcmisc.c:347` adds to the offset
  what a call returns that moves the offset itself; the layout takes the order of gcc,
  which calls first.
* A ping without the open-connections flag is put with the identifier of the pong
  (`rakpacket.c:187`).
* The parameters of a translated text are stored through a pointer that is never set
  (`mcpackets.c:88`); the layout takes them for stored.

Findings: `delete_command` of a name that is not registered shortens the table, so
the last command is no longer found (`commandmanager.c:43`), run `commands_unknown`;
the searches of a chunk count an unsigned byte down to 0 and on, so they never
answer `CHUNK_EMPTY` (`chunk.c:42`, `chunk.c:66`), run `chunk_empty`.

## 4. Fairness

* `mutex_queue`: a thread inside the queue keeps running (`WF` of each step between
  lock and unlock). Nothing is assumed of who gets the mutex: POSIX mutexes are
  not fair, and only the release is claimed.
* `receiver_live`: the RakNet thread keeps ticking (`WF`), and for each sequence
  number the client retransmits until it gets through (`SF`), which is what a
  reliable RakNet peer does.
* `server`: each thread is scheduled (`WF` of the tick, of each worker, of main).
  Clients and the console owe nothing.
* `sessions`: the worker's loop keeps taking messages (`WF`), and a client of the
  protocol answers what it was asked (`WF`), unless it leaves. It owes no chat.

## 5. Proofs

| module | theorems | argument |
|---|---|---|
| `UtilityProofs` | of the queue: `TypeCorrect`, `MutualExclusion`, `CountFollowsArray`, `GetReturnsMessages`, `LockIsEnough`, `Refinement` | The invariant ties each thread's place to the owner of the mutex and, at each place, the count to the length of the array. Mutual exclusion alone is not inductive: that the owner is the thread inside is needed. Each statement is a step of `WorkQueue` or does not show, the effect of a call is at its one visible statement |
| | of the stream: `StreamTypeCorrect`, `NumbersComeBack` | `StreamInv`: there are places `ends` between which the bytes of each value stand (`LaidOut`), and the reader is at one of them with what it has got so far. Each get, started at the beginning of bytes that a put of the same format wrote, whatever comes behind, answers the value and moves to their end: fixed numbers by the digits of a number in a base, signed ones by the one place where the sign is added or taken, var ints by the groups that are not yet written, ZigZag by the parity |
| | of base64: `EncodedBytesComeBack` | A text *spells* bytes in a table when its characters are the symbols of their digits, with padding behind them or nothing. All four encoders write such texts; the two tables differ in two symbols, so replacing those, or a text without them, changes the table only; without its padding a text still spells, and the characters kept of a broken one are those of the whole. Each decoder makes byte `q` of the two digits at `PlaceOf(q)`, which are those the byte was cut into. The recursive `Kept` and `out` agree with explicit functions: at the least step where they did not, one more character or group would |
| `RakSendingProofs` | of the sender: `NumbersIdentifyAlways`, `NothingIsLost`, `OrderIsSubmission`, `NoDatagramTooLong`, `MessagesAreWhole` | `SenderInv` = `ConnInv` (numbers and reliable indices are below their counters, what is open or remembered fits, the recovery queue is part of what was sent), `NothingLost`, `StepInv` and `MessageInv`. The order indices are counts of the messages submitted on a channel; a message that is being cut owns its compound id and has exactly the fragments below `index` out; sums of sizes over a queue are a recursive function, unfolded by the least number at which it could fail |
| | of the ACK codec: `AckTypeCorrect`, `SortIsCorrect`, `RangesAreMaximal`, `AcknowledgeRoundTrip` | Loop invariants: sorted prefix; records and the open range cover exactly the numbers scanned; the items of each record stand in the stream behind those of the one before (`Laid`, `Holds`), flag and all, and the reader is where the next one starts (`Reading`); the numbers decoded are those of the records read |
| `RakReceiverProofs` | `TypeCorrect`, `AckIsTruthful`, `ReassemblyIsFaithful`, `HolderWaits`, `AckedIsDispatched`, `GapsAreNacked` | The invariant adds that numbers in the ACK queue or acknowledged are those received, that every frame of a received datagram but those still to do was handled, and that held frames are fragments the client sent |
| `RakServerProofs` | `TypeCorrect`, `NotificationIsLast` | `ServerInv`: while the server runs, `Follows` says for each port where the news of its going is: a message of a port, queued (`QueueFollows`) or in the hands of the worker (`ExecutorFollows`), has its connection or the notification behind it, and between a disconnect's two steps nothing is put behind the notification (`NothingComesAfter`). IPs do not enter |
| `SessionProofs` | `TableStays`, `WorldIsTold`, `WalkersStand`, `TableFollows`, `PromiseKept` | Every handler is one of four things (`Handled`): it adds a player or nothing and answers quietly, it spawns, it moves, it says. `Told`: what a client was sent is free of radius, chunks and broadcasts until it spawns, and in order from then on; `OnChunks`: the last square was drawn within `Reach` of where the player is. For the clients of the protocol `SessionsInv`: each message of a client that is away has its leaving behind it in the queue, whoever waits for an answer has its request ahead or handled, and no request to spawn is ahead of the settings that make its sender known. `PromiseKept`: each handler is a step of `Session` or does not show; an unknown client has heard nothing, or its leaving would show |
| `ChunkProofs` | `TypeCorrect`, `PalettesStaySound`, `HighestIsCorrect`, `SendCountIsCorrect`, `SearchesAreCorrect`, `Refinement` | A palette has no id twice and air first, and every index is in it: this makes "index 0" and "air" one thing, which the searches and the skipped allocation of an absent sub chunk rest on. A set of one cell leaves the meaning of all others; the numbers of cells are one to one with coordinates by integer division. The searches have passed only empty columns, or sub chunks without a block |
| | `StorageIsPacked` | `PackInv`: the words written so far are the sums of their indices at their places, the open word those of its first ones; a quotient and a remainder give each back. For the 4096 cells of a sub chunk and every palette the code has a width for |
| `RegionProofs` | `SearchTypeCorrect`, `SearchIsFirstFit` | Of the search: `run_length` sectors before `i` are free, and no run long enough starts below them |
| | `TypeCorrect`, `SectorsAreApart`, `FreeMapCorrect`, `ReadBackCorrect`, `ReopenCorrect` | Memory and file are each `Consistent` (chunks apart, past the tables, inside the file, the table of timestamps in sector 1) unless a save was cut; the free map is exact against all the offsets; while a save runs, `saved` is what memory holds, and afterwards what the file holds or nothing. Move and append are one case (`Stored`), and with the rewrite in place another (`Fits`): a value written where no other chunk is. A cut file is a part of memory, in which a chunk reads whole or not at all |
| `ServerPartsProofs` | `BlockStatesAreFound`, `CreativeItemsAreMeant`, `ResourcesAreFreed` | The counter at an entry is its distance from the first entry of its run, modulo the width of the byte; a run that fits has each counter once, and the first entry that a lookup meets is the only one |
| | `RegisteredCommandsRun` | `ConsoleInv`: types and the property, which is inductive. A delete keeps of what the callers hold each command of another name (`AllLeft`), so what it copies is still theirs; when one cell is left out of a table that is their list, what remains has one cell less and is their list again |
| | `LoginsFollowChains` | `LoginInv`: while nothing stopped the loop, the key at hand is the one `Giver` names, unless a token could not be verified, which is remembered; what was said when it stopped is true of the last token read |

All are for arbitrary constants under the named `ASSUME`s of the modules: numbers
are naturals, an MTU is above 60, a message has at least one fragment, `NULL` is not a
message, a chunk needs 1 to 127 sectors, the side of a sub chunk is positive and every
height a byte can hold lies in one, a byte has an even number of values, at least
four, the groups of a var int and a var long hold 4 and 8 bytes and what is put is of
the type of the parameter, what is encoded are bytes, no two items of the file have one number, there
are more entity ids than clients. Three theorems have a hypothesis of their own, each a
fact of the code or a limit that section 3 explains: `NotificationIsLast` is for one worker
(`OneWorker`, what `server.c:442` starts), `StorageIsPacked` for the 4096 cells of the code, and
`MessagesAreWhole` until the 16 bits of the compound id have come round. TLC checked
each invariant before its proof; the one of `Sessions` also on walks of up to 110
steps with queues beyond the run's.

Only model-checked:

* `NoOrphanPlayer`, for clients behind one IP: with more it is false;
* every liveness property (`LockReleased`, `SentIsDispatched`, `PlayersLeave`, `StopEnds`,
  `StaysThenPlays`): liveness under fairness is out of the prover's reach;
* the codecs that stand on the stream, and JSON (`ReadBack`, `ComesApart`,
  `AllIsFreed`): they are recursive over their data, and what such a
  definition computes for every input needs an induction that the installed provers
  cannot instantiate. Where a proof needs a fact of a recursive function of a
  sequence (the sizes of frames, what a client heard, the digits of a number, the characters kept of a text), the function is over a range
  of numbers, and the fact is found at the least number where it could fail.

`WorldIsToldFirst` and `PromiseIsKept` are proved as `WorldComesFirst` and `KeepsPromise`
of `PlayerSession`: the run states them for the parts whose clients leave what they
are sent in `sent`.

## 6. Not modelled

* `miniz` is vendored; `zlib_helper.c` is a thin loop around it. Its outcomes are
  inputs of `Packets`.
* `uuid.c` is a permutation of 16 bytes printed and scanned by the C library.
  `logger.c` is output.
* Widths of counters: the 24 bit number on the wire (`rakserver.c:359`), the 16 bit
  compound id and queue sizes. Their wrap is beyond any run's bound.
* Retransmission timers: the server has none (nothing is resent without a NACK,
  `rakserver.c:610`), the client's are not in this tree.
* An MTU of 60 or less (`rakserver.c:402` divides by `mtu_size - 60`): the sender's
  MTU is a constant of a run.
* The reliability and indices of a reassembled frame, which `rakhandler.c:144` never
  sets: no handler of the models reads them.
* `set_raknet_option` and the effect of pings on other state: there is none.
* Encryption, which `mchandler.c` has commented out.
* The bytes of a key and what `strcmp` reads behind a key that has no 0: a key is what
  stands before its first 0.
* A handler of the worker that is interrupted by the disconnects of
  `destroy_raknet_server` on the RakNet thread: a handler is one step of its packet.
* In `Region`, bytes of a cut file that are less than half a sector.

## 7. Plan

Done in the order of importance: queue, sender, receiver, acknowledgements, server
and threads, commands, region files; then chunks, sessions and login, resources,
packets, and the texts and bytes below them; then the proofs of all of them but the
codecs, of which the numbers of `BinaryStream` and the texts of `Base64` are proved. Next:

1. The liveness arguments, as far as they are safety: what each step of a tick, a
   worker or a client brings nearer (a variant), as action properties with proofs.
2. `RakLink`: a server's receiver against the fragments of its own sender, composed.
3. The player table, statement by statement, between the worker and
   `destroy_raknet_server`.
