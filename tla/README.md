# A verification project for sdrproxy

sdrproxy is a caching proxy for seismic data. It connects to one WinSDR server
(the *remote server*), keeps the one-second packets it receives in memory, and
serves them to any number of WinSDR clients (the *remote clients*), each of
which continues where it stopped. This directory holds TLA+ models of the
program, the TLC runs that check them and the proofs that TLAPS checks. All
source references are to `src/src/`.

## 1. Inventory

| part | source | state | operations |
|---|---|---|---|
| main thread | `main.c` | `chan_info_g`, `server_running` | polls CHANCHANGE; stops the server thread, reallocates the data ring, publishes the configuration, starts a server thread |
| client thread: connection | `client.c`, `socket.c` | connection state, `failtimer`, send ring | get socket, connect, reconnect, send the channel request |
| client thread: parser | `client.c`, `buffer.c`, `util.c` | receive ring, `old_chan_info`, `new_chan_info`, `inhibit_adc` | receive bytes, find channel information and packets, store packets, signal a change |
| server thread | `server.c` | connection slots, history of addresses | accept, read requests, send channel information and packets, time out, close, expire history |
| data ring | `databfr.c` | `data_store_g`, `datar_start`, `datar_end`, `datar_cnt` | alloc, dealloc, store, retrieve |
| byte rings | `buffer.c` | buffer, `readptr`, `writeptr` | init, store, view, retrieve, delete, size questions |
| packet times, checksum, logging | `time.c`, `util.c` | none, log file | formatting, decoding, `fail()` ends the program |

How they interact:

* client -> data ring <- server: `data_ring_ops`, one call under `mutex_datastore`;
* client <-> main: `client_comm` (flag CHANCHANGE, configuration) under `mutex_clientcomm`;
* main <-> server: `server_comm` (flag SRV_CLOSECMD) under `mutex_servercomm`, `pthread_create`, `pthread_join`;
* main -> server: `chan_info_g`, written under `mutex_chaninfo`, read without it;
* client <-> remote server, server <-> remote clients: TCP sockets polled by `select`.

What is hard in it: three threads that tell each other of a change by flags
read once per pass; the data ring freed and allocated again under two users; a
second change while the first is being handled; a sorted ring that is inserted
into across its wrap; connections that close, break or are cut off between
`select` and the use of what it said; records of an address that outlive its
connections. `PROJECT.json` lists each hazard at its line.

What makes each part correct:

* data ring: sorted, no buffer shared by two indices, nothing lost but the
  oldest packet of a full ring, a reader gets the packet that follows its last;
* byte rings: a bounded queue of bytes, full and empty told apart;
* channel change: no use of a freed ring, no store while a change is pending,
  agreement when all is quiet, every change accepted, the server thread back;
* server thread: packets in order without gaps, nothing missing for a client that
  comes back, channel information first, room on the send ring, slots given up
  when their client is gone;
* client parser: whatever way the bytes are split, each item is handled once and
  in order, nothing sound is lost without a reason, and what is not an item does
  not block what follows;
* search for tokens: the first whole occurrence, however the comparisons are cut
  into longs, shorts and bytes;
* client connection: the socket fits the state of the thread, nothing of a lost
  connection reaches the next, a lost connection is made again.

## 2. Modules

| module | models | state |
|---|---|---|
| `SortedCache` | abstract: the bounded store of packets that the data ring promises | set of packets, last call |
| `DataRing` | `databfr.c`, one action per branch of `data_ring_ops` | the C variables, the pointer array as a function to buffers |
| `ByteQueue` | abstract: a bounded queue of bytes | sequence, last call |
| `ByteRing` | `ring_ops` of `buffer.c` | buffer, the two pointers |
| `BytesInBytes` | `bytes_in_bytes` of `util.c`, one action per round of its loop | arguments, the two pointers, the match |
| `ClientParser` | `check_data` of `client.c` with `find_chan_info`, `search_ring`, `get_chan_info`, `get_adc_data` and the checksum | the stream, the window of it on the receive ring, the pass |
| `ClientConnection` | the loop of `client_thread` with the socket calls of `socket.c` | state, `failtimer`, select sets, rings, condition of the socket |
| `ChannelChange` | the protocol between main, client and server threads | flags, configurations, what each thread does next |
| `RemoteClients` | the server thread, its connections and their sockets | slots, sockets, send rings, history, position in the loop |
| `MC...` | values of constants for TLC | none |
| `..._proofs` | theorems, proved by TLAPS (section 4) | none |

`DataRing` implements `SortedCache` and `ByteRing` implements `ByteQueue`
(`INSTANCE ... WITH` a refinement mapping, checked as a property and proved). In
all four, `reply` records the last call with what it was given and what it
returned, so that implementing the abstract module means giving the right answer
to the question that was asked.

How the modules lean on each other: `ClientConnection` says which bytes reach
the receive ring and when `check_data` is called; `ByteRing` says that a ring
gives back the bytes it was given, in order, which lets `ClientParser` treat it
as a window of the stream; `BytesInBytes` says that a search finds the first
whole occurrence, which `Search` of `ClientParser` takes for granted;
`ClientParser` says which items a pass finds, which `ChannelChange` takes as
whole items; `DataRing` says that a reader gets the packet that follows the last
one, which `RemoteClients` takes for `put_adc_data`.

**Grain of atomicity.** A call of `data_ring_ops` or `ring_ops` is one action:
the first holds its mutex throughout, the second works on a ring that only one
thread uses. In `ChannelChange` an action is one locked region or what a thread
does between two of them; main's field by field copy of the configuration is
two actions, during which it holds `mutex_clientcomm` and the client thread's
locked actions wait. In `RemoteClients` the loop of the server thread is cut
wherever a socket can change under it: `select`, read and advance a connection,
write to it, accept, expire. In `ClientConnection` likewise: `select`, receive,
the switch on the state, send. In `ClientParser` an action is one round of
`check_data`'s loop; bytes arrive between passes, main accepts a change at any
moment.

**Definitions ending in a fault.** Next to some definitions stands a variant
with a plausible bug (`NormalizeNegativeOnly`, `JoinWithoutWaiting`, ...). No
specification uses them; `PROJECT.json` pairs each with the property that
breaks when it takes the place of the original.

### Abstractions

* `DataRing`: a packet is a time stamp in milliseconds and an opaque image.
  Times are integers: 0.001 added to a double around 10^9 is far above its
  precision. The search is stated by what it finds (`PlaceOf`); `Bisect` is the
  loop of the code (`Half` is one round of it), checked and proved to find that
  place.
* `ByteRing`: bytes are two distinct values, requests have every length from 0
  to one more than fits.
* `BytesInBytes`: pointers are offsets. `search_ring` calls the function only
  with a haystack at least as long as the needle, which `Init` says; without
  that, a needle cut off by the end of the haystack would be reported.
* `ClientParser`: the stream of a connection is a sequence of cells. A cell says
  what the server meant by the item it belongs to (channel information, valid or
  with impossible values; a packet with a right or a wrong checksum; anything
  else), its place in the item, and what the parser makes of the bytes from
  there on: channel information that is valid, has impossible values or does not
  decode, or the token of a packet with the length behind it and whether the
  checksum of that many bytes is right. `search_ring` looks at every byte of the
  ring, so both tokens may be at any cell of a packet or of noise, with any
  length behind them; only channel information, whose text has no room for it,
  has no token but its own. A checksum that is right by chance is one of the
  streams, too. A length of which the low byte is 0 ends the program
  (`FailOnToken`).
* `ClientConnection`: rings are numbers of bytes; what the parser makes of the
  receive ring is any amount, some of it when the ring is full and the server
  sends what can be parsed. The socket is in one of eight conditions, from none
  to reset and known to be. `failtimer` counts in CLIENTCYCLETIMERs and ends
  at 0, which stands for all values below as well: the code compares `<= 0` only.
  Before it is set, and before the first `select`, timer and sets have any value.
  Sockets block, so that a send of fewer bytes than given is only what `send`
  allows. The waits of the loop and a failing `select` are left out.
* `ChannelChange`: a configuration is what `struct channelinfo` holds: samples
  per second, number of channels and A/D type. The first two are compared to
  detect a change, each by itself (`SameRate`). The receive
  ring holds whole items: channel information, packets, and channel information
  that `check_channel_info` rejects. The data ring is the set of configurations
  its packets have; its buffers are live or freed, and of a size. `announced` is
  what the running server thread last put on a send ring.
* `RemoteClients`: the data ring is the set of times it holds and packets arrive
  in order (out-of-order arrival is `DataRing`'s subject), up to `MaxGap` of them
  missing between two. Send rings count half
  packets: the ring has room for one packet, channel information is less. One
  listening socket stands for the two ports: records are per address and port,
  so an address on another port is another client. `CloseAll` is main's
  command, with the new thread and the emptied data ring in the same step. What
  the kernel has taken counts as received: `stopped`, a history variable, is the
  last packet that left the send ring as a whole before the client lost its
  connection. A client has at most one request that was not read yet; it is read
  before the end of the connection is noticed, be that a close or a reset
  (`server.c:696`).

## 3. Runs

| run | asks | bounds | distinct states |
|---|---|---|---|
| `data_ring` | sorted, no shared buffer, bisection right, integers in agreement, the bounded store implemented? | 4 slots, 6 times, 2 images | 59 703 |
| `byte_ring` | bounded queue, size questions consistent? | capacity 3, 2 byte values | 15 057 |
| `byte_search` | first whole occurrence found, always an end? | all haystacks up to 8 and needles up to 6 of two letters; widths 4, 2, 1 | 250 318 |
| `client_parser` | each sound item once and in order, none lost without excuse, a full ring drained? | streams of 3 items: two of 16, sound and otherwise, and a sound one behind them, arriving in any pieces; ring of 9 cells, bytes of 5 values | 512 172 |
| `client_connection` | socket and state, whole requests, nothing carried over, losses noticed, a full ring read? | request of 2 bytes, rings of 3 and 2, timer of 2, 2 bytes at the socket | 15 807 |
| `channel_change` | no use of a freed ring, no store while pending, agreement, no stale command, clients told right; changes accepted, server thread back? | 2 configurations, 2 items in the receive ring | 708 062 |
| `remote_order` | packets in order without gaps, the history record about the connection that uses it, nothing missing after a return? | 1 address, 2 slots, 4 seconds, one packet in a row missing, cache of 3, overlap of 3 | 2 890 158 |
| `remote_drops` | send ring, order of channel information and packets, slots given up, with silent drops? | 2 addresses, 1 slot, 1 packet | 304 362 |

Why the bounds suffice. A ring of 4 slots with 6 times is filled and then
displaced until its packets lie across the end of the array, with inserts on
both sides of it, and the bisection gets intervals of every parity; images are
interchangeable, as no operation looks at them. A byte ring of capacity 3 has
four positions, and each request starts at each of them. A needle of 6 is
compared as a long and a short, one of 5 as a long and a byte, and 8 bytes of two
letters hold every way a needle can overlap itself. The receive ring of the
parser takes one packet and one channel information, so that of three items one
is cut at the end of the ring and one already removed in part; the longest packet
is one cell longer than it. The first two items are ordinary, damaged, cut short,
noise, of the fatal length (with bytes of 5 values a length of 5 has a low byte
of 0), or packets with either token at the beginning of their data: with a
complete packet inside, one longer than the ring or of the fatal length, or with
channel information that is valid, impossible or does not decode, which ends in
the packet or reaches over its end. The third is sound, and shows what they cost.
A send ring of 3 holds a request and half of
another, which tells a rest from a whole; a timer of 2 runs out both right after
it was set and later. The protocol needs two configurations for "another change
during a change" (three, where the stale one must differ from both), which differ
in both fields but not in their product, and two items
for channel information followed by a packet in one pass. In the server thread
one address over two slots has an old and a new connection at once; two addresses
compete for one slot, with one packet, which is what a send ring holds. A cache
of 3 with 4 packets displaces what a client has not seen; an overlap of 3 is the
least that makes up for a missing packet, and records rewound by it still have
packets before them; and a client that is gone has been given a packet too many
if it left a request unread. `MaxTime` bounds the packets that arrive, `MaxGap`
those missing between two of them, `RcvLimit` the receive ring, `InboxLimit` the
bytes at the socket, each by a guard that names it.

CHECK_DEADLOCK is off where the modelled program or function ends: after
`fail()` (`RemoteClients`, `ClientConnection`, `ClientParser`) or SIGPIPE (`ClientConnection`),
and when the search returns (`BytesInBytes`). All other runs check it.

**Fairness.** `ChannelChange` assumes weak fairness of each thread: they are
system threads that block on nothing but short mutex regions, on
`pthread_join`, which is a guard here, and on `select` with a timeout. The end
of a server pass is fair as a pass serves a bounded number of connections.
Nothing is assumed of the remote server: it may keep changing its
configuration or fall silent. `ClientParser` assumes that the client thread's
passes go on and that main accepts a change, which `ChangeAccepted` is about.
`ClientConnection` and `RemoteClients` assume weak fairness of the thread's own
steps, for the same reason, and nothing of servers, clients and network: whether
a half-open connection is ever given up by TCP is left to chance. A function that
was called runs (`BytesInBytes`).

### Where code and documentation disagree

Each of these runs checks one property taken from a comment and finds it
violated; `findings` in `PROJECT.json` quotes the line.

| run | what happens |
|---|---|
| `missed_change` | `old_chan_info` lags one change behind, so a return to the configuration before is missed (`client.c:216`) |
| `slots_fit_config` | a change between main's two copies is published over buffers of the previous size (`main.c:299`) |
| `fatal_length` | the check that a packet begins with its token is the wrong way round: it calls `fail()` when the token is there and the low byte of the length behind it is 0 (`client.c:398`); A/D data packets have odd lengths, but messages or a token within a packet may not |
| `connection_lost` | a connection that is lost before any byte was received, or with the timer run out, is not made again: a request goes out on the dead socket, and SIGPIPE ends the program (`client.c:132`, against `main.c:130`) |

Other differences that the models reproduce, without a run of their own.

In the data ring:

* RING_RETR is documented to return 2 when nothing is stored (`databfr.c:256`);
  the code returns 1, as for a time that nothing is newer than
  (`databfr.c:454-457`). `NothingNewer` of `SortedCache` says what the code does;
* the comment on RING_RETR says that it returns 1 for a time before the oldest
  packet (`databfr.c:430-431`); the code returns 0 and the oldest packet
  (`databfr.c:447-453`), which is what the head of the function says of the value
  0 (`databfr.c:254`) and what the server thread relies on for a new client.

`ImplementsCache` holds against `SortedCache`, not against these two comments: no
caller tells 1 from 2.

In the client thread:

* the pass that hears of a new configuration still stores the packets behind it
  (`client.c:189`, against `main.c:100`); `NoStoreWhilePending` bounds it, as the
  flag is not up yet;
* a change of the A/D type alone is not compared (`client.c:201`);
* an inhibited pass deletes everything, though its comment means to keep the
  length of a token (`client.c:569`); the rest of an item cut in two is then met
  by the parser, which `NothingLostUnexcused` accounts for;
* channel information that does not decode hides a valid one behind it
  (`buffer.c:51`), until a packet passes it; in an inhibited pass none does, and
  the end of the pass then deletes the valid one (`client.c:569`). Bytes of a
  sound packet that begin like channel information are enough for that, or are
  heard as such: `Diverted` excuses what is lost, `HandledOnceInOrder` says what
  may be heard;
* what is behind a packet that was cut short or a length that is wrong, up to
  that length, is taken for a part of it and lost (`Misled`), although
  `client.c:537-545` means to prefer the channel information there: the branch
  is taken for -2 only, which `get_adc_data` never returns (`client.c:536`);
* a packet whose length field exceeds the receive ring is never complete
  (`client.c:412`); nor is a ring ever emptied in which there is no token at all,
  while passes are not inhibited. `FullRingDrains` excepts them;
* the guard of the receive looks at the free bytes of the send ring
  (`client.c:116`); `FullIsRead` shows that the receive ring is read all the same;
* a remote server that falls silent is not asked again: the timer counts only
  when `select` finds the socket readable (`client.c:125`, against
  `sdrproxy.h:85`), and a half-open connection is not noticed before TCP does;
* nothing is requested specially when packets are missing (against
  `main.c:131`), and the flag DATAALLOC of `sdrproxy.h:217` is not used: the client
  thread waits for CHANCHANGE to go down, which main lowers only when the new data
  ring is there.

In the server thread:

* `chan_info_g` is read without its mutex, so a remote client can be told a mix
  of two configurations (`server.c:472`, against `sdrproxy.h:265`);
  `ToldWhenQuiet` shows that it is not left with it;
* a half-open connection and its successor share a history record, and both get
  gaps (`server.c:796`, against `main.c:71`): with `SilentDrops = TRUE` in
  `RemoteOrder.cfg`, TLC finds `NoGap` violated. Without silent drops it holds;
* a send error such as ECONNRESET ends the program instead of the connection
  (`server.c:556`);
* SENDnAD is not recognised (`server.c:622`);
* the rewind to an even minute, done in floating point, rounds nothing
  (`server.c:797`);
* history is expired from a list that is always empty (`server.c:269`);
* the ring buffers of a connection are not freed (`server.c:325`);
* after a missed change, a packet may be larger than the send rings
  (`server.c:510`);
* `packet_sent` is only ever set, so that the loop keeps its fast pace
  (`server.c:250`).

## 4. Theorems

All are proved for every value of the constants that the named assumptions
allow. Every invariant and every action property that a run checks is stated by
one of them.

**`ChannelChange_proofs`** (`ConfigsAssumption`, `RcvLimitAssumption`: any set of
configurations, any size of the receive ring): `TypeCorrect`, `FreedRingUnused`,
`QuietAgreement`, `CloseCmdAnswered`, `QuietClientsToldRight` are the invariants
of run `channel_change`, `PendingStoresNothing` its action property. None of the
invariants is inductive alone. `Handshake` adds what the threads know of each
other: main is away from its polling only while CHANCHANGE is up or just before
it polls again; a client pass that may store began with the flag down and, as
only the end of a pass raises it, the flag is still down; the ring is freed only
where main is about to allocate it; and from the join to the restart there is no
server thread. `IInv` is the conjunction; `InitIInv` and `NextIInv` show it
inductive, one step per action. `NoUseOfFreedRing` follows because main frees the
ring with the flag up, hence with no pass that may store, and after the join,
hence with no server thread; `ToldWhenQuiet` because main changes `chan_info_g`
for good before it starts the server thread that then reads it. `CloseCmdAnswered`
says that the command is up exactly while main waits and the thread has not taken
it: main joins only a thread that exists, so the command is never lost either.

Two theorems bound what the runs `missed_change` and `slots_fit_config` find.
`MissedReturnsOnly`: whatever the client thread fails to signal is a return to the
configuration before the last one. `HeardInPass` says what a pass has heard but
not compared yet, which `PassTellsMain` follows to the end of the pass.
`FitsUnlessOvertaken`: in a behaviour where no change is signalled between main's
two copies (`NeverOvertaken`), the slots of the data ring fit the configuration
whenever main has accepted it. `InStep` is the argument: what main copied first,
the size of the slots and what it copies next stay the same configuration.

**`DataRing_proofs`** (`DataSizeAssumption`, `TimesAssumption`,
`NoPacketAssumption`: any number of slots from two on, any time stamps and
images): `TypeCorrect`, `BuffersApart`, `CountAlwaysAgrees`, `AlwaysSorted` and
`BisectIsRight`, the invariants of run `data_ring`. The conjunction of the first
four, `IInv`, is inductive, no part is alone: sortedness makes the place of
a packet well defined (`FirstPlace`, by counting the older packets), the count
says which buffer the end points to, and that no two indices share one means that
writing it changes no other packet. The argument is about `Contents`, the packets
by their place counted from the start: `RotateRightMoves` says where each pointer
comes from, `RotatedBetween` what that means for places when the rotation passes
the end of the array or the start of a full ring, and `StoredAtEnd`,
`StoredAtEndOfFull`, `StoredAtStart`, `StoredBetween` and `StoredOver` that every
branch of RING_STORE inserts the packet at its place, a full ring dropping its
first. Inserting at the right place and dropping the first keep a sequence
sorted. `BisectIsRight` (`BisectFindsPlace`) needs no more than a sorted ring. A
round (`Half`) keeps the last packet not newer than the target between its bounds
and makes their distance smaller; so the function that is constant where that
packet is satisfies the recursion, which shows that the recursive function is
defined, and a least distance at which it had another value would have one below
it, as the natural numbers are well ordered.

**`DataRingCache_proofs`**: `ImplementsSortedCache`, the data ring refines
`SortedCache`. A store is an insertion, a replacement, a displacement of the
oldest packet or a refusal, according to the range of `Contents` before and
after; a sorted ring has as many packets as places, so a full ring is a full
store; RING_RETR returns the oldest of the packets newer than the time given.

**`ByteRing_proofs`** (any capacity, any set of bytes): `TypeCorrect`,
`SizesAgree` and `RingIsQueue`, the refinement of `ByteQueue`. The bytes stored
are those at the positions from the read to the write pointer; the lemmas about
the modulus say how many there are on each side of the wrap, and that a copy in
two parts is the copy of one sequence.

**`BytesInBytes_proofs`** (any haystacks, needles and both widths):
`TypeCorrect` and `SearchIsRight`. The invariant of the loop is that the `need`
bytes before `hay` are those of the needle, from `savedhay` on, and that no
occurrence begins before the match, or before `hay` where there is none. A failed
comparison refutes the occurrence at the start of the match only, which is why
the search goes on one byte behind it. `EveryRoundAdvances` is the part of
`Terminates` that needs no fairness: a comparison ends the search, moves the place
it tries, or matches more of the needle there.

**`ClientConnection_proofs`** (any sizes, timer and inbox): `TypeCorrect`,
`SocketAlwaysFits`, `NoMixedConnections`, `UnmadeIsNotWritten` and
`RequestsAreWhole`. A socket that
could not be connected is written to only through `canWrite` as `select` found it
in the same pass, which found it readable, too; so its loss is seen first, unless
the timer overrides it. What was sent and what waits to be sent is a whole number
of requests because both rings are emptied with the socket, and because a request
is put on the send ring as a whole; the proof writes the number as a product, as
the solver does not know a remainder by a constant without a value.

**`ClientParser_proofs`** (`LengthAssumption`, `StreamsAssumption`: any set of
streams with tokens anywhere in packets and noise, any lengths behind them, any
sizes of tokens and ring, the ring holding at least one channel information):
`TypeCorrect`, `OnceInOrder`, `PassIsComplete` and `NoneLost`, which states
`NothingLostUnexcused`. `StreamsAssumption` says that every cell has the first
cell of its item before it; hence no item begins within another (`InsideItem`,
`ItemStart`), and what is handled next lies behind all that was handled. A token
that does not mislead is the one of channel information, or it is inside a packet
whose own token is before it on the ring (`TokenOrigin`). The searches return the
least place that matches, which `LeastExists` supplies; so a sound item is found
unless something before it is, or something before it hides channel information
(`ChannelFound`, `PacketFound`), and what is found is removed up to its end and no
further (`ChanInfoNext`, `AdcDataNext`): with packets looked for, what their data
looks like never gets in the way. The invariant adds `NothingMore` to the checked
ones: where a pass comes to its end without an error, the search for channel
information has failed. That is why removing everything in an inhibited pass costs
packets and pieces of items, but whole channel information only where
`NothingLostUnexcused` says so. `EveryRoundAdvances` is the
part of `PassEnds` that needs no fairness: a round of a pass ends it or removes
something, as what a length field says is never nothing.

**`RemoteClients_proofs`** (any number of clients, slots, packets and cache):
`TypeCorrect`, `ChannelFirst` and `SendRingFresh` hold with or without silent
drops. Their conjunction is inductive with `HeardIsThere`: where `select` heard
of a connection, accept still finds one. `RecordsCurrent` and `NoneLeftOut`, the
two properties of run `remote_order` that all of the server exists for, hold
without silent drops. The difficulty is that several slots may refer to one
history record: the slot of the client's connection, and older ones that the
thread has not shut down yet. `OrderInv` says why they do no harm. A slot whose
client has gone has a socket at its end (`AbandonedKnown`), and one with nothing
left to read is `Doomed`: its next read shuts it down, so it sends nothing any
more. Of two slots with one record, one is doomed (`OneAlive`), and a slot that
is not doomed was last sent what its record says (`RecordFollows`). What is left
is accept, which rewinds a record while older slots may refer to it: the
connection was on the backlog when `select` was called, so the older ones had
ended by then, `select` found them readable, and this pass has read what they
still had to say (`NextIsFree`). That is the order of the loop - read all, then
accept - put to use, and it is what a silent drop breaks.

`ReturnsWhereStopped` says what the rewinding is for, again without silent drops:
a client that comes back gets everything from the first packet that was not sent
whole. Its record may be ahead of that, by the packet on the send ring and by one
more: a connection that `select` has not heard of yet is still given a packet in
this pass, and an unread request of a client that has gone is answered before the
thread notices. `StopsNear` bounds the record by how many packets a slot that is
still served can put (`Left`): with one left, the record is not ahead of what the
client misses, with two it is behind. `CacheRuns` turns packets into seconds. So
the theorem asks for an overlap of two, and one more for each packet that may be
missing in a row; with less, TLC finds `ContinuesWhereStopped` violated.
`SECONDS_OVERLAP` is 4, so that up to two missing packets are made up for. Across
a longer gap in the data the code does not go back far enough.

Only model-checked: the liveness properties (fairness and ENABLED are outside the
prover's reach): `ChangeAccepted`, `ServerReturns`, `Terminates`, `PassEnds`,
`FullRingDrains`, `LostIsClosed`, `FullIsRead`, `LostIsReleased` and
`IdleIsReleased`.

## 5. Not modelled

* `time.c`: formatting of times for the log and decoding of a time stamp with
  `timegm`; packets carry an abstract time.
* Logging, warnings, and `fail()` beyond its ending the program; the command line
  and the start of the threads, which happen once.
* `get_addr` and socket options, which are called once before a loop, and what
  nothing calls: `send_all`, RING_DEALLOC of byte rings, RING_ELEMENTS_STORED and
  RING_ELEMENTS_FREE of the data ring (they would return with its mutex held) and
  ID_DELETE of the history.
* Packet sizes in `RemoteClients`, and the length of waits anywhere:
  `select_delay`, which main calls in every round of its loop (`main.c:313`), is
  only a pause.
* The client thread as a whole: `ClientParser`, `ClientConnection` and
  `ChannelChange` each model one side of it and abstract the other two.

## 6. What the plan has left

All modules planned are there. What could follow, in order of worth:

1. Composition of `ChannelChange` with `RemoteClients`, for packets that outgrow
   a send ring after a missed change. Their product is beyond TLC at bounds where
   that happens; it needs an abstract server thread first.
