# Formal models of Computer_Network_Labs

The repository holds the author's solutions to four labs of a computer networks
course. This directory models the three that have an implementation: the myFTP
client and server (Lab1), the reliable transport protocol RTP (Lab2), and the
learning switch (Lab4), alone and in a network of switches. TLC checks them on
small instances; TLAPS proves every safety property that these checks pass, and
both refinements of RTP and the one of the switch, for every instance. The router
(Lab3) has no implementation in the repository.

## 1. Inventory

### Lab2, RTP over UDP (`Lab2/My Codes`)

| part | state | operations |
| --- | --- | --- |
| sender (`sender_def.c`) | `send_base`, `next_seq_num`, `acked[100000]`, the timer of `timerfd_create`, the socket | `initSender`, `sendMessage` or `sendMessageOpt`, `terminateSender` |
| receiver (`receiver_def.c`) | `recv_base`, `packet_cache[80000]`, `cached[80000]`, a 10 s timer, the output file, the socket | `initReceiver`, `recvMessage` or `recvMessageOpt`, `terminateReceiver` |
| packets (`rtp.h`, `util.c`) | none | `compute_checksum` over header and payload |
| test driver (`test.cpp`) | none | each TEST runs a receiver thread and a sender thread, or one of them against a prebuilt faulty peer |
| network | datagrams in flight | loss, repetition, delay, reordering, corruption (`Lab2.md:53-59`, `Lab2.md:216-218`) |

Sender and receiver share nothing but datagrams. Both poll: the two transfer
loops never block, so every turn of a loop is a few system calls among which
the other side and the network move. What is hard: cumulative ACKs that arrive
late, the retreat of `next_seq_num` on a timeout, the window that slides past
the end of the file, the END packet among late DATA packets, a set-up that one
side believes failed and the other believes succeeded, and file-scope state
that outlives a transfer.

What makes it correct: the receiver's file is always a prefix of the sender's;
a call that reports success tells the truth; no index leaves its array; a
packet that the sender counts as received is held by the receiver; the sender
never sleeps without a timer; both sides' calls return.

### Lab4, the switch (`Lab4/My Codes`)

`mySwitch` keeps a table of `PortNum + 1000` slots (`used`, `macAdd`, `port`,
`lifeTime`). `InitSwitch` clears it. `ProcessFrame` handles one frame: on port 1
it ages every entry; on a host port it learns the source and looks up the
destination. The simulator (outside the repository) calls it from one thread.
What is hard is the long run: slots freed by aging and reused in another order,
hosts that move, a table that is full. What makes it correct: at most one entry
for a host, at the port where it was last heard, for exactly ten agings, and
every frame answered accordingly, never back to where it came from.

The simulator links several switches to a tree (`lab4.md`, its instructions
`new`, `link`, `n`, `aging`). Each switch floods, learns and forgets on its own;
frames and their copies are on their way meanwhile. What makes the network
correct: no table leads a frame away from its host, and every frame reaches its
destination once and its source never.

### Lab1, myFTP (`Lab1/My Codes`)

| part | state | operations |
| --- | --- | --- |
| server (`ftp_server.cpp`) | the accepted socket, `fileLen`, its directory | `accept`, then a loop that reads a 12-byte header and runs OPEN, AUTH, QUIT, LIST, PUT or GET |
| client (`ftp_client.cpp`) | `socketfd`, `isSocket`, `isAuth`, its directory | `open`, `auth`, `ls`, `get`, `put`, `quit` |
| TCP | the bytes on their way in each direction of each connection | connect, close, the end of a process |

The server serves one client at a time, the others wait in the kernel's queue.
`recv` may return any part of a file, joined to what was sent before or after.
What is hard: the two loops that count bytes until a file is complete, a PUT
that has no final reply, a connection that ends in the middle of a command,
clients that leave without QUIT, and flags that survive their connection. What
makes it correct: files are copied whole; request and reply never get out of
step; nothing is served before the credentials were accepted; every command
comes back to the prompt, and the server to `accept`.

### Lab3

Only the assignment and an archive: nothing to model.

## 2. Modules

| module | models | extends |
| --- | --- | --- |
| `FileTransfer` | what RTP promises its callers: no packets, windows or timers | |
| `CachedTransfer` | what the optimised RTP promises instead: a segment is confirmed when it is held, and written before the receiver returns | `FileTransfer` |
| `Rtp` | the state of one sender, one receiver and the network; set-up, tear-down, END, flush loop, loss; properties common to both protocols | |
| `RtpGbn` | the plain protocol: `sendMessage` against `recvMessage` | `Rtp` |
| `RtpOpt` | the optimised protocol: `sendMessageOpt`, `send_again`, `recvMessageOpt` | `Rtp` |
| `RtpRepeat` | transfers one after another in one process (`test.cpp`) | `RtpGbn` |
| `Forwarding` | what a learning switch promises: hosts, ports and ages, no table | |
| `Switch` | `mySwitch` with its slots | |
| `SwitchNet` | switches linked to a tree, frames and their copies in the buffers between them | |
| `FtpStream` | the messages of myFTP and the TCP connections that carry them | |
| `FtpServer` | `ftp_server.cpp` | `FtpStream` |
| `FtpClient` | `ftp_client.cpp`, for any number of clients | `FtpStream` |
| `Ftp` | one server, its clients and their users; the properties of myFTP | `FtpServer`, `FtpClient` |
| `FtpInv` | the inductive invariant of myFTP, checked by TLC and used by the proofs | `Ftp` |
| `RtpLemmas` | facts about streams, caches and the flush loop, shared by both protocols | `Rtp` |
| `RtpGbnProof`, `RtpOptProof` | proofs about the two protocols | `RtpGbn`, `RtpOpt`, `RtpLemmas` |
| `SwitchProof`, `SwitchNetProof` | proofs about one switch and about a tree of them | `Switch`, `SwitchNet` |
| `FtpLemmas` | what the programs of myFTP see of a stream that begins with a header, and how a file falls into parts | `FtpInv` |
| `FtpServerProof`, `FtpProof` | every step of the server, every step of a client, the theorems | `FtpLemmas`, `FtpServerProof` |
| `MCRtpGbn`, `MCRtpOpt`, `MCRtpRepeat`, `MCSwitch`, `MCSwitchNet`, `MCFtp` | small files and topologies for TLC | |

### RTP: how the model stands for the code

A turn of a transfer loop has three parts: send, read one datagram, read the
timer. The sender's place (`spc`) is one of them, so that everything else can
happen between any two. Names of variables are the code's; `packet_cache`
stands for `packet_cache` and `cached` together, `acked` for the set of indices
that are 1, `out` for the payloads given to `fwrite`. The flush loop
`while(cached[recv_base] == 1)` is `Flush`: it picks the end of the run of
cached packets.

A turn of `recvMessage` is one action: it caches, flushes and then acknowledges,
so that its one `recvfrom` and its one `sendto` enclose all it does. A turn of
`recvMessageOpt` is two: `RecvDataOpt` caches the packet, if the window admits it,
and sends the ACK (`receiver_def.c:302-314`); `FlushOpt` writes (`:334-339`).
Between them the sender may read the ACK, and even return (section 4).

The network is a set of datagrams in each direction. Receiving one leaves it
there, so it can arrive again, late and in any order; a `Lose` action removes
it. Corruption happens at delivery: the step that reads a corrupt datagram is
`RecvNoAck` in the sender (the ACK is ignored) and `RecvOther` in the receiver
(the plain receiver answers it with its `recv_base`, the optimised one does not
answer). CRC-32 is taken to catch every corruption.

Payloads are model values. `make_rtp_packet` reads past the end of the file
without error and yields an empty payload (`Empty`), which the code does send:
`sendMessage` stops when `send_base` reaches `seg_len`, not when `next_seq_num`
does. `file_statics` adds one segment, so a file whose size is a multiple of
1461 ends in an empty segment: `File` is a non-empty sequence over `Payload`,
`Empty` included. The real sizes satisfy the assumption on `CacheSize`: 100 MB
(`Lab2.md:210`) gives at most 71,772 segments, with windows of 512
(`Lab2.md:212`) the numbers stay below 72,284, within `packet_cache[80000]` and
`acked[100000]`. 32-bit overflow of `p * 1461` and of `seq_num` is out of reach
at that size.

Timers and timeouts are choices: a step that needs an expired timer may be
taken whenever the timer is armed. This covers every schedule, at the price that
fairness must say when timers expire (section 5). `sendMessage` ignores the
results of `sendto`: a failed send is a lost datagram.

`StartAckOnce` chooses the network between `initReceiver` and `initSender`.
TRUE: the ACK of START is delivered once. FALSE: it can be repeated like any
other datagram, and then the protocol breaks (section 4). All positive results
are for TRUE. `RtpOpt` further assumes `SenderWindow <= ReceiverWindow`, which
the lab grants (`Lab2.md:212`).

Left out: sockets, addresses and descriptors (`recvMessage` closes its socket
and `terminateReceiver` closes the same number once more), stdio buffering (on
its timeout `recvMessage` returns without `fclose`). A `recvMessage` whose
`fopen` fails looks like one whose timer expires at once (`RecvTimeout`).

### Switch: how the model stands for the code

One action per path through `ProcessFrame`: `DataFrame` is learning
(`Refresh`, `Insert` or `TableFull`) followed by the lookup on the table just
changed (`Reply` speaks of `switchTable'`), `ControlFrame` ages all slots,
`WrongType` is the two early returns. Refreshing rewrites every matching slot
because that loop has no `break`; insertion and lookup take the first slot.
`TableSize` is `PortNum + 1000` and `MaxLife` is 10 in the code; nothing in the
module or its proofs depends on the numbers.

### SwitchNet: how the model stands for the code

A switch is what `Forwarding` makes of it, since `Switch` is shown to implement
that: an age and a port for each host. Its table has room for every host
(`PortNum + 1000` slots). A frame is the number of an entry of `sent`, so that
two copies of it are told apart from two equal frames. `ProcessFrame(e)` takes
the frame at the front of the buffer of a link end, learns, looks up in the
table just changed, and the simulator's part, `Carry`, puts the frame behind
each port returned. In the simulator `n` lets every switch process a frame in
turn and `aging` reaches all of them; the model lets switches act in any order
and age one by one, so those orders are among its behaviours.

`Home` is the port of each switch on the way to each host. `TreeAssumption` says
no more than that a link has each host on exactly one side. With a loop in the
topology floods never end; the switch has no spanning tree and Lab4 builds none.

### myFTP: how the model stands for the code

A stream is a sequence of cells. A header has `HeaderLen` cells (12 bytes in the
code), a byte of a file is one; a name and credentials are one cell each,
because nothing depends on their length. `Received` is `recv`: any prefix up to
the size asked for, except that a short message sent by one `send` is not cut:
the model never shows a piece of a header, of a name or of credentials. A
listing is not short: it may have 2047 characters (`1.myftp.md:127`), more than
a segment carries. It is `ListLen` cells, the segments it is sent in, of which
the first shares a segment with the header, and TCP may cut before each other
one. `ls` takes what its one `recv` returns for the whole
(`ftp_client.cpp:482`); the model's flag `torn` of a connection, which is not in
the code, records that it was not. The next reply is then read from the rest of
the listing, is none, and the client closes the connection.

Each handler of the server is one action; a request is read when all of it has
arrived. The two loops over a file take a step for each `recv` or `send`. The
code compares `cnt` with `fileLen + 12`; the model compares the length written
with `fileLen`, which is the same since `cnt` counts the header and what was
written. `ReadEnd` is a `recv` that returns 0: no loop of the server tests for
it, so it stays where it is for ever (`"spin"`). As the first piece of a PUT it
also makes `fwrite` write `0 - 12` bytes, as a `size_t`, of whatever follows
`buffer_file`: the model's file then holds any byte.

`goto Here` leaves the connection open on the server's side, and `close` on the
client's side ends it (`left`). `ServerDies` stands for a kill or a `SIGPIPE`,
which a `send` to a client that has closed can raise: all connections, queued
ones too, are `dead`, but what was sent still arrives, and the client's `recv`
then returns 0. `recv` and `send` that return -1 are treated like an end of the
stream, as most of the code does. Two loops do not, and what they do at -1 is left
out: that of GET in the client, which returns with the file it has, and that of PUT
in the server (`ftp_server.cpp:142`), where -1 is added to `cnt` and becomes the
size of an `fwrite`. A client without a
server gets its `connect` refused, which changes nothing. `Leave` is the end of
the input (`ftp_client.cpp:89`) or a signal: no QUIT is sent.

The flag `authed` of a connection is not in the code, where the server keeps no
such state: it records that AUTH was answered with 1. Passwords are right or
wrong. Clients and server work in different directories.

`Patient` restricts the user: TRUE, and a command is typed only when the server
has read the data of the PUT before it. The positive results are for TRUE; what
happens otherwise is in section 4.

## 3. Runs

| run | instance | states | shows |
| --- | --- | --- | --- |
| `gbn` | 3 segments, windows 3 and 2, cache of exactly `seg_len + SenderWindow`, START number 1 | 1,295,446 | safety of the plain protocol, its inductive invariant, refinement of `FileTransfer` |
| `gbn_live` | 1 segment, windows of 2 | 7,638 | `SenderFinishes`, `ReceiverReturns` under fairness |
| `opt` | 3 segments, windows of 2 | 98,100 | safety of the optimised protocol, its inductive invariant, refinement of `CachedTransfer` |
| `opt_live` | 1 segment, windows of 2 | 5,332 | `SenderFinishes` under fairness |
| `switch` | 3 hosts, 2 host ports, 2 slots, life of 3 | 2,193 | slot table correct, refinement of `Forwarding` |
| `switchnet` | 3 switches in a row, 3 hosts, life of 2, 2 frames | 35,729 | tables point home, every frame delivered once, never echoed, the inductive invariant behind that |
| `ftp` | 2 clients, 2 connections, 1 name, buffers of 3 cells, headers of 2, listings of 2, 1 death of the server | 192,856 | files whole, requests and replies in step but for torn listings, credentials first, commands return; the inductive invariant that relates both programs to the stream between them |

Why these bounds are enough to be interesting. In `gbn` the sender's window is
larger than the receiver's, so packets arrive that the window test refuses; the
sender overshoots the file by two empty packets; the file is long enough for
`send_base` to jump over `next_seq_num` before the end (which takes a rewind, a
window of at least two and a third segment); the
cache has not one entry to spare; the START number equals a number that DATA
ACKs use, so a mix-up of the two cannot hide. Segments differ, so a misplaced
one shows. All datagrams ever sent can be in flight together: no bound on
copies, reordering or age is needed, and the numbers are bounded by the
protocol itself. In `opt` the file is longer than the window, so the window
slides while packets of earlier positions are still unacknowledged; its START
number lies outside the array, where only `initSender` may read it. In `switch`
there are more hosts than slots, so the table fills up, slots are freed one at
a time and reused by other hosts, and hosts move between ports.

In `switchnet` the middle switch has no hosts, so it learns only from what others
pass on; two hosts share a switch, so a frame between them is also flooded to
switches behind it; entries live for two agings, so they can run out between
any two hops of a frame; and a reply meets tables that a flood has filled, in
part or not at all. In `ftp` files are absent, empty, as long as a buffer and
longer; a buffer holds a header and one more cell, so that a first piece with
data, a first piece without and full pieces all occur; the second client
waits in the queue while the first is served, and both may put and get the same
name. A connection is the unit of what a crash destroys: with two of them a
client can reconnect to a new process, or the second client can be in the queue
when the first one dies. A listing has two
cells, so `ls` may take the first for the whole, and every command is then typed
over the rest.

The RTP and myFTP runs set `CHECK_DEADLOCK FALSE`: clients, senders and receivers
end, and a server may spin. The switches never end and their runs check for
deadlock.

The properties, each with the hazard it is for, are listed in `PROJECT.json`;
each is stated in a comment at its definition. Those that say most:

- `ImplementsTransfer`, of the plain protocol: the caller's view. The output
  grows as a prefix of the file; `sendMessage` returns 0 only when the file is
  complete; `recvMessage` reports success only for a complete file, or for an
  empty one when `initSender` told its caller that it failed.
- `ImplementsCachedTransfer`, of the optimised one: the same with a weaker
  promise to the sender. `sendMessageOpt` returns 0 when the receiver holds the
  file, and `recvMessageOpt` never returns with a segment that it holds and
  could write.
- `SentMeansHeld`: what is missing from the output when `sendMessageOpt` returns
  0 is in the cache, and the receiver is between an ACK and its loop that
  writes.
- `AckedMeansHeld`: the selective protocol never resends a packet it has an
  ACK for, so every such packet must be written or cached, although the
  receiver acknowledges a packet whether or not it has kept it.
- `TimerGuards`: when ACKs of first copies arrive after a timeout, `send_base`
  jumps over `next_seq_num` and the plain sender stops sending altogether
  (`sender_def.c:221`); only an armed timer gets it going again. The property says
  that it is armed then; that the sender finishes after such a jump is not checked,
  because the liveness runs have one segment.
- `ImplementsForwarding`: the slots behave like a map with ages, including which
  hosts are forgotten when, and what happens when the table is full.
- `AtMostOnce`, `Delivered`: floods of switches that know nothing and forwards of
  those that do add up to exactly one copy for the destination.
- `InSync`: whatever was asked, answered or refused, a client at its prompt has
  nothing left to read and its server waits for its next request. The one exception
  is stated in it: the rest of a torn listing, which is no reply to anything.
- `PutIsWhole`, `GetIsWhole`: the counting loops stop exactly at the end of the
  file, with the header removed from the first piece and from no other.
- `SpinsOnlyForTheGone`: of all the ways a conversation can end, only a client
  that leaves without QUIT, or closes its connection over the rest of a torn
  listing, costs the others their server.

## 4. Where the code and its documents differ

Five runs are expected to fail; each checks one promise of the documents.

| run | what happens |
| --- | --- |
| `gbn_dup_start_ack` | A repeated ACK of START reaches `sendMessage`, which reads its random `seq_num` as a cumulative ACK: it returns 0 and nothing is written. `Lab2.md:30` says that the two kinds of number are unrelated, `Lab2.md:57` that packets may arrive any number of times. |
| `opt_dup_start_ack` | The same packet makes `sendMessageOpt` set `acked` at a random index, outside the array. |
| `gbn_no_return` | With a receiver that has given up (after ten silent seconds, or because the network was cut), `sendMessage` resends for ever; `sender_def.h:24` promises -1. |
| `repeat` | The second transfer of a process begins with the numbers of the first: `sendMessage` returns 0 at once and the file stays empty. `test.cpp` runs all its tests in one process unless a filter selects one. (`RtpRepeat` uses the plain protocol for both transfers; `sendMessageOpt` leaves its loop by the same test.) |
| `ftp_put_joined` | `put` comes back to the prompt before the server has read the data. The request of the next command then arrives joined to the last bytes of the file: the server writes it to the file, its count steps over `fileLen + 12` and its loop never ends; the client waits for ever. `1.myftp.md:119` promises a reply (the command in TLC's trace may be another one, with its own promise at `:138`, `:155` or `:172`). |

Some differences have no run of their own, but are part of the models:

- `sendMessageOpt` may return 0 before the last segments are written: the ACK
  goes out (`receiver_def.c:311-314`) before the loop that writes (`:334-339`).
  They are in the cache then, and `recvMessageOpt` writes them before it reads
  another packet, or a timer, or returns. `SentMeansHeld` says so;
  `SentMeansWritten`, which the plain protocol has, does not hold.
- A listing of up to 2047 characters (`1.myftp.md:127`) is read by one `recv`
  (`ftp_client.cpp:482`), which may return its first part. The next command
  takes the rest for its reply, reports a protocol error and closes the
  connection, keeping `isAuth`. The server has seen no QUIT and reads that
  connection for ever, like one of a client that has ended; the same client, if
  it opens a new one, waits for it in vain (`Stranded`).
- A client that ends without QUIT, as the end of its input does
  (`ftp_client.cpp:89`), leaves the server spinning (`ftp_server.cpp:53`), while
  `1.myftp.md:92` lets a running server answer every OPEN. `SpinsOnlyForTheGone`
  says that nothing but this and a torn listing does it, and `CommandReturns`
  speaks only of the connection the server has accepted.
- `closefd` keeps `isAuth`: a client whose server has died, and which opens a
  connection to the next process, skips AUTH, and is served. `AuthBeforeService`
  therefore says nothing after a death.
- A GET whose server dies in the middle spins for ever (`ftp_client.cpp:689`).
  `CommandReturns` says nothing after a death either.
- END carries `send_base` (`sender_def.c:296`), while empty packets beyond the file,
  with the same and larger numbers, may be in flight; `Lab2.md:32` wants the
  number of the next packet. `CleanClose` shows that no data is lost by it.

## 5. Fairness

`FairSpec` of `RtpGbn` and `RtpOpt` assumes:

- the sender's thread keeps running: `WF` on its steps. Its loops poll and
  never block, and `initSender` and `terminateSender` wait at most 100 ms;
- the timer expires: `SF` on `TimerExpired`. The loop reads the timer in every
  turn and 100 ms pass; the sender visits that place again and again, with the
  timer armed, and takes the other branch only while the time has not come;
- the receiver's thread keeps reading, and a DATA packet that is put in flight
  again and again gets through: `SF` on the receipt of each intact packet in
  `RtpGbn`. A network that loses every copy gives no liveness to any protocol;
- the same for ACKs, as `AckGetsThrough`: an ACK in flight infinitely often is
  read infinitely often by a sender that keeps reading. It is not an `SF`
  formula, because between two reads a copy may always be lost. In `RtpOpt`, where
  the receiver too has a place at which it does not read, `DataGetsThrough` is
  the same for DATA;
- (`RtpOpt`) the receiver goes on from the ACK to its loop that writes: `WF` on
  `FlushOpt`;
- (`RtpGbn`) no datagram stays in the network for ever, and the receiver's 10 s
  timers expire once the sender has stopped and nothing is left to arrive. The
  timers are not required to expire earlier, but they may.

Under these, `SenderFinishes` says that a connected sender closes unless the
receiver timed out, and `ReceiverReturns` that the receiver's two calls always
return. `SenderReturns`, without the exception, is the violation of section 4.

`FairSpec` of `SwitchNet` is `WF` on the processing of each buffer: the simulator
goes on while a buffer holds a frame. Nobody has to send or to age. `FairSpec` of
`Ftp` is `WF` on what the server and each client do by themselves: a `recv` with
something to read returns, and so does a `send`. Nobody has to type a command,
to leave, to kill a process or to start one.

## 6. Proofs

`RtpGbnProof` proves for every file, every pair of windows, every `CacheSize`
of at least `seg_len + SenderWindow` and every START number, from the named
assumptions of `Rtp` and `StartAckOnce`, that `Spec` implies the types, all
safety properties of the `gbn` run, and `ImplementsTransfer`.

The properties are not inductive by themselves. `IInv` adds what they rest on:

- `PacketsInv`: a DATA packet in flight holds the segment of its number and
  lies within the sender's window of now and within the stream the sender can
  reach; an END is in flight only when the sender has finished or failed;
- `StartInv`: before a connection nothing has moved (this is why an END from a
  failed `initSender` finds an empty output);
- `CacheInv`: cached packets hold the segment of their index, and the output is
  the stream up to `recv_base`;
- `BaseInv`: every ACK in flight and `send_base` are at most `recv_base`, but
  for the ACK of START, which only a sender in `initSender` may see. This is
  where `StartAckOnce` is needed;
- `TimerInv`: the timer is armed from the first packet on.

The argument has one lemma per group of actions (`InitSenderStep`,
`SendMessageStep`, `InitReceiverStep`, `RecvMessageStep`, `LoseStep`), over
`RtpLemmas`, whose `FlushWritesStream` shows that the flush loop appends
exactly the stream's next payloads. `Invariance` combines them; each property
then follows in a few lines. `Refinement` maps every step to a step of
`FileTransfer` or to none: a flush that writes is `Write`, which needs that only
a sender that has connected has put DATA in flight.

`SwitchProof` proves for every set of hosts, number of ports, table size and
life time that `TypeOK`, `OneEntryPerMac`, `UsedMeansAlive` hold
and that the slots implement `Forwarding`. The invariant is these and
`UsedIsLearned`. The refinement needs `OneEntryPerMac` to say which entry the
lookup finds, and that the hosts known are as many as the slots in use, so that
"no free slot" and "Capacity hosts known" are the same condition.

`SwitchNetProof` proves `TypeOK`, `EntriesPointHome`, `FramesComeFromHome`,
`NeverEchoed` and `AtMostOnce` for every topology that satisfies
`TreeAssumption`, every number of hosts and every life time. `EntriesPointHome`
alone is not inductive: a switch learns the port a frame came in at, so the
frames in the buffers must face their sources (`FramesComeFromHome`). The converse
needs the tables: a frame goes out at ports other than its own, hence away from
its source, and `OtherSide` (a host is on exactly one side of a link) says that it
then comes in at the next switch's port towards the source. For the same reason
no copy ever reaches the source itself.

`AtMostOnce` speaks of what has happened; its invariant speaks of what can still
happen. `Ahead(e, m)` says that a frame waiting at link end `e` can still reach
host `m`. `CopiesApart`: two copies of one frame never have a host ahead of both.
`GotLeftBehind`: a host that has received a frame is ahead of none of its copies.
A switch that floods hands each of its copies the hosts behind one of its ports,
and those are disjoint parts of what was ahead of the copy it has read; a switch
that forwards hands on one part and drops the rest. No table entry matters to
this argument: it holds whatever the switches know.

`RtpOptProof` proves the properties of the `opt` run, `OutputIsFile` and
`ImplementsCachedTransfer` for every file, window size, cache and START number,
from `StartAckOnce` and `EqualWindows`. Of `RtpOpt`'s invariant, `PacketsInv`,
`StartInv` and `CacheInv` are those of the plain protocol; their steps are
proved once, in `RtpLemmas`. New are:

- `AckedInv`: what the sender takes for received lies behind `next_seq_num` and is
  held by the receiver, written or cached; everything below `send_base` is
  confirmed; an ACK in flight that says anything else is that of START or END;
- `FlushedInv`: between two turns of `recvMessageOpt`, but not between the ACK and the
  flush of one turn, the entry of `recv_base` is empty;
- `SentInv`: `next_seq_num` is ahead of every packet in flight and within the
  window.

From these `BaseIsWritten` follows, on which `SentMeansHeld` rests: between two
turns `send_base` is at most `recv_base`, for otherwise the segment at
`recv_base` would be confirmed, hence held, and the receiver does not hold it.
In the middle of a turn it may be ahead, by segments that are all in the cache.
The refinement shows the receiver's cache as `held`: a packet that is cached is
`Keep`, a flush is `WriteHeld`, and that the receiver stops only with nothing
left to write is `FlushedInv` again. The receiver confirms a packet whether or
not its window has admitted it (`receiver_def.c:302-314`); that this is harmless
needs `EqualWindows`, since only then is a packet that the sender's window lets
out below `recv_base + ReceiverWindow`. `NothingToSkip` shows that
`sender_def.c:344`, which brings `next_seq_num` up to `send_base`, never changes
anything within one transfer.

`FtpProof` proves `TypeOK`, `InSync`, `AuthBeforeService`, `SpinsOnlyForTheGone`,
`PutIsWhole` and `GetIsWhole` for any number of clients, names, connections and
deaths of the server, every content of the directories and every size of header
and buffer, for a user who is `Patient`. None of them is inductive. `FtpInv` says
for each connection how three things go together: the place of its client, the
place of the server, and the cells under way in both directions.

- `Link` has one case for each way an open connection can be: not accepted yet
  (`QueuedLink`), dropped by `goto Here` (`DismissedLink`), of a dead process
  (`DeadLink`), or the one the server reads (`ServedLink`). The last is a request
  on its way up, an answer on its way down, a GET or a PUT;
- `GetLink`: what the client has written, what is under way and what the server
  has still to send make up the file. Hence the client's count meets `fileLen`
  exactly when nothing is under way and the server has nothing left, wherever
  TCP cuts. `PutLink` is the same in the other direction;
- `TornLink` takes the place of `Link` on a connection whose listing `ls` has
  torn: the rest comes before any other reply, so no answer is ever matched with
  a request again, and the client's next step is an error or a request that will
  end in one;
- `LeftInv`: of a connection that its client has left and has not torn, only one
  whose client has ended can still be queued or served, and what is left to read
  is a whole request, or a front of the file: this is why a PUT whose client
  ends in the middle of it still ends with the whole file or not at all. A
  client that has torn a listing and closed is `Stranded`: the server reads its
  old connection for ever, so it is not accepted again. These two are the only
  clients that make the server spin;
- `AuthInv`: a client that takes itself for logged in is, on the connection it
  has, or is `Stranded`, as long as no process has died. `isAuth` survives
  `closefd`, so this rests on the fact that a connection is closed by an error
  only after a death or over a torn listing;
- `SockInv`, `ConnInv`, `FileInv`: who is connected to whom, what the server's
  place says about its connection, and that directories hold bytes of files
  only.

Each program keeps the other's part: `ServerKeeps` (in `FtpServerProof`) has one
lemma for each handler and needs nothing of the user; `ClientKeeps` has one for each
command, reply and loop. `ServerFrame` and `ClientStays` say once what a step on
one connection leaves alone, so that each of these lemmas is about its own
connection only. `Patient` is used in the commands and nowhere else: a command
typed while the data of a PUT is under way would be joined to it, which `PutLink`
excludes and section 4 shows to go wrong. `ReplyExpected` is a by-product: but
for the rest of a torn listing, the branches of the client for an unexpected reply
are never taken.

The assumptions on constants, and why the code grants them. `SizeAssumption`: a
buffer (4080 bytes) holds a header (12), and a listing, which ends in a NUL, is not
empty. `CellAssumption`: a byte of a file is no
header and no listing, and a missing file is not a file; it is a convention of the
model, which tells cells apart where the code knows from its place what it reads.
`FilesAssumption`: directories hold files. `CrashAssumption`: the bound on deaths is
a number. `StartAckOnce` and `EqualWindows` are discussed in section 2;
`TreeAssumption` in section 2 as well.

Only model-checked: all liveness (`SenderFinishes`, `ReceiverReturns`, `Delivered`,
`CommandReturns`) and the fairness it needs, which are out of the prover's reach.
The findings of section 4 are counterexamples and need no proof.

## 7. Not modelled

- CRC-32: a corrupt packet is taken to be noticed. `file_statics` and `fread`:
  the file is given as its segments. Both are single arithmetic definitions that
  no interleaving touches.
- Descriptors and stdio buffers: `recvMessage` returns on its timeout without
  `fclose`, and the myFTP server closes no connection, so it runs out of
  descriptors after about a thousand clients.
- The parsing of command lines and addresses in `ftp_client.cpp`, headers, names and
  credentials cut by TCP, a `recv` of -1 in the loops of GET and PUT.
- What a spinning PUT of the server writes (`ReadEnd` has it, no property looks at
  it), and how `file_statics` counts the segments of a file.
- The simulator, gtest, the prebuilt peers of Lab2 and the router of Lab3, which
  are not in the repository.

## 8. Plan

1. Which of the properties of myFTP need a patient user at all: `TypeOK` and
   `AuthBeforeService` do not seem to.
2. An abstract specification of myFTP, in which GET and PUT copy a file in one
   step, with `PutIsWhole` and `GetIsWhole` as its refinement.
3. That each switch of `SwitchNet` takes the steps of `Forwarding`, which is so far
   by construction of `Learn` and `OutPorts`.
