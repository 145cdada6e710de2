# Verification of the file transfer (tp1) and the SDN router (tp2)

The repository holds two programs of a networking course. `tp1` is a client and
a server that copy files over UDP with a reliable protocol of their own, in two
variants: stop-and-wait and selective repeat. `tp2` is a POX controller that
turns an OpenFlow switch into a router with NAT/PAT and dynamic ARP. The two
share no code.

This directory specifies both in TLA+, model-checks the specifications with TLC
and proves their main properties with TLAPS.

## 1. Inventory

### tp1: file transfer

| Component | State | Operations | Interacts with |
|---|---|---|---|
| `Client` (`client/Client.py`) | socket, protocol object, file | `upload_file`, `download_file`, one handler for each kind of event | sends to and receives from the server; calls protocol object and file |
| Server thread (`server/Server.py`, `handle_clientt` and below) | protocol object, file, `initialized`, `inactivity` | handshake, init, data, ack, close, close_fin, inactivity | gets its packets from a queue, sends on the shared socket |
| Server loop (`start`, `_raise_thread`) | `clientDataQueues`, two locks | receive, start a thread, fill a queue | hands packets to the threads |
| `SelectiveRepeat` | `window`, `buffer`, `seq_num`, `next_expected` | `push_payload`, `get_timedouts`, `handle_packet` and a handler for each packet type | called by client and server thread |
| `StopAndWait` (with `Protocol`) | `_pending`, `_waiting_ack`, `_send_time`, `seq_num`, `next_expected` | the same | the same |
| `FileHandler` | open file, its position and buffer; the file on the disk, shared by all threads | open, create, read, write, eof, close | called by the handlers |
| `Packet` | one packet | header and CRC, both ways | every packet passes through it |
| factory, events, exceptions, logger, command line, Mininet topology, Wireshark plug-in | none of interest | | |

One object is both sender and receiver, and `next_expected` means something
different on each side: on the sender, the oldest number not acknowledged; on
the receiver, the next chunk to write. One end of a session sends data and the
other receives it.

What is hard here: packets are lost, reordered, delayed and duplicated;
some arrive damaged; retransmission races with late answers; the opening packets are *not*
retransmitted, and neither is the answer to CLOSE; the window of the sender and
of the receiver slide independently and must never disagree; the FIN is decided
from "nothing read and window empty", which also describes other moments; an
exception in a handler ends the thread; the server is multi-threaded, its main
loop reads a shared table without the lock, and its threads share files without
any.

What makes it correct: the copy is at every moment a prefix of the file, nothing
written is lost, the client reports success only for a complete copy, nothing is
dropped from the window before it was received, every session that got under
way ends, an address never has two threads and a running thread is always the one
its address finds, the bytes of a packet mean the same at both ends, and what two
threads do to one file never puts a chunk out of its place.

### tp2: SDN router

| Component | State | Operations | Interacts with |
|---|---|---|---|
| `NatHandler` | `nat_table`, `reverse_nat`, `public_port_pool` | `create_pat_entry`, `get_reverse_entry`, both reap first | called by the router |
| `IcmpHandler` | the same, for ICMP identifiers | the same | called by the router |
| `ArpHandler` | `arp_table`, `waiting_queue` | learn (reaps first), look up, enqueue, dequeue | called by the router |
| `ProtoRouter` | the three handlers | `_handle_PacketIn`, `handle_arp`, `handle_ip` and the three directions | PacketIn from the switch; packets and flows to it |
| OpenFlow switch (external) | flow table with `idle_timeout` | match, rewrite, forward; else PacketIn | |
| constants, logger, topology, container | none | | |

What is hard here: two planes with clocks of their own (the tables of the
controller and the flows of the switch); expiry that only happens when some
other event triggers it; a pool that runs dry; packets that wait for an ARP
answer while the tables change under them.

What makes it correct: the two NAT tables are inverse to each other, each public
port is free or held once, no expired translation is used, ports are not lost,
and packets that wait are neither lost nor overtaken.

## 2. Modules

| Module | Models | Source |
|---|---|---|
| `FileTransfer` | the abstract promise: a file is copied in order, success means a complete copy | what the handlers do with the file |
| `Connections` | the abstract promise to an address: its packets are handled by its session, once and in order | what the main loop and the threads make of the queues |
| `PortLeases` | the abstract promise of the NAT table: leases that end by themselves | what the router needs of the tables |
| `Session` | connection, network, and the handlers that use no protocol state | `Client.py`, `Server.py`, `file_handling.py` |
| `SelectiveRepeat` | EXTENDS `Session`: both protocol objects, receive loops, event handlers | `selective_repeat.py`, `Client.py`, `Server.py` |
| `StopAndWait` | the same for stop-and-wait | `stop_and_wait.py`, `Client.py`, `Server.py` |
| `Server` | main loop, table of queues, threads of all clients | `Server.py` |
| `Storage` | one stored file and the threads that have it open | `file_handling.py`, `Server.py` |
| `PacketHeader` | packets to datagrams and back, choice of the protocol | `packet.py`, `protocol_factory.py` |
| `NatHandler` | the NAT/PAT table | `nat_handler.py` |
| `IcmpHandler` | the ICMP table, an instance of `NatHandler` | `icmp_handler.py` |
| `ArpHandler` | the ARP table and the waiting packets | `arp_handler.py` |
| `ProtoRouter` | composes `NatHandler`, `IcmpHandler`, `ArpHandler` and the flow table | `protorouter.py` |
| `SelectiveRepeatProofs`, `StopAndWaitProofs`, `ServerProofs`, `StorageProofs`, `PacketHeaderProofs`, `NatHandlerProofs`, `ProtoRouterProofs` | inductive invariants, theorems and their proofs | |
| `MC...` | constants for TLC | |

Operators whose comment begins with "Mutant of" are plausible mistakes in the
definition that follows them. No specification uses them; each is there to show
that a property would notice the mistake.

### State and actions: a session

A file is its number of chunks, chunk `i` is the number `i`. `net` is the set of
packets in the network; `out` what the receiving end has written; `sfile` the
file of the server thread; `cphase` and `sphase` where the two programs are
(`dead` means ended by an exception that nothing catches). A *handler* is one
action: the packet is taken from the network, the protocol object is updated, and
all the packets that the handler sends go out in the same step. This is what the
code does: each protocol object belongs to one thread. An exception in
the middle of a handler keeps what was done before it (for instance, the ACK of
`_handle_data` is sent before the write that fails).

| Action | Code |
|---|---|
| `ClientRecvSynAck`, `ClientRecvAck`, `ClientRecvData`, `ClientClose`, `ClientCloseFin` | `recvfrom`, `handle_packet` and the event handler of that packet |
| `ClientTimeout`, `ClientHandshakeTimeout` | the `timeout` of the two loops; the one of `wait_response`, not caught |
| `ServerRecvSyn` ... `ServerCloseFin` | `que.get`, `handle_handshake`/`handle_packet`, `_handle_event` |
| `ServerTimeout`, `ServerInactivity` | the two branches of `except Empty` |
| `TimerExpires` / `Expire` | an entry gets older than `ACK_TIMEOUT`; `get_timedouts` returns the expired ones |
| `NetworkLoses`, `Receive` | the network: loses, delivers in any order, delivers again |

The three packets that open a session (SYN, SYN_ACK, ACK(0)) are sent once by the
program and are taken to be delivered at most once. All others may be delivered
any number of times, which covers retransmission of a packet whose first copy is
still on its way, and duplication in the network. A network that duplicates
ACK(0) is outside of the assumptions; what would happen is the mutant of
`ImplementsTransfer`: the file is truncated.

The stop-and-wait handlers look at `protocol.window` too, which is the empty
dictionary of the base class; only `_waiting_ack` counts there.

A damaged packet is a fault of its own (`RecvDamaged`, `Damage`), which only the
specification `DamageSpec` has: `from_bytes` raises `ChecksumError`, and what
the program does then ends it. The other runs show what holds without damage; the proofs
show that `DamageSpec` keeps the safety of both protocols.

### State and actions: the server

`Server` leaves out what a thread does with its packets and keeps what they
decide: the first one makes the session or ends the thread, CLOSE_ACK closes the
session, and any other may end the thread by an exception. The steps are the
stretches of code that nobody can interrupt visibly: the block under
`clientDataQueueLock` (`Receive`, `handle_close_fin`), the look-up without it
(`LookUp`), `put` and `get` of a queue. `Put` goes to the queue that `LookUp`
found, even if its thread is gone. A thread has the name of its queue; a name is
free again after `handle_close_fin`, not after `Inactivity` or an exception, since
the table still holds it. `socketLock` is made and never used; a `sendto` is one
system call.

`Connections` is what this amounts to for one address: a packet arrives in one
step and is then in the inbox of its session. The mapping (`Sessions`) takes the
session of an address to be that of the thread in the table, and its inbox to be
the queue of the thread with, behind it, the packet that the main loop holds for
it. A session that ends without CLOSE_ACK is "lost": the promise does not include
that its address is ever free again (disagreement 3). `Inactivity` is the `get`
that times out: the queue is empty, but the main loop may hold a packet for the
thread, between `recvfrom` and `put`, and that packet then goes to a queue nobody
reads. `Connections.Expire` says how much this can be: a session that ends for
inactivity leaves at most one packet unread. Only for a thread that has handled
nothing yet is the packet on its way awaited: 60 seconds against three statements
of the main loop.

### State and actions: the storage

Threads that store different names do not meet, so `Storage` has one name. Every
thread has a file object of its own, with the position of the system's file and a
buffer: written chunks stay in it until it is full or the file is closed, and a
read takes some chunks ahead. The protocol between the file object and the client
is its promise, `FileTransfer`: chunks in order. `eof` compares the position with
the size on the disk at that moment. `_handle_close` and the end of `_handle_ack`
are two steps each, because other threads may run in between. `overlap` and
`latest` are history: who shared the file with an upload, and who opened it for
writing last.

### State and actions: packets

`PacketHeader` computes with INFO as a number: a shift is a multiplication, a mask
a remainder. The widths of the fields are constants. `Send` makes a datagram,
`Damage` changes one of its fields or cuts it, `Receive` is `from_bytes`;
`SendTooFar` is the sequence number that does not fit. The CRC is taken to miss no
damage; the real one misses a damaged packet once in 2^32.

### State and actions: the router

An entry of a table carries its age instead of a time stamp. Ages stop one past
`ENTRY_TIMEOUT`: older entries are treated alike. `Tick` ages the entries, and
drops the flows that were idle for `ENTRY_TIMEOUT`. Each operation of `NatHandler`
reaps first, and returns its result in `answer`; `ProtoRouter` uses these
operations as they are, and `IcmpHandler` likewise: `icmp_handler.py` repeats
`nat_handler.py` line by line, without the protocol in its keys. Echo packets get
no flows; each is translated by the controller. Traffic inside the private network
is forwarded as it is and gets a flow each way, by address only. `flows` maps a header to the rewritten header;
installing a flow with the same match replaces it, as in OpenFlow. A packet comes
to the controller (`PacketIn`) only if no flow matches; if one does, `Forward`
resets its idle time and the controller does not see it. The loop of
`handle_arp` over the dequeued packets is split into one `ResumeNext` for each
packet; the controller takes no other event meanwhile, but time passes and the
switch goes on forwarding.

`asked` is the network between router and hosts, as far as ARP goes: the hosts that
have a request of the router to answer. A packet that joins a queue sends one request
(`AwaitArp`), any ARP packet of the host settles it (`handle_arp`; hosts also ask of
their own accord), and where `Lossy` is TRUE, `LoseRequest` loses the request or its
answer. The router never repeats it. `Silent` are public addresses that no host
has, `PUBLIC_IP` among them: a private host may send there, nobody answers, and the
packet waits for ever; so it does for the private gateway, `PRIVATE_IP`.

`PortLeases` has neither pool nor reverse table, and nobody reaps: a lease ends
when its time is over. The mapping (`Leases`) takes the unexpired entries of
`nat_table` for the leases, so that an entry which waits to be reaped is, seen from
outside, already gone.

## 3. Runs

| Run | Question | Instance |
|---|---|---|
| `SR` | safety of selective repeat; it implements `FileTransfer`; transfers and threads end | files of 0..4 chunks, window 2, limit 3; 32,955 states |
| `SAW` | stop-and-wait implements selective repeat with a window of one; transfers complete | files of 0..4 chunks, limit 3; 18,147 states |
| `Server` | main loop and threads in every order of their steps; they implement `Connections`; started threads answer, closed sessions free their address | 2 addresses, 3 threads, queues of 2; 344,604 states |
| `Storage` | several threads on one file | 2 uploads, 1 download, sizes 0, 2, 3, buffer of 2; 31,198 states |
| `PacketHeader` | what is received is what was sent | fields of 4, 2, 2 and 4 values, 3 sequence numbers, 4 payloads; 148,290 states |
| `NatHandler` | the tables and the pool agree and implement `PortLeases` | 2 protocols, 2 endpoints each, 3 ports, timeout 2 |
| `Router` | waiting packets and flows, and the flows of the leased ports, where ARP requests are lost | 2 private and 2 remote endpoints, 1 public port, timeout 1, queue bound 2, symmetric ports; 434,323 states |
| `Router_wait` | whatever waits for a host is handled, where none is lost | 2 hosts, echo and local traffic, gateway, an address nobody has, queue bound 1; 9,354 states |
| `SR_thread`, `SR_damage`, `Server_reuse`, `Router_ports` | the disagreements below, one each | small instances |

**Bounds.** A window of 2 and up to 4 chunks (5 numbers, with the FIN) let the
window slide more than once, leave a gap, fill the receiver's buffer and end
inside a window; size 0 is the empty file and a size above `MAX_FILE_SIZE` the
refused upload. What a wider window could add to the safety of a session is the
business of the proofs.
Retransmission does not add packets to a *set*, so that the network needs no
bound. Three threads over two addresses let an address be served, closed, served
again and left behind while the other goes on; `MAX_QUEUE` bounds a queue at the
moment a packet is received, and 2 is more than any decision of a thread looks
at. In `Storage`, a size below, at and above the buffer, and no file at all, are
all there; the second upload may be shorter than the first. Four endpoints over
three ports exhaust the pool, and a timeout of 2 separates "young", "at the
limit" and "expired". In `Router`, two endpoints over one public port make it
change hands, or be refused, while flows and waiting packets of the other survive;
two remote endpoints give one entry more than one pair of flows. `PrivatePorts` and
`RemotePorts` are symmetric: no definition tells one port from another, and the run
has no liveness. Two endpoints of one host share their ARP entry; those of two hosts
are in `Router_wait` and `Router_ports`. `Router_wait` has echo traffic in the place
of TCP: both wait in `AwaitArp`, called from the same places, before their tables are
asked, and an echo needs no flows. `MAX_WAITING` bounds each queue that a
new packet joins, also the ones that nobody will empty; two are needed for an order.
The runs with a small timeout differ from the real 30 seconds only in
the number of ticks.

**Deadlock** is switched off for sessions and for the storage: client and threads
do end. The server, the header and the router go on for ever.

### What the properties say

Selective repeat: the copy is a prefix of the file (`OutIsPrefix`); no packet leaves the window before it was received
(`ForgottenWasReceived`); as long as the sending end is in its loop, the oldest
packet not acknowledged is in its window, to be sent again (`OldestOutstanding`: no
order of losses and ACKs leaves a sender that waits for nothing); the branch of `selective_repeat.py:158` is never taken
(`NothingDiscarded`); credit is conserved (`CreditConserved`); the FIN is last,
and has one number (`FinIsLast`); no late packet finds an upload's file closed
(`OpenUploadSurvives`). `ImplementsTransfer` says the rest: what is written only
grows, and success means a complete copy; the proofs state the two on their own.

Stop-and-wait: `ImplementsSelectiveRepeat` maps `_pending` to a window of one
packet, so the list above holds for it too. Sender and receiver stay in step
(`InStep`), and `DownloadThreadSurvives` *holds* here, while it fails for
selective repeat: the ACK that is handled has just cleared the only packet that
could be sent again.

Server: a thread that reads its queue is the one its address finds
(`LiveRegistered`); the packet that starts a thread reaches it (`NewThreadIsFed`);
the unlocked look-up loses only packets that arrived before their address was
closed (`LossOnlyAfterClose`; the first SYN of a next session may be among them); and `ImplementsConnections` says what a client sees of all
this: no packet is lost, taken to another session or read out of its turn, although
it takes three unlocked steps to arrive, save one that arrives as its session ends
for inactivity.

Storage: `ChunksInPlace` holds for any mixture of threads - a file that is
truncated under a writer gets a hole, never a shifted chunk - and a thread that has
the file to itself stores or sends exactly it (`LoneUploadStored`,
`LoneDownloadWhole`) and does not stop on the way (`LoneDownloadGoesOn`). Header: `ReceivedIsSent`, `IntactIsReceived` and
`SameProtocol`.

NAT: the tables are each other's inverse (`TablesAgree`), a port is in the pool or
in one entry (`PortsPartitioned`), an endpoint keeps its port while its entry is
young (`PortKeptUntilTimeout`), and all this together is a lease
(`ImplementsPortLeases`): one owner at a time for the whole time-out, a reply
finds the owner and nobody else, a refusal means that every port is leased.
Router: nothing waits for a known address (`NothingWaitsForKnown`), packets are
resumed in order (`WaitingInOrder`), a flow is installed with its answer and the
translation in force (`InstalledFlowsAgree`), and an entry of the NAT table that
has not expired always has its flows (`LeasesHaveFlows`): no public port is
held for a session the switch knows nothing of, in spite of two planes that expire
on their own. The converse does not hold: flows outlive their entry (disagreement 4).
`WaitingEnds` has two parts, for requests that are not lost. A packet to a host
is handled in the end and never put back to wait for good; and no queue of a host
stays. The first speaks of packets whose handler resolves the address they are sent
to. An answer from outside waits for whoever has its port: it is looked up
again each time it is resumed, and may have to wait for another host.

Some properties follow from those above or explain them; they are stated in the
modules and proved, and no run spends time on them: the type invariants,
`OldestProgress` and `ClosedIsComplete` (selective repeat),
`EntryEndsWithItsThread` (server: no thread deletes the entry of the next
session), `AnswersAreFresh` and `RefusedOnlyWhenFull` (NAT).

### Fairness

The specifications with fairness (`LiveSpec`, `FairSpec`) take the same steps as
those without; the liveness properties assume of the program only what its loops do: a socket or
queue that stays silent times out, and a timer that runs does expire (weak
fairness). Of the network they assume that a packet that is sent again and again
arrives in the end (strong fairness), and this only of the oldest packet of the
window and of its ACK; SYN, SYN_ACK and ACK(0) are not sent again, and nothing is
assumed of them. The server thread may give up at any moment, and does so in the
end when there really is silence; what is promised of a transfer is promised as
long as the thread does not give up before its time (`GaveUp`): 60 seconds are 120
periods of retransmission (`ACK_TIMEOUT` is 0.5 s).

The server's liveness needs nothing but that the operating system runs each
thread (weak fairness of the look-up, the put and the steps of the threads). In
the router, the controller goes on with what it resumes (weak fairness of
`ResumeNext`), and a host answers the request it was sent: `handle_arp` of a host in
`asked`. It is strong fairness, because `handle_arp` is disabled while the controller
resumes packets; events reach it in the order of their arrival, so that an answer is
not passed over for ever. Nothing is assumed of a host that was not asked or
whose request was lost: nothing repeats a request, and with `Lossy` the same formula
fails at once. So `WaitingEnds` is what the queue is worth on a link that loses
nothing, and no more.

### Disagreements between the code and what is said of it

Four of them are runs that find a property violated:

1. `SR_thread`: `Server.py:142` retransmits with `send` on a socket that is not
   connected; when a packet has expired at the moment an ACK is handled, the
   exception ends the thread and the download never completes.
2. `SR_damage`: the handler of a damaged packet does not exist in
   `SelectiveRepeat` (`selective_repeat.py:93`); one such packet ends the program
   that reads it. `cli.py:77` speaks of error recovery. In `StopAndWait` the
   handler exists and does nothing (`stop_and_wait.py:178`), but its caller goes on
   with a packet it does not have, to the same end. What is lost is the transfer,
   never its correctness: `DamageIsHarmless` and `SAWDamageIsHarmless` prove that a
   session with damage still implements `FileTransfer`.
3. `Server_reuse`: a thread that does not end by CLOSE_ACK leaves its entry, and a
   later SYN of its address goes to a queue nobody reads. Every upload ends so.
4. `Router_ports`: NAT entries expire 30 s after they were *made*
   (`nat_handler.py:54` does not refresh them and the controller does not see
   packets that match a flow), flows 30 s after they were last *used*. A session
   that lasts longer loses its port to the next one while it still uses it;
   `tp2/main.tex:558` promises a public port of its own to each session. Only this
   direction is wrong: `LeasesHaveFlows` holds.

Others are plain in the actions of the models and have no run:

- A lost SYN or SYN_ACK ends the client with an exception: `wait_response`
  (`Client.py:35-38`) waits once, and nobody catches its `timeout`
  (`ClientHandshakeTimeout`).
- When ACK(0) is lost, the upload of an empty file succeeds without creating it
  (`Server.py:121`), while `tp1/README.md:57-60` has the user compare the copies.
- `MAX_RETRIES = 10` (`constants.py:46`) is stored and never read; a client whose
  server is gone sends for ever.
- The look-up of `Server.py:40` is outside the lock that `Server.py:24` calls the
  lock of this table: `KeyError`, and the packet is lost (`LookUp`).
- CLOSE is answered (`Server.py:158`) before the file is closed and its buffer
  written (`AnswerClose`, `close`).
- Two uploads of one name at once may leave a file that is neither, and a download
  that meets an upload may end well with a part of the file, or find the file
  grown between the read that found its end and the test for it (`Server.py:144`,
  `150`) and be left with nothing to send and nothing to wait for ("stalled").
- One ARP request is sent when a packet joins a queue (`protorouter.py:57`, `66`) and
  never again. If it or its answer is lost (`LoseRequest`), the packet waits for
  ever, or until its host happens to speak ARP; `tp2/main.tex:324` says that the
  queue loses no legitimate packet.
- A packet to one of the router's own addresses, or to a public address that no
  host has, waits for ever: the queue has no limit and no expiry.
- `get_mac` and `get_port` do not reap (`arp_handler.py:83-91`), although
  `tp2/main.tex:299` says that every public look-up does.

## 4. Proofs

The theorems hold for every value of the constants, under the assumptions that
are named in the modules: sizes are natural numbers, the window and the size
limit are positive, the range of ports consists of integers, the timeout is a
natural number, the router's own address is none of the hosts', uploads are no
downloads, the ranges of the header's fields are natural numbers and payloads fit
their length field.

**`SelectiveRepeatProofs`.** `IInv` is the inductive invariant. The safety properties alone are not inductive: an ACK
taken from the network must be known to be justified, a CLOSE_ACK to come after
the FIN, a DATA packet to carry the chunk of its own number. `PacketsInv` says
this of all packets in the network or in the window. `SenderInv` ties the numbers
in use to the file position and says that, after the FIN, the FIN is alone in the
window; `ReceiverInv` keeps the buffer above `next_expected` and inside what was
sent; `ConnectionInv` orders opening and closing. There is one lemma for each
action; "quiet" actions, that touch no protocol object, share two. The key step
is `DataInWindow`: a packet in the network is below the end of the receiver's
window, because a number is reused as credit only after everything below it was
received. Proved from it: `TypeCorrect`, `CopyIsPrefix`, `NothingForgotten`,
`WindowsAgree`, `CreditIsConserved`, `CloseComesLast`, `DoneIsCopied`,
`UploadSurvives`, `CopyGrows`, and `Implements` (the refinement of
`FileTransfer`).

Liveness itself is out of the prover's reach; the safety it rests on is not.
`SenderNeverStalls` says that the oldest packet not acknowledged is in the window
while the sender is in its loop, and `OldestAdvances` that its arrival makes the
receiver acknowledge it, and that this ACK moves `next_expected`. So a transfer stops only where the network lets nothing through,
which fairness assumes away, or where a program ends (disagreement 1, `GaveUp`). `ClosedIsWhole`: the file of an upload is closed only
when it is complete.

The invariant is inductive also where packets are damaged (`DamageInvariance`). For
this, it must not say that the thread of an upload survives, which damage refutes;
`UploadSurvives` has an induction of its own on top. A damaged packet changes
nothing but the phase of the program that reads it, so `DamageIsHarmless` follows:
the session refines `FileTransfer` with damage too.

**`StopAndWaitProofs`.** The proof reuses the one above: seen through the mapping,
a stop-and-wait session is a session of selective repeat with a window of one.
`SAWInv` is the invariant of `SelectiveRepeatProofs` in that view, with what the
view hides: an ACK is awaited exactly while a packet is pending, and only then
can the timer have run out (`ObjectInv`). Each action is shown to be a step of
selective repeat or to change nothing that is mapped, and the lemmas of the other
module do the rest. `SAWImplements` is the refinement; `SAWTypeCorrect`,
`SAWInStep`, `SAWNeverStalls` and `SAWCopies` follow from the invariant.
`SAWTransfers` goes on to the abstract end: through selective repeat,
stop-and-wait implements `FileTransfer`; `SAWDamageIsHarmless` says so of sessions
with damage, where the refinement of selective repeat is not claimed.
`SAWThreadSurvives` has an induction of its own (`ThreadStays`), since damage may
end the thread and the invariant is silent about it.

**`ServerProofs`.** `ServerInv` adds to the properties what makes them inductive:
the entry of an address names a thread of that address, each name is in the table
at most once, and what the main loop found belongs to the address of its packet.
Its types and all safety properties of the run are theorems, for any number of
addresses and threads. For `ServerImplementsConnections` the steps fall into three
kinds: those that change the table or the queue of one address, and are one step
of `Connections` there (`OneChanges`); `Put`, which moves a packet from the hands
of the main loop to the end of the queue it was already counted in; and those that
do not show (`NoneChanges`), among them a look-up that fails, whose packet
belonged to a session that is over. The invariant is needed for the second and
third kind: a thread that reads is the one in the table, and what the main loop
holds is for the address of its packet.

**`StorageProofs`.** `PlaceInv` says that the buffer of an upload continues what it
wrote and that of a download what it sent; with it `ChunksInPlace` is inductive.
`LoneInv` says what a thread outside `overlap` has made of the disk, or read of it,
so far, and `EndInv` what such a download knows of the end of the file. Its
types and all four properties of the run are theorems.

**`PacketHeaderProofs`.** `InfoRoundTrip` is the arithmetic: the four fields come out
of INFO again, for all widths. The invariant says that a datagram is the encoding
of the packet sent last, or does not pass its checksum. Its types and the three
properties of the run are theorems.

**`NatHandlerProofs`.** The conjunction of `TypeOK`, `TablesAgree` and
`PortsPartitioned` is inductive. Reaping is treated once, as a lemma on the reaped
tables, and the operations start from these. All properties of the run are
theorems, and so are `NatAnswersAreFresh` and `NatRefusedOnlyWhenFull`.
`NatImplementsPortLeases` needs two facts: an operation first reaps, which does not
change the unexpired part of the table (`OperationReaps`), and an unexpired entry
that grows too old is a lease that ends (`TickLeases`). With the tables agreeing,
a port outside the pool after reaping is one that is leased, so that an empty pool
is a refusal with reason.

**`ProtoRouterProofs`.** `RouterInv` joins the invariant of `NatHandler`, taken over
for both tables, with what holds of the queues (`QueueInv`), of the ARP table
(`ArpInv`) and of the flows (`FlowsInv`). `NothingLeftBehind` and `KeepsOrder` are
about the waiting packets. `FlowsAgree` needs of a table only what each operation
answers (`AnswerInTable`): the entry is in the table and not expired at the moment
at which the two flows are made. `RouterTypeCorrect` is its type invariant.
`RouterLeases`: what `PortLeases` promises holds of both tables of the router;
likewise `RouterTablesAgree`. `RouterLeasesHaveFlows` needs an invariant of its own,
`LeaseInv`: the flows of an unexpired entry were idle for no longer than the entry
is old, since they were made in the same step or refreshed later. The switch
and the table count up to the same `ENTRY_TIMEOUT`, so the entry is the first to go.
A pair installed for one entry replaces flows of no other: its outgoing match holds the
endpoint, its incoming match the public port, and `PortsPartitioned` says that no
other entry has it (`InstallKeepsLeases`).

**Model-checked only.** Liveness under fairness, which is out of reach of the
prover: `UploadCompletes`, `DownloadEnds`, `ThreadEnds`, `TransferCompletes`,
`StartedIsAnswered`, `CloseFreesAddress` and `WaitingEnds`. Every other property
of a passing run is a theorem. The counterexamples of the four disagreements are
TLC's as well.

## 5. Not modelled

- Names of files and directories. The server stores under `storage` whatever its
  option says (`Server.py:61`), and creates the directories of a name.
- The size of a download's last chunk: chunks are whole.
- Packet types nobody sends (NACK), and the methods of `StopAndWait` that nothing
  calls.
- ICMP error messages: `_get_transport_fields` raises AttributeError
  (`protorouter.py:105`) before anything changes, so they are a stutter.
- Hosts that move or change their MAC; the fields of ARP packets; the replies to
  ARP requests and the flooding of ARP inside the private network, which change
  no state.
- The delay between controller and switch: a flow is in place in the step that
  installs it.
- The `socketLock` of the server, which nothing takes.
- Events, exceptions and logger (data carriers), command line, topologies,
  the Wireshark plug-in and deployment, which have no state.

## 6. Plan

Done: every component with state - sessions of both protocols with damage,
server, storage, packets, all tables of the router and the router - and the
proofs above. What is left is smaller:

1. An abstract promise for the waiting packets of the router, as `PortLeases` is
   for its tables: a queue for each address, of which nothing is lost.
2. The same for `Storage`: a thread that is alone with its file implements
   `FileTransfer`.
3. More than two ends: sessions, `Server` and `Storage` are composed only by what
   each assumes of the others.
4. Names of files, and hosts that move.
