# NATBuster in TLA+

Specifications of [NATBuster](../src), a peer-to-peer tunnel that punches holes
through NATs: what its transports, its event loop, its sockets and its callbacks
promise, and what the programs built on them (C2 server, hole punching, router,
address lookup, NAT probe) rely on. They are checked with TLC on small instances,
and every safety invariant that a run checks is proved with TLAPS, for every value
of the constants. Paths below are relative to `src/common`
unless they start with `src/`.

## 1. The system

A client and a server log in to a C2 server over TCP, ask it to connect them,
punch a hole (UDP), and run a stack of transports over the socket they found:

    router / NAT / IP endpoints, C2 client and server      (endpoint/, punch/)
    OPTPipes    many pipes over one transport               (transport/opt_pipes)
    OPTSession  key exchange and encryption                 (transport/opt_session, kex_v1)
    OPTUDP | OPTTCP  ordered packets                        (transport/opt_udp, opt_tcp)
    sockets, event loop, timers, callbacks                  (network/, utils/)

Every layer is an `OPTBase`: it calls `send`, `sendRaw`, `close` and the timer
functions of the layer below, and is called back (open, packet, raw, error,
close) by it. One emitter thread runs all callbacks of a connection; the
interface says that the calls are safe from any thread.

### Inventory

| component | state | operations | what makes it hard | what must hold |
|---|---|---|---|---|
| OPTUDP `opt_udp` | `_tx_seq`, `_transmit_queue`, retransmit timer; `_rx_seq`, `_receive_map`, `_reassemble_list` | `send`, `on_receive` (ACK, data), `try_reassemble`, `on_retransmit_timer`, `reset_retransmit_timer`, ping and pong | loss, duplication, reordering; wrapping numbers; several sending threads; a timer reset by everybody | ordered delivery of whole packets, no frame forgotten, always a timer, the queue drains |
| event loop `event.h` | timer lists, `_running`, event fd | `start_async`, `loop`, `add_timer`, `cancel_timer`, `stop` | lists updated by other threads, callbacks that add and cancel, iterators stored in timers | no lost wake-up, no erased iterator erased again, cancelled timers silent, timers fire |
| callback slot `callbacks.h` | one atomic pointer | `operator=`, `clear`, `call`, `call_and_clear` | replaced while it runs, re-entrant and concurrent calls | one owner per functor, none lost, none comes back |
| OPTPipes `opt_pipes` | map of weak pointers, `_open_state` per pipe, ids | `openPipe`, `start`, `send`, `close`, `drop`, handlers, open timeout | both ends close, object lifetime, callbacks under a lock | one close callback, exact map, no half-open pipe |
| OPTSession and KEX `opt_session`, `kex_v1` | two state machines, keys and packet counters | `send`, `sendRaw`, `on_packet`, `recv` | applications send while keys are switched | every packet decrypts, nothing from unknown remotes, both ends open |
| OPTTCP `opt_tcp`, `blob.h` | list of chunks, gaps of a buffer | `send`, `on_receive`, packed records | chunks cut anywhere, unsigned arithmetic | packets whole, in order, as soon as complete |
| sockets `network*`, Linux and Windows | socket and event vectors, requests of other threads | `start`, `close`, `wait` | requests against the wait, vectors kept in step by hand | exact poll set, no request forgotten, close heard |
| C2 server and client `c2_*` | register of clients, lookup by name, routes | login, pipe, response, data, close | disconnection in any state, two logins of one name | the lookup leads to the last login, a pipe is open at both ends, closes travel |
| hole punching `punch/` | puncher state, search thread, sockets | describe, start, search, found | two ends, two threads, lost and foreign datagrams | the right magic, the right peer, both or none |
| router `router` | one route per connection and side | accept, pipe, data, close | two threads per side, two halves of a connection | bytes in order, no half left behind |
| IP lookup `ip_*` | result, waker, timer, set of connections | ask, answer, time-out | close behind the answer, time-out against both | the address arrives, both ends let go |
| NAT probe `nat_*` | one socket, a route and a result per server | ask, answer, time-out | one socket for several servers, open to anybody | a result says what its own server saw |
| identity, config, crypto, command lines, programs | data | sequential functions | boundaries | not modelled |

`PROJECT.json` lists every component with its sources, and the hazards of the
code, each at its line, with the properties that watch it.

## 2. Modules

| module | models | used by |
|---|---|---|
| `OrderedStream` | the promise of `OPTBase::send`, abstract | refined by `OptUdp` |
| `OptUdp` | the reliable half of `OPTUDP`, one direction | `NetworkProofs`, `MCOptUdp` |
| `EventEmitter` | `event.h`, one step per critical section | `RetransmitTimer`, `MCEventEmitter` |
| `RetransmitTimer` | the timer of `OptUdp` on `EventEmitter`, call by call | `UtilsProofs`, `MCRetransmitTimer` |
| `Callback` | class `Callback`, one step per atomic operation | `UtilsProofs`, `MCCallback` |
| `Sockets` | the socket provider of Linux, its sockets and its poll | `SocketsWin` |
| `SocketsWin` | the wait and the dispatch of Windows on the rest of `Sockets` | `NetworkProofs`, `MCSockets` |
| `OptPipes` | both ends of `OPTPipes` and their pipe objects | `OptPipesProofs`, `MCOptPipes` |
| `OptSession` | both ends of `OPTSession` and `KEXV1` | `OptSessionProofs`, `MCOptSession` |
| `C2` | the C2 server, its register and routes, and the clients' pipes | `C2Proofs`, `MCC2` |
| `Router` | one forwarded connection, both sides | `RouterProofs`, `MCRouter` |
| `Punch` | two `Puncher`s and two `HolepunchSym` | `PunchProofs`, `MCPunch` |
| `Blob` | buffers with gaps, packed records, as operators | `OptTcp`, `EndpointProofs` |
| `OptTcp` | framing and reassembly, as operators on `Blob` | `IpLookup`, `EndpointProofs` |
| `IpLookup` | the address lookup over `OptTcp` | `EndpointProofs`, `MCIpLookup` |
| `NatProbe` | the NAT probe over one multiplexed socket | `EndpointProofs`, `MCIpLookup` |
| `*Proofs` | theorems | |
| `MC*` | values, bounds and symmetry for TLC | |

The modules follow the layers of the program. Where a module uses a layer that
another one models in full, it takes what that layer promises: `OptPipes` and
`OptSession` run over an ordered channel that may close (`OptUdp`), `C2` and
`Router` over pipes (`OptPipes`), `Punch` over a session on a pipe
(`OptSession`), `IpLookup` over sockets (`Sockets`), with `OptTcp` in full. Every
module has one `TypeOK`, the shape of its state, on which the proofs rest.

### OptUdp

A frame is identified by its position in the stream; the program only sees
`SeqNum(idx)`, the position modulo the number of sequence numbers, and `rt`, the
retransmit bits. The position stands for the bytes, so `delivered = sent` speaks
of content. `send()` is three kinds of steps: `next_seq` (which orders the
packets), one `TransmitFragment` per fragment (the critical section of
`_tx_lock`), and the final `reset_retransmit_timer`. `OnAck` and
`OnRetransmitTimer` are the emitter's critical sections, each followed by
`EmitterReset`, the reset they end with. `OnData` sends the ACK and stores the
frame under its whole `seq`, as the code does; `Reassemble` is one turn of
`try_reassemble()`. A datagram may be delivered any number of times until it is
lost. Sizes are abstracted to a number of fragments; the ping estimate and the
clock decide only when a timer fires, which may be at any time.

Two assumptions bound the age of what the network holds (`FreshData`,
`FreshAck`) and one the number of frames in flight (`MaxBacklog`): half a turn of
the sequence numbers, 2^25 frames. The code has no flow control and enforces
neither; without them serial-number arithmetic cannot work.

### EventEmitter and RetransmitTimer

The two lists and the request list are sequences, a timer is alive while a list
owns it or a call has locked it (`hold`), and `active` is the flag that says that
the loop has it. `Update` splices the additions and executes the deletions in
order; an erasure of an iterator that is in no list puts its timer into `dangling`,
after which the model says nothing. The history `overlapped` says which timers one
`cancel_timer()` had locked while another did, or while the loop was done with them. The poll returns because the event fd is set, a
timer is due, or a socket has something, and then runs callbacks
(`"dispatch"`). `RetransmitTimer` replaces the one-bit timer of `OptUdp` by the
calls the code makes, with `_tx_lock` held across them.

### Callback

Each thread has a stack of calls, since the functor that runs may use its own
slot. `latest` and `overlap` are histories: what was installed last, and whether
calls of the slot have overlapped, nested in one thread or between threads.

### Sockets and SocketsWin

`start()` and `close()` are one step each: a push under `_system_lock` and the
event fd. `wait()` of the loop thread is `Poll`, one step per reported event
(`Connected`, `Reconnect`, `ConnectFailed`, `Receive`, `EndOfStream`, `Accept`),
and then one step per executed request (`CloseOne`, `AddOne`, `AddFailed`), in the
order of the nested loops. What a callback calls is covered by the calls of other
threads, since both only push requests. The kernel is external: a poll may report
any event a socket is polled for, and `connect()` may succeed, be in progress or
fail. A failing `recv()` or `accept()` is an `assert(false)` (`"aborted"`); the push
after an error callback is made without the lock and may race with `close()`
(`"corrupt"`). After either the model promises nothing.

`SocketsWin` keeps the requests, the connection attempts and the vectors, to which
the code of Windows is equal. `WaitWin` is the alertable wait: it ends for the APC
that a request queued (`wake`) or for one socket with its recorded events, in
which case the APC stays pending. `CloseEvent` is `FD_CLOSE`, which comes after the
other events of its socket and drops what was not read.

### OptPipes

Per end: the map `pipes`, the state of each pipe object, and `refs`, who holds a
`shared_ptr` to it (the user, the timer of the open request, a handler). When the
last reference goes, the destructor runs `drop()`. Each end has its emitter thread and
an application thread, and a read of `_open_state` and the write that depends on it are
separate steps of either, as is the packet that follows. The code has no lock there: the
history `crossed` collects the pipes in which the two threads of an end were in a call
or a handler at once, and `ClosedOnce` and `RegistryExact` are about the others (section
5 says what happens to these). `send()`, `openPipe()` and `start_client()` are one step
each and do not count. When the transport of an end closes, what it had not yet handed to
the other end is lost and what either end sends later is too; the other end hears of it by
the closing of its own transport.

### OptSession

Both ends follow the protocol and may disagree on version and trust. A
ciphertext is a packet tagged with the letter of its key and its counter.
Switching the outbound key takes two steps under `_out_encryption_lock`, between
which application threads may try to send. A packet that does not decrypt has
arbitrary content, since the result of `decrypt()` is not looked at.

### C2

The handlers of all connections run on one thread, so each is one step with the
chain of callbacks it sets off: `OnOpen` logs a connection in and ejects the one of
the same name, `OnClose` is the end of a connection with all its pipes, `OnPipe`,
`OnResp`, `OnData`, `OnClosePacket` and `OnOpenExpired` are what reaches a route.
`lookup` is `_connection_lookup`, and `selfLu` says whether the iterator a
connection has stored is its own entry, the end of the map, or was never set; a
route refers to its two pipes until the server ends. The clients' handlers and
what their programs do are steps of their own. `server` leaves `"run"` where the
code reads an uninitialised iterator or locks a mutex it holds (see 5).

### Router

Per side a route, a pipe, a socket and two threads: `tunnel` runs the events of
the pipe, `loop` those of the socket. `OnPipeClose` and `SocketClose` are the two
close callbacks, each of which erases the route and closes the other half;
`AddSocket`, `ReadSocket` and `ExecClose` are what the loop does between; the
destructor of a pipe that nobody holds tells the peer (`Dropped`). Local programs
write, close and read at any time; `AddSocket` and `ConnectEnds` follow the one of
`S` from a socket that is polled before it is connected to one that is open or
refused. Two losses at the sockets are in the model: `SocketSend` counts in `passed`
what was handed to `send()`, whose result the code ignores, and `got` is what of it
the program receives; `HangUp` is a pass in which Windows reports `FD_READ` and
`FD_CLOSE`, reads one buffer and closes the socket, and `unread` counts the packets
dropped with it (on Linux, which reads to the end first, it stays 0). `overtaken`
remembers a close request that came before the start.

### Punch

`state` is `_state` of the puncher and `ib` whose magic value it was given. Each
handler of the session is an action (`ClientOnDescribe`, `ServerOnDescribe`,
`ServerOnStart`, `OnIgnored`, `OnClosePacket`). `Malformed` is a peer of another
version, which sends what does not follow the exchange: a packet of another kind, an
empty one, a description or a start that is repeated or early (`extra`). `Spawn` opens a socket
and sends the magic, `OnDatagram` is what the searching thread does with what it
receives, `Done` hands the socket to the tunnel and `GiveUp` is the time-out. The
NATs are a choice, in `Init`, of the pairs of sockets that reach each other; the
network loses and delays; strangers send to any
socket of a search.

### Blob, OptTcp and IpLookup

A blob is its memory with the gap before and the size of the active part; writing,
growing, resizing, adding and reading a record are operators with the arithmetic
of the code. `OptTcp` frames packets into blobs and takes them out of a list of
chunks. `IpLookup` runs a client and a server with that: TCP hands out the bytes in
chunks cut anywhere; the five packets of the key exchange go before the answer;
each end has its 10 s timer and may hang for good. The server may be one that packs
its answer otherwise (`OtherReplies`).

### NatProbe

One socket with a route per query (`UDPMultiplexed`): an answer goes to every route
of its sender's address and to the handler of unknown packets if there is none.
`waitCnt`, `natTimer`, `done` and `natWoken` are the client's way to its end, and `handed`
what `get_results()` returned. The server has the sockets it listens on and the one
it also answers from.

## 3. Runs

Numbers of states are distinct states found by TLC.

| run | checks | bounds and why they suffice |
|---|---|---|
| `optudp` | `TimerCoversQueue`, `ForgottenOnlyIfGot`, the refinement `ImplementsOrderedStream`, `MCEveryFrameAcknowledged` (liveness) | packets of 1 or 2 fragments, 4 frames, 4 sequence numbers, 2 retransmit numbers: retransmit numbers wrap, old copies meet the next turn of the numbers. One sending thread; several are covered by the theorems. 383 909 states |
| `optudp_arrival` | `MCEveryPacketArrives`: **violated** | see 5 |
| `emitter` | `NoDanglingErase`, `NoLostWakeup`, `SilentOnceCancelled`, `EveryTimerFires`, `StopEndsLoop` | 2 timers, a user thread that adds, cancels and stops, callbacks that add and cancel; two requests. 127 538 states |
| `retransmit_timer` | `OneRetransmitTimer`, `RetransmitTimerArmed` | 4 timers, 2 application threads and the loop thread |
| `callback` | `OneOwner`, `InstalledStays`, `OnlyLatestRuns` | 2 threads, 4 functors, calls nested twice |
| `pipes` | `ClosedOnce`, `RegistryExact`, `OpenDataNotLost`, `BothEndsClose` (liveness) | one pipe with both ends and two threads at each, a data packet each way, a transport that may close and lose what is on its way; pipes share nothing but the map. 344 515 states |
| `session` | `EveryPacketDecrypts`, `OnlyKnownRemotes`, `BothOpen` (liveness: compatible ends open and stay open) | every combination of versions, trust and early senders, 2 packets from each application |
| `sockets` | `PollSetMatches`, `NoRequestForgotten`, `CallbackOrder`, `CloseHeard` (liveness) | both platforms; a connecting socket with up to 2 addresses with a listener and the socket it accepts, or with a datagram socket: up to three entries in the poll, removed in every order. 329 442 states |
| `c2` | `LookupIsLatest`, `OpenEndToEnd`, `BothClientsClose` (liveness) | two connections that log in under the same or different names or without one, a pipe from either, a packet each way. 157 045 states |
| `router` | `StreamIntact`, `CloseReachesAll` (liveness) | an allowed and a forbidden port, two packets from each program, a tunnel that may close at each side, short sends, a refused connection, data unread at the close. 303 928 states |
| `punch` | `MagicsCrossed`, `PunchedToPeer`, `BothFind`, `BothSearch` (liveness) | two sockets per end, every way they may reach each other up to symmetry, one packet that is malformed, repeated or early. 665 779 states |
| `iplookup` | `WholePackets`, `AddressArrives`, `BothLetGo` (liveness); `MappingPerServer`, `SilentOnlyIfLost`, `ResultsHandedOut` (with liveness) | the run chooses one of the two programs in its initial state. Lookup: chunks of up to 4 bytes, so that a cut falls at every place of a header and a packet; length fields of one byte, answers of 7 kinds. Probe: two queries to the same or different programs, one duplicate or unasked datagram, one unasked result. 164 516 states |

Deadlock is not checked where the system may legitimately stop: everything was
sent (a bound), the emitter has ended, the session or the connections are closed,
functors are used up, the search is over.

Every property has a mutant: a plausible bug (an unlocked section, a dropped
guard, a missing reset) defined next to the operator it replaces and marked
`Mutant`, under which TLC finds the property violated.

Bounds that are constants of a module are named there (`MaxData`, `MaxBad`,
`MaxForeign`, `MaxExtra`, `MaxRequests`, `MaxDepth`, `MaxAddrs`); those of `OptUdp`
are constraints in `MCOptUdp`. They bound what the environment does, never what
the program does with it.

### Fairness

* `OptUdp`: threads inside `send()` and emitter threads keep running (weak). The
  retransmit timer eventually fires with a due frame (strong: it may be reset
  again and again by other calls, but the loop runs an expired timer in every
  pass and the expiry of a queued frame does not move). A frame that is
  transmitted again and again, or acknowledged again and again, eventually gets
  through (strong): the network does not lose for ever. `send()` is never
  obliged to be called. The run states the strong part for one frame.
* `EventEmitter`: calls return and the loop runs (weak), the poll returns when it
  has a reason to, clocks advance.
* `Sockets`, `SocketsWin`: the loop thread keeps running, and the wait returns when
  it was interrupted (weak). The kernel is never obliged to report anything else.
* `OptPipes`: handlers and begun calls go on, packets are taken, the open timer
  expires, and the transport of an end whose peer's has closed closes too (weak: the
  pings of OPTUDP time out, TCP ends). The application is never obliged to do anything.
* `OptSession`: emitter threads handle packets (weak).
* `C2`: the server and each client handle what has arrived, the end of a connection
  is heard, open requests expire (weak).
* `Router`: the threads of each side run, and a side hears of the end of the tunnel
  that the other has seen (weak). Programs are not obliged to close.
* `Punch`: what has arrived on the session is handled, a search that has found
  ends (weak). No datagram is obliged to arrive: what must happen
  eventually is about a magic that was delivered.
* `IpLookup`: threads that do not hang run and their timers expire (weak); the
  connection is accepted.
* `NatProbe`: the time-out expires and the program reads the results (weak). No
  datagram is obliged to arrive.

## 4. Proofs

`NetworkProofs` holds the proofs of the UDP transport and of the sockets. Of `OptUdp` it
proves, for every number of threads, sequence numbers, retransmit numbers and fragments:

* `TypeCorrect`: `TypeOK` is invariant;
* `TimerAlwaysCovers`: `TimerCoversQueue` is invariant (it is inductive together
  with the types: every step that makes the queue non-empty or disarms the timer
  leaves a call behind that ends with a reset);
* `OrderedDelivery`: `InOrderIntact` is invariant;
* `Refinement`: `Spec => Stream!Spec`.

`InOrderIntact` is not inductive. The strengthening `OrderInv` says that the sent
packets tile `0..txIdx-1` without gaps (`Tiles`); that every frame in a queue, on
the wire, in the receive map, or still to be sent by a thread carries the type
its position has in its packet (`FramesOK`, `JobsOK`); that a stored frame lies in
the window `rxIdx .. rxIdx+2*Half-1`, so that its number identifies it
(`RxMapOK`, with `SeqNumUnique` and `NotBehindMeansAhead` about arithmetic modulo
the number space); and that `_reassemble_list` is the beginning of the packet
`rxIdx` lies in (`ReassemblyOK`). The frame that `find()` returns is then the one
at position `rxIdx` (`FoundIsNext`), and an END or SINGLE completes exactly the
next packet (`NextPacket`).

`ForgottenOnlyWhenArrived` proves `ForgottenOnlyIfGot` by `ForgetInv`: only what was
transmitted is on the wire and only what has arrived is acknowledged; two frames
that wait, are still to be sent or are in flight are less than a turn of the numbers
apart, so that the frame an ACK matches by its number is the one it is for.

`UtilsProofs` holds the proofs of the two classes of `common/utils` that the rest is
built on. Of the event loop it proves, for any number of threads and timers:

* `WakeupNeverLost` (`NoLostWakeup`), inductive with the types of the variables it
  depends on: only the loop thread clears the event fd, and it reads the flag and the
  additions between clearing it and waiting again; a call that publishes an addition
  or a stop is itself the promise of an interrupt until it makes it;
* `TypesCorrect` and `CancelledStaysSilent` (`SilentOnceCancelled`), from `BaseInv`: a
  timer is in one list once, the list of the loop holds active timers and the
  additions others (`OwnInv`); what was cancelled is in no list or still to be
  deleted, and nothing cancelled before the pass is in the list; a thread holds a
  timer only inside a call, and nobody else holds the one `add_timer()` has not
  returned yet (`CallInv`). `UpdateList` and `EraseOne` say what the updates and an
  erasure leave in a list;
* `ErasesOnlyMembers` (`NoDanglingErase`), whatever threads cancel, with `HeldInv`: the
  timer a cancellation has locked is still in a list, unless the call itself has taken it
  out, the loop has ended, or it overlapped another call or its end in the loop;
* `OneTimerFires` and `WaitingIsTimed` (`OneRetransmitTimer`, `RetransmitTimerArmed`)
  of the composition `UdpSpec`, for any number of threads that reset the timer. Every
  step of it is a step of the emitter (`UdpStep`), so `BaseInv` comes along.
  `ResetInv` ties the place of each thread in `reset_retransmit_timer()` to `_tx_lock`
  and to its call of the emitter; `LiveInv` follows the set of timers that can still
  fire through it: within the handle outside, empty between the cancellation and the
  addition, within the timer the adder holds until the handle is stored.

Of the callback slot `UtilsProofs` proves `FunctorHasOneOwner`, `OneOwner` for any number
of threads and functors and any depth of nested calls, and `SlotTypeCorrect`, that
`SlotTypeOK` is invariant (the names of `Callback` are its own, so that one module can
extend it and `EventEmitter`). The inductive `Owned` adds that the
slot, the running calls and the deleted functors hold nothing but what was given
to the slot. `PushFnAt` and `PopFnAt` say how the stacks change; the actions then
only move one functor between the slot, a call and the deleted ones.
`FunctorStaysInstalled` and `LatestRuns` (`InstalledStays`, `OnlyLatestRuns`) need
`InOrder`: what a running call has taken out, it will put back, and it is the one
installed last.

Of the sockets `NetworkProofs` proves theorems of `SocketSpec \/ SpecWin`, both platforms, for any
sockets and numbers of addresses: `RequestsSeen` (`NoRequestForgotten`),
`PollSetCorrect` (`PollSetMatches`) and `CallbacksOrdered` (`CallbackOrder`). The
invariant says that the two vectors are in step and hold each socket once
(`VectorInv`, with lemmas on the removal by swapping with the last), that a socket
goes through the requests and the vectors once (`PassInv`), in what state its OS
socket is on the way (`FreshInv`, `OsInv`), and that the push after an error callback
is still to come (`PushInv`). `OsInv` has the exceptions that `PollSetMatches` has
not: between the two loops of a pass the vectors do hold closed sockets.

`OptPipesProofs` proves `CloseCallbackOnce`, `RegistryCorrect` and `NothingLost`
(`ClosedOnce`, `RegistryExact`, `OpenDataNotLost`) for any set of identifiers and any
number of packets, with the two threads of each end in any order and a transport that may
close. `PipesInv` has a part about one end (`Local`: what the one call or handler that is
in a pipe has seen of it is still true, for the pipes that are not in `crossed`; the short
calls of the other thread do not disturb it) and a part about both, which holds of crossed
pipes too (`Paired`: what the packets on the way say of the other end; an answer precedes
the data sent on the pipe, and a pipe that waits for one finds it on its way as long as
the transports are up). `Moved` and `Placed` say what a step of a thread does to where
the threads of an end are, `OnlyTables`, `OnlyPlaces` and `OnlyPackets` that a step is about
one pipe, after which `Frame` has the others; `OnlyLost` is the closing transport.

`OptSessionProofs` proves `PacketsDecrypt` and `KnownRemotesOnly`
(`EveryPacketDecrypts`, `OnlyKnownRemotes`) for any number of packets. That the next
packet decrypts is not inductive: `StreamInv` says of every packet on its way that the
receiver, having taken the ones before it and switched its key where it does, will
have the key and the counter it was made with; `LockInv` and `TrustInv` say
where in the exchange an end may be.

`C2Proofs` proves `LookupCorrect` and `OpenFromEndToEnd` (`LookupIsLatest`,
`OpenEndToEnd`) for any number of connections, users and pipes, with two sessions of
one fingerprint in any order. `RegisterInv`: entries, stored iterators and
fingerprints of connections refer to each other. `RouteInv`, `EndInv`, `UpQueue` and
`DownQueue`: the state of a route, those of the two pipe objects at the clients, and
the packets between them imply each other, and an answer precedes data. `Advance`
collects what no step takes back (a pipe is asked for once, a route keeps its
connections), so that each step is compared with its messages only once.

`PunchProofs` proves `SearchesStartRight` and `PairReaches` (`MagicsCrossed`,
`PunchedToPeer`) for any number of ports and packets out of turn and any choice of
sockets that reach each other. `ChanInv` says what the packets on the session imply of
the end that sent them, `StartInv` that an end which searches knows the magic of the
other and that the client has both, each but for what came out of turn (`Cued`), `FlightInv` that a magic in flight comes out of a socket that reaches the one
it is on its way to.

`RouterProofs` proves `StreamStaysIntact` (`StreamIntact`) and `RoutesTypesCorrect` for any
number of packets, ports and allowed ports. Two threads on each side, two halves of a
connection that end separately, and a pipe with its own handshake make `StreamIntact`
far from inductive. `Base` says where a side can be: one without a route is untouched
(`SideInv`), `C` waits for an answer with its socket (`AskInv`), the request is the first
packet and the answer precedes data (`ChanInv`), `C` is past its request only when `S`
has answered (`AnswerInv`). On it stand the four parts about the stream: the socket of a
side holds the next packets in order, the end last, up to those it dropped unread
(`KinInv`); as long as data can reach a program (`CanDeliver`), what its socket was handed
and what is on its way make up what the peer has read, in order and with the CLOSE last
(`Account`, `OrderInv`); what the program got of it is in order and no more than that even
afterwards (`GotInv`); and in a connection nobody gave up and whose end the program did not
ask for, the end of one side has begun only when the other program is gone and all that was
read is handed over (`CleanInv`). `OwnOrder`, `PeerOrder`, `OwnClean` and `PeerClean` follow a step of one side
at that side and at the other.

`EndpointProofs` is about the two lookups. Of the IP lookup it proves `WholePacketsArrive`
and `AddressDoesArrive` (`WholePackets`, `AddressArrives`), for any address, any answers of
other servers, any length of the length fields and any chunks. It starts at the bytes:

* `AddRecordPacks`: `AddRecord` on any sound buffer (`SelfTest`) gives a sound one with the
  old content, the length and the data, over lemmas on `Bufcpy`, `GrowGap`, `Resize` and
  `CopyFrom`; `NextRecordReads` and `NextRecordPacked` are its inverse, in both directions:
  what is packed is read, and what is read was packed;
* `TakeCellsDrops`: the list of chunks from which bytes are taken holds what it held from
  there on, in sound chunks that are not empty;
* `ReceivesWholePackets`: whatever list is held and whatever chunk comes, `OnReceive` hands
  on the packets that are complete, as they were sent, keeps less than the next one, and
  closes only at a packet that is refused (`Refused`). The chunks in the list and the bytes
  still to come are the packets that were not handed on, before as after.

`Reassemble` and the `FlattenSeq` of the community modules are recursive functions. That they
have the values their definitions say (`FlattensExists`, `ScansExist`), and what these are
(`ReassembleFinds`), is shown without the induction theorems of the library: the set of
numbers for which a statement holds contains 0 and with each number the next (`Induction`,
from the least number of a set).

The invariant of the lookup is `IpInv`. `Wire` says, of each end, that what it has got is the
beginning of what the other one sent, and that the bytes in its list and those on their way
to it are the frames of the rest; `Answered`, that an end has sent the answers to what it got
and no more; `Outcome`, that without a time-out an end closes after its third packet, or the
server after the client, so that the end of the stream, which comes behind the last byte, is
read by a client that has its address (`AllRead`). `Received` sums up a step of `Receive`,
and `ReceiveKeeps` compares it with both directions.

Of the NAT probe `EndpointProofs` proves `MappingIsPerServer` and `SilenceMeansLoss`
(`MappingPerServer`, `SilentOnlyIfLost`), for any sets of queries, servers and other programs,
any NAT, and a network that loses, duplicates, reorders and lets strangers in; and, without a
property of their own in the run, `ResultsStay`, the safety half of `ResultsHandedOut`, and
`WaitCountExact`. `NetInv` says of every datagram what it is: a large one is a request of the
client with the address its server will see, and what comes from a server answers one that
was asked. `PendingInv` follows the request or the answer of each server that has none yet.
`OthersKeep` covers the steps that only change the network.

The `Invariance` theorems state the inductive invariants, which TLC also checked on the
instances of the runs. `TypeCorrect`, `SlotTypeCorrect`, `RoutesTypesCorrect`,
the `TypesCorrect` theorems and `OrderedDelivery` are what the other results rest on; no run spends a property on what
they state. `OrderedDelivery` is checked by TLC in the form of the refinement.

Assumptions: those of the modules on their constants (`ConstantsOK`, `EmitterConstants`,
`CallbackConstants`, `SocketConstants`, `PipesConstants`, `SessionConstants`,
`C2Constants`, `PunchConstants`, `RouterConstants`, `NatConstants`: sizes are natural numbers,
sets of names are disjoint, `None` is no name, a request is larger than 100 bytes and an answer
is not; `LenSizeAssumption`, `MaxPacketSizeAssumption`, `LookupConstants`: a length field has at
least a byte, the port has two, the answer fits into a packet, and a length field that is read
from another server's answer holds a number as a whole), the two on the network that are
guards of `OptUdp`.

Only model-checked: the liveness properties, `ResultsHandedOut` as a whole among them, since
TLAPS does not reason about fairness or `ENABLED`.

## 5. Divergences from what the code says of itself

Shown by a run:

* **`optudp_arrival`**: frames are stored under their whole `seq` (retransmit bits
  included) but looked up under the bare number (`opt_udp.cpp:34`, `:174`). If the
  first transmission is lost the frame is acknowledged and never found. Ordered
  delivery is not violated: the stream just stops.

Found while modelling; the models contain them, and their properties are stated for
the rest of the behaviours (the definition that says so is named):

* Event loop: a cancellation that has locked its timer when another call, or the loop,
  takes the timer out of its list makes the loop or itself erase the iterator again,
  although `cancel_timer()` says "Can call from any thread" (`event.h:143-153`, `:240`;
  `overlapped` in `NoDanglingErase`). OPTUDP can do that: an ACK on the loop thread and a
  `send()` of another thread cancel the same timer between two passes
  (`opt_udp.cpp:205`; `dangling` in `retransmit_timer`).
* Callbacks: two concurrent calls of a slot lose its functor (`callbacks.h:193-200`;
  the condition of `InstalledStays`); a functor replaced while it runs can be put
  back when the replacement is checked out by another thread (`overlap` in
  `OnlyLatestRuns`).
* Pipes: close callbacks run with `_pipe_lock` held (`opt_pipes.cpp:323`); closing or
  releasing a pipe in them waits for that lock (`NoSelfDeadlock`). After the transport
  closed, closing a pipe issues its close callback again (`link[e] = "up"` in
  `ClosedOnce`). `_open_state` is read and written without a lock, although `close()` is
  "Safe to call from any thread, even during a callback" (`opt_base.h:99`): two threads
  that close one pipe at once both issue the callback, and a `start()`, or the handler of
  an open response, that has read the state opens a pipe again that was closed meanwhile
  (`crossed` in `ClosedOnce` and `RegistryExact`).
* Sessions: `sendRaw()` sends an empty blob once encryption is on
  (`opt_session.cpp:171`, `RawIntact`); the comment on the letters of
  `secret_hash_derive_bits` (`kex_v1.h:195`) names the directions the other way round
  than both ends use them.
* Sockets: a socket whose first connection attempt fails, or whose `close()` is
  executed before its `start()`, never gets its close callback
  (`network_linux.cpp:790-797`, `:749`; `EveryCloseHeard`); `IPClient::wait()` waits for
  it for ever. The loop thread changes `_closed_socket_objects` without its lock
  (`network_linux.cpp:641`, `:795`). A reset connection is an `assert(false)` (`:660`).
  An empty datagram closes its socket (`:698`).
* Sockets on Windows: the result of `WSARecv()` is ignored and the length that decides
  between data and end uninitialised after an error (`network_win.cpp:743`); `FD_CLOSE`
  drops data not yet read (`:832`); the wait reports the socket with the lowest index, so
  that a busy one starves the others; a failed `accept()` closes the listener.
* C2 server: a connection that closes before its login uses an iterator that was never
  set (`c2_server.cpp:171-176`), and a client of a live route that disconnects makes
  the thread lock a mutex it holds (`server # "run"`). Routes stay in `_routes` for ever.
  A request for an unknown user is dropped and ends by its expiry. A client without a
  fingerprint is closed but stays in the lookup under the empty one.
* C2 client: the request for a pipe goes out before the callbacks of the session are
  set (`c2_client.h:85-100`; `pipe = "missed"` in `Punch`).
* Router: a request to close the socket that comes before its start has no effect and
  leaves the local connection open (`overtaken`). What a program wrote can be lost at the
  sockets: Windows closes a socket with data unread (`network_win.cpp:832-836`), and the
  result of `::send` is ignored (`network_win.cpp:490-492`, `network_linux.cpp:418-420`),
  which on a socket that is full or not yet connected takes part of a packet or nothing.
  The second is systematic: `pipe->start()` answers when the socket is polled, before it
  is connected (`router.cpp:147-155`), and data that comes earlier than the connection is
  lost. `StreamIntact` is about what lies between the two sockets. When the first
  attempt to connect fails at once only the error callback is called; the client's 10 s
  expiry cleans up. When nothing else holds a pipe that the closing link closes, its
  destructor waits for the lock the thread holds (`"stuck"`). A request for a denied port
  is dropped silently. The end of one direction closes both.
* Hole punching: when the search times out, or no socket could be bound, the missing
  socket is dereferenced (`sym_sym.cpp:172`, `GiveUp`); `SF_Success` is never set, so that
  a puncher leaves `_open_punchers`, from which it is to "Remove themselves after
  punching is complete" (`c2_client.h:30`), only when its session closes; the two ends
  may choose different pairs of sockets; an empty packet closes the session and is then
  read (`Malformed`). The server stays in `S2_SHello` after a start (`punch.cpp:155-163`): a
  second one replaces `_thread` while it has its thread, which ends the process
  (`"terminated"`), or, when the first search is done, starts another (`"again"`, which is
  not followed further). No packet does that to the client.
* IP lookup: `OPTTCP::send` does not check the size that makes the receiver close; a
  connection that is refused leaves `IPClient::wait()` waiting (`"failed"`).
* NAT probe: nothing wakes `NATServer::wait()` (`nat_server.cpp:152`); the wake-up when all
  answers are in is commented out, so that the probe always takes its full time; an
  answer whose name does not resolve counts as a result with an empty address; when no
  query resolves the multiplexer dies at the end of `start()`.
* Reading alone: `Permissions::parse` (`identity.cpp:50-159`) reads `node[i]` where it
  means `field[i]`, takes `"port"` from the wrong field, and never adds to `ports`;
  `store()` inverts the test of a port range; `UserGroup::parse` reads `node[i]`;
  `operator!=` of blobs (`blob.cpp:30`) is inverted and `skip_from_reassamble_list()`
  of OPTTCP never advances (both unused); `split_network_string()` on Linux has no return where
  it succeeds (`network_linux.cpp:146`).

## 6. Not modelled, and the plan

Left out, and why:

* keepalive of `OPTUDP` (ping, pong, timeout): it neither sends nor drops frames of the
  stream, and its clock arithmetic is floating point;
* the raw channels of pipes and sessions, which only forward;
* `start_sync()`, `join()` and the destruction of an emitter or a server while it runs;
* binding and resolving addresses and `run_now()`;
* `extract_socket()`, which `sym_sym.cpp:91` calls when the magic is found: it takes the
  handle out of the list of the search's provider, which is `found` in `Punch`. The one
  that would update the vectors (`network_linux.cpp:836`) is not called, so that the
  socket stays polled until the provider goes; `Sockets` has no such step;
* a second `start()` of a socket or one after its `close()`, which no caller makes, and an
  empty packet to `OPTUDP::send`, which no user sends (`opt_udp.cpp:305` would take
  millions of numbers for it and queue no frame: the stream would stop);
* a failing `recv()` of a forwarded local connection, which ends the process;
* identity, permissions and configuration: sequential parsing and printing, no
  behaviour that a model would show and a test would not;
* cryptography (wraps OpenSSL), text formats, command lines, `main` programs.
