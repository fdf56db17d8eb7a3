# HushWire in TLA+

HushWire is a point-to-multipoint VPN: a Rust core (`src/src/`) with a
command-line daemon, and Network Extensions for macOS and iOS that drive the same
core through a C interface. This directory holds TLA+ models of that code, the
TLC configurations that check them on small instances, and TLAPS proofs of some
of their properties for every instance. All source paths are relative to the
directory that holds `src/` and `tla/`.

## 1. Inventory

| Part | State | Operations | What is hard |
|---|---|---|---|
| Replay window (`replay.rs`) | highest counter, 64 words of 64 bits | `would_accept`, `mark_authenticated` | shifts across word boundaries, reordering at the edge of the window |
| Noise session (`noise.rs`) | identifier, keys, age, send counter, replay window | `encrypt`, `decrypt`, `should_rekey`, `is_expired`, the Noise IKpsk handshake | counter exhaustion, failure after a counter was taken |
| Session manager (`engine.rs`) | per peer: active, previous and candidate session, pending exchange, cached msg2; recovery preference | encrypt, decrypt, start or retry, accept, answer, finalize, invalidate | rekeys move sessions between tables while packets of all of them are in flight |
| Engine (`engine.rs`) | session manager, peer statistics, resolved endpoints | outbound packet, inbound packet, keepalive, handshake, endpoint update | a handler takes several locks in turn; other threads and the peer act in between |
| Peer state (`state.rs`) | last seen, learned endpoint, byte counts | record sent, received and keepalive, clear endpoint | learned endpoint and session are changed under different locks |
| Scheduler (`scheduler.rs`) | last keepalive, last recovery attempts | `tick`: retry, recover, keepalive | rate limits against silence, one rebind shared by all peers |
| C interface (`ffi.rs`) | engine, running calls, stopping flag, scheduler | start, stop, packet calls, tick | two locks and a condition variable; calls race with stop |
| TCP transport (`tcp_transport.rs`) | connection table, read buffers, bounded write queues | dial, accept, send, receive | two threads dial, a reader removes its successor, partial frames |
| UDP transport (`transport.rs`) | the shared socket | send, receive, rebind | rebind under concurrent readers |
| Router (`router.rs`) | allowed and excluded networks, sorted | lookup, endpoint exceptions | longest prefix against the kernel's own, default routes |
| Packet format (`auth.rs`, `packet.rs`) | none | encode, decode, check an IPv4 header | lengths at the boundaries of headers, tags and length fields |
| Daemon (`tunnel.rs`), routes (`routing.rs`), firewall (`firewall.rs`) | installed system state | start, run three threads, clean up | failure half-way, signals, clean-up order |
| Gateway (`gateway.rs`) | owned rules, state file | apply, remove, status | a crash between the rules and the record of them |
| Configuration (`config.rs`) | none | parse, validate | the assumptions of everything else |
| Network Extension provider and transport (Swift) | running core, routes, endpoint refreshes | install, activate, refresh, transition, tear down | two queues, asynchronous completions that arrive late |
| Applications, CLI, diagnosis | user interface | | not core logic |

The parts interact by calls. An adapter (the daemon's threads, or the provider's
queues through the C interface) hands packets to the engine and carries out the
actions it returns; the scheduler calls the engine once a second; the engine
calls the session manager, the peer state and the router, each behind a lock of
its own. Two engines interact only by datagrams (or TCP frames), which may be
lost, repeated and reordered.

What makes each part correct: the window accepts every counter once and only
inside the window; a session manager never reuses a nonce, never accepts a
packet twice, never uses a session its peer may not have, and never loses the
correspondence of its tables; two engines that initiate at once agree on one
exchange; a changed endpoint is really used; a stop really stops. A silent
session is replaced in time and a fresh one is not, and a peer that can be
reached is reached again. A transport delivers whole frames and gives broken
connections and old sockets up. The tunnel's own packets never enter the
tunnel, host table and router agree, and whatever fails or is killed, the host
gets its routes, rules and forwarding value back. PROJECT.json lists the
hazards at the lines where they bite.

## 2. Modules

| Module | Models | Composition |
|---|---|---|
| `ReplayRule` | the acceptance rule on the set of accepted counters | used by the next three |
| `ReplayFilter` | the abstract specification of the window | |
| `ReplayWindow` | `replay.rs`, the array of words | implements `ReplayFilter` (`INSTANCE`) |
| `Session` | `noise.rs`, one end of a session | uses `ReplayRule` for its window |
| `SessionManager` | the `SessionManager` of `engine.rs` | extends `Session` |
| `Engine` | `Engine` on several nodes and the network | extends `SessionManager` and implements its specification (`ImplementsManager`) |
| `PeerEndpoint` | learned and resolved endpoint of one peer | separate, finer locks than `Engine` |
| `FfiRuntime` | the lifecycle of `ffi.rs` | separate |
| `Scheduler` | `scheduler.rs`, all timers of `tick` | over the engine reduced to its sessions and their age |
| `FrameChannel` | what a TCP connection promises: whole frames, in order, once | abstract |
| `TcpFraming` | `PendingWrites` and `ConnState` of `tcp_transport.rs`, byte by byte | implements `FrameChannel` (`INSTANCE ... WITH`) |
| `TcpConnections` | the connection map of `TcpTransport` under its threads | separate, a connection is its identity |
| `UdpTransport` | the UDP socket of `transport.rs`, shared and rebound | separate |
| `PacketTransport` | `bind` of `transport.rs`: one of the transports for the life of a tunnel | extends `UdpTransport`, `TcpConnections` and `TcpFraming` |
| `Bytes` | numbers as strings of bytes, `to_be_bytes` and `from_be_bytes` | used by `TcpFraming` and `Wire` |
| `Wire` | `auth.rs` and `packet.rs` as operators on byte strings | extends `Bytes` |
| `DataPlane` | the forwarding loops of `tunnel.rs` and the packet path of the engine | extends `Wire` |
| `Ipv4Net`, `Config` | prefixes; `validate` and the derived values of `config.rs` | operators |
| `Router` | `router.rs` as operators | extends `Config` |
| `RouteManager` | `routing.rs` and the kernel's table | extends `Router` |
| `Daemon` | loading a configuration, `run` and `Cleanup` of `tunnel.rs`, `firewall.rs`, the systemd unit | extends `RouteManager` |
| `Gateway` | `gateway.rs`: `apply` and `remove` as processes | separate |
| `ReplayWindowProofs`, `SessionManagerProofs`, `EngineProofs`, `FfiRuntimeProofs`, `TransportProofs`, `SchedulerProofs`, `GatewayProofs`, `DaemonProofs` | theorems | extend their component; `EngineProofs` builds on `SessionManagerProofs`, `TransportProofs` is about `UdpTransport`, `TcpFraming` and `DataPlane` |
| `MC...` | constants for TLC | extend their component; `MCPackets` puts the window and the data plane, which share no state, in one state space |

**ReplayWindow.** `highest` and `bits` are the struct's fields, with a word as
the set of its one-bits; `accepted` and `verdict` are history. `Record` is the
`match` of `mark_authenticated`. Word size, number of words and the largest
counter are constants.

**Session and SessionManager.** A link `<<n, p>>` is node n's entry for peer p; a
map entry is a set of at most one element. Every public operation takes the one
mutex once and is one action, with one definition per outcome
(`EncryptFrame`/`EncryptNone`/`EncryptError`; `OpenActive`/`OpenPrevious`/
`OpenCandidate`/`RejectTransport`; `RetryHandshake`/`StartHandshake`/
`StartNothing`; `FinalizeSession`/`FinalizeError`). The two traffic keys of a
session are one abstract key; that a handshake derives a fresh one, and that a
message opens only at the end it was made for, is what the code expects of the
Noise library (external). Ages are counted in ticks and saturate at the largest
age anything compares with. `sealed` and `opened` are history: every frame
encrypted and every frame accepted. `Operation` lets callers call in any order;
`Engine` is shown to be one such caller.

**Engine.** Two nodes, the packets in flight, and for every thread of a node
what it still has to do (`at`): a handler that locks the manager three times is
three steps. The thread names are constants: three different ones are the
daemon's threads, and where two are equal their handlers do not overlap.
`Outbound`, `Invalidate` and `InitiatePeer` are the steps of
`process_outbound_ip` and `create_keepalive`; `ReceiveInit`, `LookupResponse` and
`StoreCandidate` those of an inbound msg1; `ReceiveResponse`; `ReceiveTransport`
and `Acknowledge`. `TimerRetry` and `TimerRecover` are the calls of the
scheduler, whose timing is left open. The learned endpoint is recorded in the
step that authenticates the packet; `PeerEndpoint` separates the two. Time passes
(`Tick`) only between handlers: they take microseconds and the timers seconds.
With `Prompt` it passes only when no packet is in flight: delays are then shorter
than the unit of time. `Probing`, `Duplicating`, `Recovering` and `Oversized` say
which of keepalive probes, repeated packets, recoveries and payloads the cipher
refuses an instance has.

**PeerEndpoint.** One peer; `session` says only whether packets can be
authentic. `Authenticate` and `update_endpoint` are the two locks of an inbound
packet; `update_resolved_endpoint`, `clear_endpoint` and `invalidate_session` the
three of an endpoint update.

**FfiRuntime.** `engine` and `scheduler` hold the number of the start that made
them. The two locks appear as holders where they are kept between steps; the
condition variable as the places `waiting` and `notified`. Calls of every kind
differ only in whether they take the scheduler lock, so `CallStep` stands for the
packet, handshake, keepalive and query calls.

**Scheduler.** Every `Instant` is its age, `Never` for `None`. A tick is three
steps (retry and snapshot, at most one recovery, keepalives), because for the
peers in `Concurrent` the transport thread acts in between; `Establish` and `Record` are
its two locks. Of a peer the model knows whether it runs (`alive`), whether the
NAT mapping of our port still works (`path`), and whether it has the session
(`shared`). A session that only one end has, whatever the reason, is
`active /\ ~shared`. A session has an age: from `RekeyAfter` on the next handshake
renews it, and at `RejectAfter` it expires and `has_active_session` is false.
`settled` is history: the peers whose session was on record when the tick read the
statistics.

**TcpFraming, FrameChannel and TcpConnections.** `bytes` and `offset` are the
queue with the part already written, `wire` the kernel's buffers, `read_buf` the
reader's. `Flush` writes any number of bytes that fit, `try_read_frame` reads any
number and returns a frame when there is one; what was written before a close is
still read. The refinement maps the channel's
`open` to "neither end has failed". `TcpConnections` leaves the bytes out: a
sender looks up or dials (`held`), the reader goes through a snapshot
(`entries`), and both act on what they hold after the map's lock is released. `returned` says
that `recv_from` has returned with a frame and starts over.

**UdpTransport.** `held` and `receiver` are the clones of the `Arc` a call works
with; the peer answers to the port of the last frame it got, as in `Engine`.

**Bytes, Wire and DataPlane.** Frames are sequences of bytes with `ByteBase`
values; the sizes of the fields are parameters. `fits` says whether a number is a
value of an integer type: a session seals only while its counter can still be
incremented (`checked_add` in `encrypt`). The cipher is external: it opens what was sealed with the
same counter and was not changed on the way. Two devices, the network between
them, and the statistics.

**Ipv4Net, Config, Router, RouteManager, Daemon.** An address is its
`AddressBits` bits, a prefix an address and a length, with the host bits the file
gave it. A check of `config.rs` yields `"ok"` or an error, and `??` is the
operator of that name in Rust: `validate` is the code's checks in their order, and
its value the error of the first that fails. Names and keys are model values.
The stable sort by length of `Router::new` is an arrangement of the places of the
prefixes in the file (`Arranged`), longer ones first and equal ones in the order of
the file. `setup_inner` is a list of `ip` commands (`BeginSetup` plans it, once the
router is built) carried out one by one, each of which may find its prefix taken or
fail for no reason the program can see;
`delete_linux_route` retries as the code does. The kernel's table holds one route
per prefix and looks up the longest; while the device is there it also has the
device's network and the host's own address (`connected`, `Table`), which `create_tun`
brings with it by addressing the device and setting it up. `Daemon` begins with `LoadConfig`, which
refuses what `validate` refuses; then come the router, the device, the transport
(`BuildRouter`, `CreateTun`, `Bind`), `RouteManager`'s steps and the firewall of an exit
node (`ExitNodes`). For the configurations in `Disturbed` signals, failing commands
and SIGKILL come at every step. When a process ends, its device goes and with it
the routes on the device.

**Gateway.** One step per `iptables` call, file operation and sysctl, each of which
may fail and at each of which the process may be killed; the lock is
an `flock`, which the kernel releases when its holder is killed. Other services
edit the chains without it. `torn` is history: a process was killed between the
creation and the write of the file with the original forwarding value.

## 3. Runs

| Run | Instance | Checks |
|---|---|---|
| `packets` | 2 words of 3 bits, counters 0 to 9; frames around every length compared with, 1 damage on the way | the bit array is exact (`WindowExact`) and implements the filter (`FilterSpec`); `CodecExact`, `TunFaithful`, `StatsHonest` |
| `transports` | UDP: 2 senders, 2 rebinds. TCP: 2 senders, the accept thread, the reader, 3 connections; and 3 frames of all lengths, a queue of 7 bytes, a kernel buffer of 4 | one late frame at most (`OneLateFrame`), receiver and peer follow (`UdpRebindTakesEffect`); broken and replaced connections are let go (`BrokenIsRemoved`, `ReplacedIsClosed`); the stream stays framed in a bounded queue (`StreamIntact`) and implements the channel, liveness included (`ImplementsChannel`) |
| `engine` | 2 nodes with 3 threads each, 2 keys, 1 handshake identifier, packets lost, repeated and reordered, timers, a restart, invalidation, one passive end | `ManagerTypeOK`, `ConfirmedBeforeActive`, `NonceNeverReused`, `AcceptedOnce`, and `ImplementsManager` |
| `engine_rekeys` | 2 nodes with 2 threads each, 3 exchanges, an attempt of 2, rekey after 2 and reject after 4 units of time, lossy network | one previous session is enough (`SenderSessionHeld`), the handshake tables agree (`ExchangeConsistent`), identifiers are unique (`SlotsDisjoint`), counters and windows move with a session (`NonceNeverReused`, `AcceptedOnce`) |
| `engine_yields` (violation) | as `engine_rekeys`, with 3 threads each | both ends become responders (`NoMutualYield`) |
| `peer_endpoint` (violation) | 2 addresses, 1 change | a cleared address comes back (`ClearedTogether`) |
| `ffi` | 1 start, 2 stop, 2 call, 2 tick threads, 3 engines | `LifecycleConsistent`, `StopReturns`, no deadlock |
| `ffi_stops` (violation) | 1 start, 2 stop, 2 call, 1 tick thread | a call begins while a stop waits (`StopRefusesCalls`) |
| `scheduler` | UDP; one peer with rebinding that loses its path, one with a session timeout that stops, restarts and is handled during ticks; sessions renewed after 3 ticks and rejected after 5 | `RecoveredInTime`, `FreshSessionSurvives`, `PortAnnounced`, `Reconnects` |
| `scheduler_path` (violation) | one rebinding peer, timeout 3, sessions rejected after 6 ticks | a path that is lost is not rebound (`PathRecovers`) |
| `daemon` | some 1200 configurations, 4 host tables, 2 killed or failing `ip` children; for 2 exit nodes 3 starts, 3 signals, 2 failing commands, 1 early signal, 1 SIGKILL | `NoLoop`, `RoutesConsistent`, `ExitsClean`, `RunningIsWhole`, `ValidIsUsable`, `ComesBack` |
| `gateway` | 4 commands of 2 processes on 2 tunnels, 1 kill at any step, 1 failure, 1 edit by others | `OneOfEach`, `RecordsTruthful`, `ForwardingRestored`, `ApplyAllOrNothing`, `OthersUntouched`, `ApplyIsIdempotent` |

Several of these are conjunctions of named parts, each with its own comment
beside it in the module. `ExchangeConsistent`: a pending exchange excludes a
candidate, and the cached msg2 names the candidate. `LifecycleConsistent`: types,
no call outlives its engine, no tick uses another engine's scheduler, no wake-up
is lost. `RoutesConsistent`: what the host tunnels the router knows, and the
reverse, and `lookup` takes the longest prefix. `RunningIsWhole`: a running exit
node forwards and its cleanup knows all it has added. `ValidIsUsable`: a session
is probed before it times out, the gateway accepts the MSS, every exclusion takes
effect. `RecordsTruthful`: leftovers are on record, and the recorded forwarding
value is the administrator's. `ApplyAllOrNothing`: an apply that succeeds is
healthy, a first one that fails leaves nothing.

Some properties say under which faults they hold, because under the others they
do not (see "Where the code does less than it says" below): `ExitsClean` (but for
the routes of the host) and `ComesBack` are about processes without a firewall
failure, an early signal or a SIGKILL, `OthersUntouched` about a time without edits
by other services, `ForwardingRestored` and the recorded value of `RecordsTruthful`
about a file that no kill has torn, `FreshSessionSurvives` about sessions on record
when the tick read the statistics, `SenderSessionHeld` about sessions an attempt's
lifetime away from their rejection, `BrokenIsRemoved` about a reader that is not kept
busy for ever, `StopReturns` about a stop that no other one overtakes, and `NoLoop` and
`RoutesConsistent` about configurations with no endpoint and no exclusion in the
device's own network (`OffDevice`). The faults themselves happen in these runs, and
the other properties hold under them.

### Bounds and why they suffice

- `engine` has one handshake identifier and two keys, so that the threads of both
  nodes can be explored in full with repeated packets: an exchange, its retries
  and a second one after a restart or an invalidation, but no rekey of a live
  session. `MaxCounter` 2 lets a session seal, seal again and be exhausted.
  `WindowSize` 2 makes old packets fall out of the window. Its lifetimes are 1 tick:
  the order in which the code's timers (5, 30, 60, 120, 180 s) can run out is kept
  (`RetryInterval <= AttemptLifetime`, `CacheLifetime <= RejectAfterTime`).
- `engine_rekeys` has the rekeys: three keys per link are an active session, its
  successor, and every move of a session between the three tables. The transport
  thread runs beside the one of the host, so that an exchange is started between
  accepting a msg1 and storing its candidate. `FewFrames` bounds the frames sealed
  (4) and in flight (2), and lets handlers overlap while at most two are sealed,
  which is in the first exchanges and in a rekey of the session they yield. An
  attempt lasts two units, so that a lost msg2 is repeated and the two halves of a
  session differ in age; without the condition on the sender's age
  `SenderSessionHeld` fails there. The proportion of rekey and reject times is 2 to
  4 (120 and 180 s in the code), which gives a sender more time than the code does
  to outlive the rekeys of its peer.
- In the window, 2 words of 3 bits contain every case of `shift_older`: below a
  word, exactly a word, across the boundary, the whole window and beyond.
- Session identifiers, and where the nodes have the same configuration the nodes,
  are symmetric: they are only compared for equality. Handshake identifiers are
  compared by size and are numbers. In `gateway` processes, tunnels and policies
  are symmetric; no liveness is checked there.
- The engine runs do not check deadlock: when the keys and handshake identifiers
  of the instance are used up the system stops, which the code never does. The
  gateway's commands, the daemon's starts and the frames of the transports are
  bounded and end too, as do those of `packets`. `ffi` and `scheduler` do check it.
- `Scheduler` needs ages up to the largest timeout plus the number of peers to
  tell a late recovery from a missing one; ages are capped per variable at the
  largest value compared with.
- `TcpFraming`: the queue and the kernel's buffer are smaller than two frames, so
  both fill up in the middle of one; a length field with two digits in base 2.
- `TcpConnections`: three connections are one, its replacement and one accepted
  beside them, of which two break; frames are not bounded, so that a busy
  connection is among the behaviours.
- Addresses of 3 bits have the default route, its two halves, proper subnets and
  host routes, all with different lengths. The device's network is a subnet beside
  or inside the allowed prefixes. `MaxIpKills` 2 is what the three attempts of
  `delete_linux_route` are for.
- `Gateway`: two policies for a change of rules, two tunnels for the shared
  forwarding value, and four commands for apply, apply again, remove, and one of
  another process. A process is killed at any step.
- `DataPlane` has counters at the boundaries of a byte and of the range; sizes
  of 1 and 2 bytes keep every order between lengths that the code compares.

### Fairness

`ffi`: `FairRuntimeSpec` assumes that a thread inside a function gets on with it
(`Proceed`): a callback returns (the C header obliges the adapter), and a lock
that is free infinitely often is granted (strong fairness, since other threads
may take the lock first). Nothing obliges an idle thread to call.

`Scheduler`: the maintenance thread loops for ever (weak fairness of `Elapse` and
`Tick`), a handler that has begun ends (`Record`), a handshake or a probe that is
repeated while the peer can be reached gets through (strong fairness: the
messages are sent anew each time). A bind is not assumed to succeed. Nothing
obliges a peer to start, stop or initiate.

`transports`: the reader's loop never ends, a
call that has begun returns (connect has a timeout of 2 s, recv one of 1 s), and
the network delivers in the end. `TcpConnections` does not assume that the
snapshot visits the connections in a fair order: a `HashMap` has none. Nor does it
assume that a connection falls silent, so `BrokenIsRemoved` names the busy one as
its exception.
`UdpTransport` assumes that senders send again and again, which keepalives do;
`BindFails` and `Replace` are not forced.

`Daemon`: the process and systemd get on with what they are doing; signals,
failures and kills are never forced. `Gateway` states no fairness.

### The findings

`peer_endpoint`. Inbound packets run on another queue than endpoint updates. A
packet authenticated before `invalidate_peer` and recorded after `clear_endpoint`
restores the old address; the replacement handshake goes there, and a later
refresh with the same answer changes nothing. The comment at
`src/src/engine.rs:744-747` says that "that learned address and the cryptographic
session are stale together, so both are cleared before the adapter starts a
replacement handshake".

`engine_yields`. `accept_inbound_initiation` and `store_responder_candidate` lock
separately. An exchange that another thread starts in between is dropped by the
second although its msg1 is on the way; the peer may yield to that msg1, and both
ends are left with a candidate nobody will confirm. `src/src/engine.rs:239-241`
says "both peers cannot become responders simultaneously".

`ffi_stops`. With two threads that stop, the first to finish resets `stopping` while
the other still waits, and a start lets calls in. `src/src/ffi.rs:468`: "Stop
accepting packets, wait for in-flight callbacks, and erase sessions". The Swift
adapter stops from one queue only.

`scheduler_path`. `tick` recovers only peers with an active session
(`scheduler.rs:144`), and a session that expires is not active: a path lost less
than the rebind timeout before that, or given up by a tick whose bind failed
(`scheduler.rs:171`), is never rebound, and every later handshake leaves from the
broken port. `src/README.md:159`: "For automatic recovery when an established UDP
path becomes one-way, enable rebinding".

### Where the code does less than it says

These disagreements were met while modelling and are not runs of their own; each
can be reproduced by changing the instance or the property as told.

- `engine.rs:430`. In the last part of a session's life the peer's half may have
  been rejected already (`SenderSessionHeld` without its condition on the age).
- `scheduler.rs:151`. `last_udp_rebind_attempt` is shared by all peers. Let both
  peers of `MCScheduler` rebind and `RecoveredInTime` fails: a peer that keeps being
  due resets it each time and the other is not due until its session expires.
  `README.md:172` promises the rebind after "the configured number of seconds".
- `scheduler.rs:147`. A new session is active before `last_seen` is set; a tick
  that read the statistics before that discards it (`FreshSessionSurvives` for all
  peers instead of `settled`).
- `tcp_transport.rs:339`. The reader removes by address: when the map already
  holds another connection for it, that live one is removed, although the comment
  at line 337 says "Connection broken — remove it."
- `tcp_transport.rs:330`. `recv_from` returns with the first frame and starts
  over at the first connection: a busy one keeps the others from being read and
  flushed. Line 154 speaks of "forward progress for writes".
- `transport.rs:79`. A call may hold the old socket over a rebind, so the
  directions do not "switch as one logical transport" (`transport.rs:31`);
  `transports` shows that this costs one frame per sender.
- `routing.rs:79`. A prefix both allowed and excluded is valid, and its two
  routes have the same key in the kernel's table: the daemon does not start.
  `README.md:197` says that an exclusion wins "an exact-length tie".
- `routing.rs:333`. The device of an exclusion or an endpoint is found by asking the
  kernel after the device was addressed: for an exclusion whose first host is in
  the network of the tunnel's device the answer is that device, and the traffic of
  the exclusion goes into the tunnel (`RoutesConsistent` without `OffDevice`, on
  addresses of 4 bits); likewise nothing keeps the packets to an endpoint in that
  network from being sent into the tunnel (`NoLoop` without `OffDevice`). `validate` accepts both.
- `tunnel.rs:42`, `tunnel.rs:54`. Between the first route and the signal
  handlers nothing cleans up: a failing `iptables` command or a signal leaves
  routes and rules (`ExitsClean` without `failures = 0` or `early = 0`).
  `README.md:341`: "Routes and firewall rules are removed on shutdown".
- `routing.rs:108`. After a SIGKILL the endpoint's route of the dead process makes
  every later start fail (`ComesBack` without `kills = 0`), although the unit
  says `Restart=on-failure`.
- `gateway.rs:241`. When the policy has changed, `apply` deletes the old rules
  first; if a later command fails they do not come back, although the error says
  "gateway apply rolled back after a failed system change" (line 265).
- `gateway.rs:436`. A rule number found by one command is used by the next; a
  rule inserted by another service in between is deleted instead
  (`OthersUntouched` without `foreign > 0`). `README.md:274`: "deletes only rules
  carrying the matching HushWire ownership tag".
- `gateway.rs:658`. A kill between creating and writing the file of the original
  value leaves it empty, and it is taken for a record: the value is not restored
  (`ForwardingRestored` without `torn`).

## 4. Proofs

Checked by TLAPS for all values of the constants that satisfy the assumptions
named in the modules and the hypotheses named here. The inductive invariants of
`Scheduler`, `Gateway` and `Daemon` were checked with TLC on the instances of
their runs before they were proved.

- `ReplayWindowProofs`. `WindowInvariant`: `IInv` is inductive. `WindowExact`
  alone is not: the bit at distance d means something only relative to `highest`,
  so `HighestIsMax` (the highest accepted counter) is needed, and the types for
  the word arithmetic. The core is a lemma on `shift_older`: bit d of the shifted
  array is bit d - amount of the old one. `BitArrayExact` and `ImplementsFilter`
  (every step is a step of `ReplayFilter`) follow. Assumptions: positive word
  size and number of words.
- `SessionManagerProofs`. `ManagerTypes`: the type invariant is inductive by
  itself once every operation is shown to keep "at most one". `ExchangeSafe`
  (`ExchangeConsistent`): the inductive invariant `ExchangeInv` says that a
  pending exchange excludes a candidate, and that a candidate and its cached
  msg2 name the same session, with the same age while the cache lives. The ages
  are what makes it inductive: the cache may outlive no candidate because
  `CacheLifetime <= RejectAfterTime`, and the candidate's counter is 0 because it
  never sends, so it can expire by age only.
  `NoncesSafe`, `ReplaysSafe` and `LookupUnambiguous` (`NonceNeverReused`,
  `AcceptedOnce`, `SlotsDisjoint`) rest on `SessionsInv`. Neither of the first
  two is inductive alone: two sessions of a link with the same key could each
  use the nonce, so `KeysDistinct` is needed. The argument has one lemma on the
  shape of a step (every session afterwards is new with a fresh key, or descends
  from one before with the same key, no smaller counter and no smaller window)
  and one lemma for each property from that shape.
- `EngineProofs`. `EngineRefines` (`ImplementsManager`): every step of a handler
  makes at most one call of the manager, and the call is one `ManagerSpec` allows.
  The hard part is that `FinalizeSession` gets a key the link has not had. A
  repeated msg2 must not be finalized again, and only the history rules it out:
  `AnsweredOnce` says that once the initiator has had the key of a msg2, the
  exchange it answers is over, and `DrawnOK` that identifiers are never drawn
  twice; `CarriedOK` ties packets in flight, and what threads carry from one lock
  to the next, to the histories. `ResponderWaits` (`ConfirmedBeforeActive`) is a
  conjunct of the same invariant, with `SealedConfirmed` for the frames in flight.
  With the refinement, what is proved of the manager holds of the engines
  (`EngineSessionsSafe`, `EngineExchangeSafe`). Any number of nodes, threads,
  keys, restarts and packets; assumption: links come in pairs.
- `FfiRuntimeProofs`. `LifecycleSafe` (`LifecycleConsistent`), from
  `RuntimeInvariant`: the locks are held exactly by the threads at certain
  places, `active_calls` is the cardinality of the set of running calls, no call
  runs inside a start or a stop, and outside the lifecycle lock the scheduler is
  the engine's. Any finite set of threads. `StopRefuses` (`StopRefusesCalls`) has
  the hypothesis that at most one thread stops: with two it is false, as
  `ffi_stops` shows.
  `StopInv` says that `stopping` is set for as long as the stopper waits.
- `TransportProofs`. `AtMostOneLateFrame`: `OneLateFrame` for any number of
  senders and rebinds. It is inductive with `LateInv`: a sender that holds a
  socket which is no longer active has sent nothing since the rebind.
  `StreamStaysIntact` (`StreamIntact`) and `FramesAreDelivered` (the safety part of
  `ImplementsChannel`: every step of a connection is a step of `FrameChannel` or
  stutters) are for frames of any bytes, any limit of the queue and any capacity of
  the kernel. `StreamIntact` alone is not inductive: a length that does not fit in
  two bytes would be read as another one. `FramingInv` adds that the frames
  accepted are byte strings whose lengths fit, and that no more are delivered than
  accepted; while the stream is the flattened list of the encodings still awaited,
  the frame at the front of a buffer that is long enough is the next to deliver.
  `CodecIsExact`, `DeviceIsFaithful` and `StatisticsAreHonest` (`CodecExact`,
  `TunFaithful`, `StatsHonest`) follow from `PlaneInv`: what is on the network is a
  byte string, the counter is a `u64`, and what the cipher has sealed as data was
  read from the device. The lemmas
  about `to_be_bytes` and `from_be_bytes` hold for every number of byte values and
  every size. Assumptions: `ByteBase` is at least 2, payloads are byte strings, and
  the counters of the instance are values of their type.
- `SchedulerProofs`, for any list of peers. `EveryPortAnnounced` (`PortAnnounced`)
  and `YoungSessionsKept` (`FreshSessionSurvives`) need no hypothesis: `TickInv`
  adds that between the rebind and the keepalives of the same tick the socket is
  known to be new (`AboutToAnnounce`), and that a snapshot is no older than the
  session it is used for (`SeenSince`). `SilenceIsBounded` (`RecoveredInTime`) is a
  counting argument: a tick recovers only the first peer that is due, so how
  long a session is silent beyond its timeout must be *paid* for by the other
  peers tried in that time (`Tried`), of which there are one fewer than peers.
  `SilenceInv` says so with the cardinality. Hypothesis `RecoveriesApart`: at
  most one peer asks for rebinding, as `last_udp_rebind_attempt` is one rate
  limit for all and TLC finds the bound broken with two such peers; and no
  timeout is shorter, in ticks, than the list of peers, so that no peer is tried
  twice while another waits. `PolicyAssumption` is what `Config::validate`
  guarantees: a recovery timeout is longer than the keepalive, which is not 0.
- `GatewayProofs`, for any number of processes, tunnels, policies, commands, kills
  and edits by other services. `RulesInv` holds without hypotheses and gives
  `RulesNeverStack` (`OneOfEach`) and `HealthyLeftAlone` (`ApplyIsIdempotent`): it
  ties the chains to the place of the lock's holder, namely which rules of its plan
  an apply has already added, and that before it adds any no rule of another
  policy is left. `AllOrNothing` (`ApplyAllOrNothing`) has the hypothesis
  `MaxFaults <= 1`, because the errors of the rollback are ignored; `RollbackInv`
  says that what a failing first apply finds in the chains is what it has on its
  list. `ForwardingComesBack` (`ForwardingRestored`) has no hypothesis: the property
  itself excepts a torn file, and `ForwardingInv` says which of the two files exist
  at each place of the holder, what the value is then, and that the file is empty
  only between its creation and its write or when it is torn.
  `RecordsCanBeTrusted` (`RecordsTruthful`) follows from both. `OthersLeftAlone`
  (`OthersUntouched`) has no hypothesis beyond the property's own: `TagInv` adds that
  every rule an apply has on its list carries its tunnel's tag, and so does the
  rule whose number a command is about to delete, as long as no other service has
  edited a chain. Assumptions: there
  is a policy, and `Absent` is no value.
- `DaemonProofs`, for all configurations, host tables, rules and bounds. `DaemonInv`
  says for each stage of `run` and of the signal handler what the route manager
  is doing (`Stages`), that every route on the device is known to the process
  until the cleanup begins (`TunKnown`), that the rules known are the first of
  the list and in place (`FirstRules`, `RulesAdded`, `Forwarding`), that no installed
  route shares its prefix with one of the host (`HostApart`: no deletion can
  hit one), and, as long as nothing has failed, that the kernel has
  nothing else (`OnlyKnown`). It has no hypotheses and gives `RunsWhole`
  (`RunningIsWhole`). `LeavesNothingBehind` (`ExitsClean`) has the hypothesis that
  fewer `ip` children are killed than `delete_linux_route` has attempts; the
  attempts of a route never exceed the kills by more than one. Assumptions: the
  host has no route on the tunnel's device, and the rules are distinct.
  `ValidConfigurations` (`ValidIsUsable`) reads off `validate` that none of its checks
  failed: `FirstError` is `"ok"` only if every check is, and what covers a prefix
  contains each of its addresses.
  `NeverLoops` and `RoutesAgree` (`NoLoop`, `RoutesConsistent`) are for any number of
  peers, prefixes and address bits, with the hypothesis of `LeavesNothingBehind`.
  `RouteInv` says that the routes installed are the first of the plan, which lists
  the exceptions before the routes into the tunnel (`FollowsPlan`), each with a
  prefix of its own (`OnePerPrefix`); that they are in the kernel's table, but for
  the last one while its deletion is being tried again (`InPlace`); and where every
  other route in the table comes from (`Origin`). As setup goes through the plan
  forwards and cleanup backwards, an exception is there for as long as any tunnel
  route is. The kernel finds the longest prefix around an address; two prefixes of
  the same length around the same address are equal. Outside the device's network
  the connected route plays no part, and inside it the own address and the peers'
  prefixes are looked at one by one. So the exception of an
  endpoint wins against every tunnel route, and of two routes the longer is the one
  that `lookup` finds first in the sorted list. Assumptions
  (`RouteAssumption`): configurations and host tables have their types.

What a recursive function or a sorted list is, for every length, is proved without
the library's induction theorems, whose operator parameters the provers cannot
instantiate. `Least` (`DaemonProofs`) and `LeastNumber` (`TransportProofs`) give a set of
numbers its least member, from the well-foundedness of `<`; an argument by
induction looks at the least counterexample. `Recursion` says that a recursive
function satisfies its equation, and the places in a sorted list are counted with
cardinalities.

Only model-checked:

- All liveness (`StopReturns`, `Reconnects`, `ComesBack`, `BrokenIsRemoved`,
  `ReplacedIsClosed`, `UdpRebindTakesEffect`, and the liveness part of
  `ImplementsChannel`): fairness is out of the prover's reach.
- `SenderSessionHeld`. It is not true for all constants: it depends on how many
  rekeys fit in the life of a session, and a sender whose every frame is lost would
  exhaust its counter before its session expires.

`ClearedTogether`, `NoMutualYield`, `StopRefusesCalls` (with two stops) and
`PathRecovers` are refuted.

## 5. Not modelled, and the plan

Every invariant and action property that the runs find to hold is proved but the
one above. Worth doing next, in this order:

1. `NoMutualYield` where the handlers of a node do not overlap, with `Prompt` and
   distinct identifiers as explicit hypotheses.
2. What a sender whose session its peer has dropped can rely on: it learns of the
   loss within the session timeout.
3. The provider's route transitions, if the order of the framework's completions
   becomes known.

Not modelled:

- The Network Extension provider and its transport (Swift). They are driven by
  completions of a framework whose order the repository does not contain;
  `PeerEndpoint` covers what an endpoint refresh does inside the engine.
- The Noise handshake's cryptography: an external library, used by what the code
  expects of it.
- The macOS commands of `routing.rs` and `firewall.rs`, which have the structure
  of the Linux ones.
- In `ffi.rs` the conversions of pointers, strings and errors, the read-only
  queries, and poisoned locks, which need a panic inside the core.
- Command-line parsing, key generation, `doctor` and `status` output, the TOML
  syntax, logging, and the applications' user interfaces: no state of their own.
- The order in which a `HashMap` is iterated is any order.
