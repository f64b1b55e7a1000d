# A TLA+ model of Maverick

Maverick is a privacy proxy. A local client accepts SOCKS5, HTTP CONNECT, DNS and TUN traffic and
carries it in authenticated tunnels (HTTP/2, WebSocket or HTTP/3) to a server, which opens the
targets, answers everything that does not authenticate like an ordinary web site, and relays. An SDK
wraps the client for applications and drives a privileged platform helper; a command line tool
generates and migrates configurations, rotates credentials and smoke-tests a TUN device.

The modules here are translated from the Rust source under `crates/`. TLC checks them on small
instances; the results about the connection pool, the replay cache, the reference client, server
admission over TLS and over QUIC, the rate limiter and the packet runtime are proved with TLAPS for
every value of the constants.
`PROJECT.json` lists components, runs, mutants, the map from definitions to source lines, findings,
hazards and theorems.

## 1. The parts and how they interact

A local request (`LocalConnect`, `UdpFlow`, `ClientLifecycle`) takes a flow permit and asks the pool
for a tunnel (`H2Pool`), which dials the server when it has to (`OuterConnect`). On the server the
connection and its requests are admitted (`ServerAdmission`, `H3Server`), the hello is authenticated
(`SessionSetup`, `RotationLint`) and checked against replays (`ReplayCache`); what does not
authenticate is answered by the fallback site (`FallbackSite`). The server applies the user's limits
(`RateLimiter`), dials the target (`TargetDial`), and both sides relay (`TunnelRelay`, `H3Relay`,
`WsRelay`) frames that were shaped, encoded and perhaps encrypted (`Shaping`, `FrameStream`,
`NoiseSession`). Packets of a TUN device take the same way through the packet runtime (`TunRuntime`,
`TunTcpFlow`, `TunDatagrams`, `TunBuffers`, `TunIntake`), on a host prepared by a plan or by the
helper (`TunHost`). Around all of it are the documents (`ConfigPolicy`, `PolicyProjection`,
`ConfigFiles`, `StoredProfile`), what a GUI is told (`GuiRuntime`) and the controller of the
platform helper (`ReferenceClient`).

What makes this code hard to test: futures dropped at any await; `select!` branches that lose; state
read before an await and used after it; leases and permits that must come back on every path;
half-closes in both directions; answers that arrive after the question was given up; processes
killed with host settings in force. The hazards of `PROJECT.json` name the lines and the properties.

## 2. The modules

Every module has the state of its component as variables, one action per handler, lock section or
stretch of code between two awaits, and its own specification `Spec`. Awaits are where other actors
move, where an operation may time out and where its future may be dropped.

### 2.1 The client

* `H2Pool` (`maverick-client/src/connection_manager.rs`). All flows share one cached connection:
  `connection` (generation, active streams, idle clock, closed flag), `next_generation`,
  `active_streams`, `shutdown`, the counters, `connect_gate` and, per task, where its `open_h2` is.
  `DropLease` is `Drop for H2ConnectionLease` and is part of every action whose code path drops a
  lease. `SharedConnection` is what the pool promises: at most one connection on offer, leases only
  on it, a fresh generation each time, nothing after shutdown. The mapping takes `current` from the
  cached connection and `held` from the tasks in lease-holding states.
* `OuterConnect` (`h2_transport.rs`, `ws_transport.rs`, `h3_transport.rs`, `browser_tls.rs`,
  `tls_distrust.rs`). A server is what it presents: a chain, whether the library's checks accept it,
  what was negotiated. The module has the carrier, pins, roots and fingerprints each configuration
  uses, the timed steps of a connect, and the classes and histograms of the counters with their
  saturation.
* `ClientLifecycle` (`lib.rs`, `dns.rs`, `http_connect.rs`, `tun_runtime.rs`). `start_client` with
  binds that fail half way, accept loops and their shared permits, panicking tasks, `shutdown` and
  drop; and what the reader of a TUN flow sees of the relay behind it, which may fail at any time.
* `LocalConnect` (`socks5.rs`, `http_connect.rs`). The bytes of a request come in any pieces; the
  handler reads them under its timeouts, opens, replies and passes on what followed the request.
* `UdpFlow` (`udp.rs`, `socks5.rs`, `tun_runtime.rs`, the server's `handle_udp_flow`). One datagram
  exchange at a time on an association, with the control connection, reopening, and late or lost
  answers.

### 2.2 The tunnels

* `TunnelStream`, `ServerRelay`, `ClientRelay`, `TunnelRelay` (`relay.rs`, `session.rs`,
  `tunnel.rs`, `frame.rs`, `grpc.rs`). Two channels of frame pieces with a window, end of stream,
  trailers and reset, and two sockets with applications that write, close, break, read or stall. A
  frame is `Pieces` pieces, so a half-received frame is a state. Each `select!` branch is an action,
  guarded as in the code. `DuplexPipe` is the promise: in each direction what is given is a prefix
  of what was taken, in order, and an end is shown only after the writer ended or the relay closed
  the flow; where the writer ended, only after all was given.
* `H3Relay` (`maverick-quiche/src/lib.rs`, `h3_channel.rs`, both `h3.rs`). Two relays, two drivers,
  the one-frame channels between them, flow control, closing that overtakes data, cancellation.
* `WsRelay` (`session.rs`, `tunnel.rs`, `server.rs`). One loop per end that awaits the branch it
  took before it selects again. A WebSocket flow has no half-close: the loop ends when either
  direction does.
* `Shaping` (`padding.rs`, `tunnel.rs`, `server.rs`). Padding, cover frames, the batcher with its
  timed flush, and the server's counters with the operator who scrapes them.
* `FrameStream` (`frame.rs`, `grpc.rs`, `noise.rs`, `socks5.rs`): encoders as functions, decoders as
  incremental readers of arbitrary cuts, checked against each other. `NoiseSession` (`noise.rs`):
  handshake and numbered ciphertexts over a path that loses, repeats and swaps.

### 2.3 The server

* `ServerAdmission` (`server.rs`, `auth_gate.rs`, `h2_acceptor.rs`). Connections and requests are
  tasks with a state each. `Accept`, `EnterSource`, `LeaveGlobal` and `LeaveSource` take
  `ConnectionLimitTracker`'s two steps apart, because one is an atomic and the other a mutex. The
  three semaphores are counts; `ReleaseStream` and `EndConn` give back what the code owns at that
  point, as dropping the permits does. `aborted` are the request tasks whose `JoinSet` was dropped
  and that tokio has yet to drop. One user stands for all: the flow semaphore is per user.
* `H3Server` (`maverick-quiche/src/lib.rs`, `h3.rs`): the UDP listener, its routes and permits, the
  hand-over of a connection to its session, and stopping.
* `ReplayCache` (`replay.rs`). A task reads the clock (`Receive`), waits for the lock, and then one
  of `RejectOutside`, `RejectCredential`, `RejectEntry`, `Insert` is `check_and_insert` with its
  cleanup. The clock moves freely, also backwards. Nonce set and entry queue are separate state, as
  in the code. `accepted` and `latest` are history.
* `SessionSetup` (`auth.rs`, `tunnel.rs`, `users.rs`): every pair of documents, with a
  TLS-terminating front or without, skewed clocks and a server restarted with another document. A
  tag is the record of what is fed to the MAC.
* `RotationLint` (`maverick-cli/src/main.rs`, `users.rs`): the rotation report against what lookup
  and client then do. The report compares full timestamps and the others whole seconds, so the clock
  has several ticks to a second; the agreement is stated up to the second that is cut.
* `TargetDial` (`relay.rs`, the egress policy of `config.rs`): address classes as arithmetic on
  octets, resolution, alternating families, the race with its delay and deadline, and the counters.
* `RateLimiter` (`server.rs`, `relay.rs`): reservations under the lock, sleeping outside it.
* `FallbackSite` (`fallback.rs`, `server.rs`): files that change, vanish or become links while they
  are served, the proxied request with its limits, its headers and its timeouts. `relinked` records
  that a link was put on the path after `canonicalize` had checked it.

### 2.4 TUN

* `TunRuntime` (`maverick-tun/src/runtime.rs`): reader and writer with their monitors, the actor,
  the workers, draining and its deadline, cleanup, several callers of `shutdown`, panics. A turn of
  the actor is a stimulus (token, tick, closed ingress, event, packet) and then the chain of handlers
  the code runs after each of them, from `reap_completed_tasks` to `should_stop`, as one action: the
  actor awaits nothing in between. The queues have any depth; the engine may take and emit any number
  of packets a turn that fit.
* `TunTcpFlow`: the connections of one address tuple through entry, socket, worker and event queue.
  `TunDatagrams`: the sockets, associations and DNS queries. `TunBuffers`: the queues and the gauges
  that every task updates one atomic at a time, with snapshots in between. `TunIntake`: the
  configuration the runtime accepts, and the classes of packets.
* `TunHost` (`maverick-core/src/tun.rs`, `maverick-cli/src/main.rs`): route plans with their gates
  and rollback; two helpers side by side, each with its smoke runs and rollbacks over one journal,
  killed between any two steps; looks at the device that fail, which the code takes for an absent
  device; and another program that removes or remakes the device. `past` is history: the identities
  no device carries any more, whether a rollback ran beside a smoke run, and whether a look failed.

### 2.5 Products

* `ReferenceClient` (`reference_client.rs`, `platform_helper_ipc.rs`). `connect`, `disconnect`,
  `check_runtime_health` and `recover` begin an operation; `at` is the await it is at. `Cancel`
  drops the future: the request stays in the pipe and its answer will meet the next operation.
  `Restart` is a new process given the helper's snapshot. The helper is external: it serves in order
  and may refuse, fail half way or answer what does not validate, but its journal is there whenever
  settings may be changed, and a well-formed snapshot tells the truth. Assumed of the caller: the
  snapshot given to `new` is taken after the helper served what the previous process asked for.
* `ConfigPolicy` (validators as conjunctions), `PolicyProjection` (`config/v2.rs` against the oracle
  of `maverick-tests`), `ConfigFiles` (links, `generate`, `migrate`, several processes of the
  command line), `StoredProfile` (`maverick-sdk/src/lib.rs`), `GuiRuntime` (tracks, readiness,
  diagnostics, a listener that ends by itself, a disconnect whose future is dropped).

## 3. The runs

The modules meet in five MC modules: `MCClient`, `MCServer`, `MCRelay`, `MCTun` and `MCProduct`. A
behaviour of one of them runs a single *part*, chosen in the initial state: one component under one
choice of its constants, while the variables of the others keep an initial value. The reachable
states of the parts add up instead of multiplying, and one run asks its question of every part. A
composite property has one conjunct per part (`part = "tcp" => ...`). The components with proofs
(`H2Pool`, `ReplayCache`, `ServerAdmission`, `ReferenceClient`, `TunRuntime`) are EXTENDed, so that
their assumptions are evaluated and their own properties are checked by name.

| run | what it checks |
|---|---|
| `h2pool` | stream gauges count leases; one connect at a time; only unleased connections are retired; the pool implements `SharedConnection` |
| `client` | a connected carrier was verified as configured; the counters add up and the summary is final; permits come back, a failed start leaves nothing, `Ok` means gone; requests are served as meant and answered once, datagrams get their own answers in order; an end of stream was announced; opens, shutdowns, connects and exchanges end |
| `server` | accepted hellos are remembered, none is replayed, refusals are due to live entries; admission over TLS and QUIC is exact; the fallback serves from inside its directory, as far as no link is put on a path it has checked, and within its bounds; reservations of rate are disjoint; dials obey the policy; an open tunnel is the same to both ends and rotation keeps service |
| `server_live` | shutdown completes, handshakes and first frames end, lost sessions and dials end, and so do fallback requests whose body has come |
| `admission_doc` | violated, see section 6 |
| `relay` | frames stay aligned; trailers and a graceful end mean a complete transfer; the flow implements `DuplexPipe`; HTTP/3 and WebSocket deliver in order and completely; what is shaped and encoded is what is decoded |
| `relay_live` | both relays end; a half-close arrives past a stalled direction; a clean close is graceful |
| `carriers_live` | over HTTP/3 the tail arrives, drivers leave, a cancellation reaches the server; WebSocket relays end or both ends are blocked in a send; a held frame is flushed |
| `h3_relay_loss` | violated, see section 6 |
| `tun` | shutdown reports `Ok` only when stopped, the DNS gauge is exact, a clean stop has a cause; flows and datagrams arrive whole and in their own socket; queues and gauges keep their bounds; plans and helper leave the host restorable; EOF drains everything; a helper removes a device only after it verified it, and only its own unless its own is gone |
| `tun_live` | the runtime settles, flows are released, nobody waits for ever, a repeated rollback recovers the residue of a killed helper unless the journal was lost to a failed look |
| `product` | a controller that shows Disconnected left nothing behind, one that shows Connected has its settings in force, errors are reported; diagnostics are true, except after a listener died and while a dropped disconnect still goes on; projection, reader and oracle agree; configuration pairs, links and profiles survive failures; nothing is overwritten or lost in silence |

### Bounds

The bounds are small and every contended resource is smaller than the number of its contenders, so
that each refusal, wait and retry happens.

* Pool: 3 tasks and 3 opens (`h2pool`, symmetric), 2 and 2 (`client`), 2 connections. Three tasks
  let one connect, one wait at the gate and one hold a stale lease; two connections let a lease
  outlive its generation. Lifecycle: 2 flows for 2 permits. Local requests: headers of up to 14
  bytes, reads of 3. UDP: 3 datagrams, an answer from a wrong peer included. Counters: 64-bit
  counters saturate at 2.
* Replay: 2 credentials, 3 nonces, times 0..4 with window 1, 2 entries, 1 credential, 2 tasks: both
  limits are reached and the window leaves the range at both ends. Admission: 3 connections of 2
  addresses, 2 requests, limits 2 / 1 / 3 / 1 / 1; HTTP/3: 3 connections. Rate limiter: 3 users, 2
  flows, 8 ticks. Sessions: all documents that differ in a setting the handshake reads; clocks one
  second apart. Rotation: half seconds 0..8. Fallback: 2 changes of the site, so that one may come
  before the check of the path and one after it; 1 in the live run.
* Relay: the part `relay` has 1 chunk each way with every fault, loss and timers at any time;
  `quiet` has 2 chunks, which tell order, loss and duplication apart, without loss and with timers
  only when nothing else can move; `foreign` adds padding, initial data and frames the other program
  may send. Window 2 and frames of 2 pieces: half-received frames and blocked senders happen.
  HTTP/3: 1 chunk up and 2 down; WebSocket: 2 chunks, buffers of 1.
* TUN: queues of depth 1. The part `shutdown` of the runtime has 2 callers against a device that
  fails to read; the part `busy` has 1 caller, a packet, a flow, a DNS query, panics and writes that
  fail; the live run has an association too. Buffers: both directions with one packet, and each
  direction alone under a monitor. TCP: one connection of a tuple with 2 chunks; datagrams: 3
  targets; helpers: 2 side by side with 2 runs between them, 2 failing commands, 1 kill. The live run has one
  caller of shutdown and one helper.
* Product: a request counter of 5 is a connect (two requests), its rollback and one more, so that a
  stale answer meets a later operation and the counter runs out inside each; 2 processes of the
  command line.

A part that may legitimately come to rest has the stuttering step `Rest` (the pool when its bounded
opens are used up, a finished relay, a stopped server); in all others TLC checks that some step is
always possible.

### Fairness

Fairness is only used by the live runs and by the liveness properties of `client`; it is weak
fairness of the code's own steps, taken by tasks tokio schedules when they are ready, and of its
timers. Peers, operators and faults are never forced to move, with four exceptions that are named
where they are stated: in the carriers' parts about delivery the endpoints read (`PeersFairness`),
in `h3_ends` a lost transport is noticed, the resolver answers or times out, and the operator of the
TUN helper repeats the rollback while a journal is retained (`HelperFairness`). Strong fairness is
assumed in two places of the TUN runtime: the reader's report and the UDP and DNS workers share a
bounded event queue with others that may fill it again, and tokio's channels serve their waiters in
order. `select!` polls its branches in random order, so that a branch that stays ready is not
starved. The wait for a fallback request's body and the wait for the server's answer to OpenTcp have
no timer in the code and none in the model: no property says that they end when the peer is silent.

### Mutants

Every property of a passing run has a mutant, and a composite one has a mutant for most of its
conjuncts: a small, plausible change of one mapped definition (a dropped guard, a missing reset, a
swapped order) under which TLC reports that property violated. They stand beside the definition they
change and have its name with a suffix (`CacheBecomes_NotQueued`).

## 4. What is proved

TLAPS checks seven modules, each for every value of the constants that satisfies the component's
named assumption; the assumptions only give the constants their types and finiteness. `H3Server` and
`RateLimiter` are instantiated by `MCServer`, not EXTENDed: their theorems are kept in the component's
module and state the assumption as a hypothesis, which `MCServer` evaluates (`TheoremsApply`).

**`H2PoolProofs`** (`PoolAssumption`). `TypeCorrect`, `ConnectExclusion` (`OneConnectAtATime`),
`LeasesExact` (`LeasesCounted`), `NothingAfterShutdown`, `RetirementIsSafe` (`RetiresOnlyUnleased`),
`Refinement` (`ImplementsSharedConnection`). The inductive invariant is `TypeOK /\ Generations /\
LeasesCounted`: the gauges alone are not inductive, because dropping a lease compares generations;
`Generations` bounds every generation in use by `next_generation`, so an installed connection is
nobody's old lease. `Kinds` sorts all steps into quiet ones and ones that take, drop or install, and
each invariant is shown once per kind.

**`ReplayCacheProofs`** (`ReplayAssumption`). `TypeCorrect`, `CacheIsConsistent`,
`AcceptedIsRemembered` (`Remembered`), `NothingReplayed` (`NoReplay`), `RefusalsAreFair`
(`RefusedByLiveEntries`). The inductive invariant adds to the types that nonce set and entry queue
agree and are finite, and `Remembered`. `NoReplay` follows in one step: a check not behind `latest`
finds the entry of a hello that is still valid, so its nonce is a duplicate. It says what the code
gives and no more: the clock is read before the lock is awaited and may be set back, so checks
behind `latest` exist, and for them the entry may have been cleaned.

**`ReferenceClientProofs`** (`NumberAssumption`). `TypeCorrect`, `StateIsHonest`
(`ControllerIsHonest`), `OutcomeIsReported` (`ErrorsAreReported`). `ControllerIsHonest` is not
inductive: whether an answer tells the truth depends on where its request was in the pipe. The
invariant is `TypeOK /\ Ordered /\ Fresh /\ Phases /\ Settled`. `Ordered`: requests are served in
the order of their ids, answers are older than every request still on its way, and no id is used
before it is given. `Fresh`: the answer to the last request made tells what the helper's journal is
now; this is where the order is needed, since nothing that could change the journal is behind that
request. `Phases`: what the operation under way has established at the await it is at. `Settled`:
the two settled states, with the pipe as it must be for them to last (a disconnected client has no
Apply still on its way).

**`ServerAdmissionProofs`** (`AdmissionAssumption`). `TypeCorrect` (`AdmissionTypeOK`) and
`AdmissionExact` (`AdmissionIsExact`): the counters and the three semaphores count exactly the tasks
that hold them, both connection caps hold, no request outlives its connection, a stopped server is
empty. The invariant is `AdmissionTypeOK /\ ConnectionsCounted /\ CountsBounded /\ PermitsExact /\
NoOrphanStream /\ AcceptedOnly`. The properties are not inductive by themselves: the atomic and the
map are updated in two steps, so what a refused or ending connection gives back must be shown to be
what it took. `CountsBounded` states the caps on the counters themselves, as the compare-exchange
and the section under the mutex keep them; `AcceptedOnly` says that only the accept loop brings
connections in and that it is over before shutdown aborts what is there. `MoveCount` says how a set
of tasks defined by their state changes in size when one task changes state; the counting lemmas
instantiate it for each counter, and an action's case is then a matter of which sets its two states
are in.

**`TunRuntimeProofs`** (`TunAssumption`). `TypeCorrect`, `StopsInOrder` (`RuntimeStopsInOrder`),
`EofDrains` (`EofDrainsEverything`, an action property). The invariant is `TypeOK /\ EgressExact /\
QueriesAsk /\ DnsGaugeExact /\ Causes /\ EndIsKnown /\ OkMeansStopped`. `EgressExact`: the egress
gauge is the queue and the packet the writer holds, so that an empty gauge means that all was written.
`Causes`: an end of the device that was seen or is in the queue of events means a reader that is done;
a drain has a cause; a writer that ended by itself left a failure behind, on record or still in the
queue. `EndIsKnown`: only the task publishes an end, before anybody hears of it. `DnsGaugeExact` needs
the workers and the queue together, since the guard of a query travels from one to the other:
`QueriesStarted`, `QueryMoved`, `EventSent` and `EventTaken` count it at each place. A turn of the
actor is too long for one step of a proof: each handler is shown to keep the type and never to undo a
failure or a drain (`Later`), `TurnShape` is the sum of a turn, and each stimulus is then a use of
`TurnKeeps`. `EofDrains` follows from the invariant after the step that leaves the loop.

**`H3Server`** (`H3Constants`). `H3PermitsAddUp` (`PermitsAddUp`) and `H3SourceLimit`
(`SourceLimit`), the two halves of `H3AdmissionIsExact`. The invariant is `TypeOK /\ PermitsAddUp /\
OnePlace /\ StopsInTurn /\ RoutesCounted`. `OnePlace`: a connection in the channel is no longer being
set up and has no session, so that its permit is counted once while it is handed from `serve` to
`serve_listener`. `StopsInTurn`: the listener aborts its sessions only after `serve` has returned, and
`serve` returns only with all tasks joined; the permits that `Abort` returns are therefore all there
are. `RoutesCounted`: a live task has its route and the limit holds of the routes, as the code counts
them; the limit on live connections follows. All steps of sessions are uses of `SessionKeeps`, those
of tasks of `TaskKeeps`, and the steps that remove routes of `JoinKeeps`.

**`RateLimiter`** (`RateConstants`). `RateShared` (`RateIsShared`) and `ReservationsDisjoint`
(`ReservationsAreDisjoint`), two of the three conjuncts of `RateIsFair`. That flows of one user pass
no more than the time since the start pays for is about a sum over its flows, which the prover cannot
induct over. The invariant avoids it: `Free` is the set of ticks up to an instant that no sleeping
flow has reserved, and the bytes passed and given up are bounded by its size. A flow that wakes or is
cancelled frees its stretch, which is as long as what it asked for and, reservations being disjoint,
is free of every other (`StretchFreed`).

Each of these invariants was model-checked before it was proved.

Only model-checked:

* all liveness (`PoolProgresses`, `RequestsEnd`, `ServerFinishes`, `FlowsEnd`, `CarriersEnd`,
  `TunFinishes`): fairness and ENABLED are beyond the prover;
* what folds, recursive functions and decoders compute (`WireIsFaithful`, the bound on the wait
  in `RateIsFair`, parts of `EngineWithinBounds`): induction over data is beyond it;
* `CountersAreHonest`, `LifecycleIsClean`, `FlowIsFaithful` and
  `ImplementsDuplexPipe`: within reach, and next in line; the last needs an invariant on the contents
  of both channels;
* the remaining composites, which are about enumerated documents, packets or address classes.

## 5. Where the model stops

* Cryptography, TLS, certificate path building, QUIC, smoltcp, h2 and tokio are external: symbolic
  or modelled from how the code uses them.
* Syntax (TOML, URI, JSON, DNS messages, metrics text) and wording are left out; field-by-field
  range checks too where no other setting depends on them.
* One user stands for all in `ServerAdmission`; the metrics listener is only in `Shaping`.
* A connection that stays up and silent is not modelled: `open_tcp_on_tunnel` has no timer for it.
* `TunTcpFlow` is checked with one connection of an address tuple (see below).
* Integer widths are kept where the code can reach them (the replay window, the request counter, the
  pool's saturating counters, buffer sizes).

## 6. Where documents and code disagree

Two disagreements are runs of the project.

* `admission_doc`. `CONFIG.md` says that `advanced.pre_auth_max_concurrent` "limits concurrent
  unauthenticated handshake and tunnel admission". An h2 connection keeps the permit it took for its
  handshake until it ends (`server.rs:587`), so established connections whose requests are all
  authenticated count too. With the setting at 1 none of a connection's requests can be admitted.
* `h3_relay_loss`. `STATUS.md` says that established relays observe transport loss "while an upload
  is blocked on a target write [...] without waiting for idle expiry". A driver whose connection is
  closed leaves only when `pending_in` is empty (`maverick-quiche/src/lib.rs:597`): with one frame
  in the channel and one pending it waits for the relay that is blocked on the write, and the relay
  ends by its idle timeout only.

Others were met while modelling. The models reproduce them and the properties are stated so as not
to deny them; no run is about them.

* `maverick-tun/src/runtime.rs:1071`: events name a TCP flow by its tuple only, so one that was
  queued before the flow was reset is applied to the next flow of that tuple.
* `maverick-tun/src/runtime.rs:733`: shutdown cancels reader and writer at once, so the first packet
  a drain wants to send is recorded as a write failure and ends the drain.
* `maverick-tun/src/runtime.rs:181`: `Stopped` is published before the live state is cleared; a
  second caller of shutdown may report a DNS gauge that has wrapped.
* `maverick-client/src/tun_runtime.rs:253`: relay tasks that were cancelled and not yet polled
  count, so that the connector may report more bytes than its capacity.
* `maverick-client/src/tun_runtime.rs:132`: the relay of a TUN flow shuts its side of the duplex
  down on an Error frame of the server and stores `relay_failed` later; a reader that polls in
  between sees an end of stream.
* `maverick-client/src/session.rs:384`: the local write side is shut down on a Close or an Error
  frame too, so that the local application reads the end of a flow that its peer did not end.
* `maverick-client/src/socks5.rs:223`: a byte on the control connection drops the exchange and keeps
  the association; the next datagram is sent before the first is answered, and answers run one
  behind.
* `maverick-client/src/udp.rs:48`: the answer to OpenUdp is awaited without a timeout.
* `maverick-quiche/src/lib.rs:599`: a driver whose relay dropped its receiver while data is readable
  does not leave when the connection closes.
* `maverick-client/src/transport.rs:88`: the oracle of `maverick-tests` does not know
  `advanced.quiche_h3`.
* `maverick-core/src/auth.rs:178`: credential ids of more than 512 bytes are accepted by validation
  and refused by the decoder.
* `maverick-cli/src/main.rs:1357`, `1599`: a device whose alias was not set is refused by every
  rollback; a rollback that runs beside a smoke run may remove its journal.
* `maverick-cli/src/main.rs:1536`, `1590`: the device is deleted by its name after its identity was
  verified; one that was put in its place in between is deleted with it.
* `maverick-cli/src/main.rs:1665`: an `ip link show` that fails is taken for an absent device, so
  that a rollback may leave the device and remove the journal.
* `maverick-server/src/users.rs:140`: credential windows are cut to whole seconds and the rotation
  report compares full timestamps; within that second the two disagree.
* `maverick-sdk/src/lib.rs:141`: the diagnostics go on to say that a listener whose task ended by
  itself is listening.
* `maverick-sdk/src/lib.rs:766`: a save puts the secrets first and the profile that refers to them
  last; one that is cut short leaves new secrets beside the old profile.
* `maverick-server/src/runtime_metrics.rs:211`: a snapshot may show cover traffic that its totals
  lack.
* `maverick-server/src/server.rs:1655`: WebSocket relays await their sends without a timer; with
  both directions full each waits for the other.
* `maverick-server/src/fallback.rs:103`, `119`: the path is checked once and then used by name: a
  link that is put on it in between is followed, and a file that grows between the length check and
  the read is sent whole.
* `maverick-server/src/server.rs:1019`: a hello is checked with the time read before the lock was
  awaited; behind a later cleanup its entry may be gone (`NoReplay` in section 4).
