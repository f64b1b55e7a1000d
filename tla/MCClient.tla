------------------------------ MODULE MCClient ------------------------------
(***************************************************************************)
(* The client beside its tunnels, for TLC: the pool of outer connections   *)
(* (H2Pool), the dialers that fill it (OuterConnect), the process around   *)
(* it (ClientLifecycle), and the requests it serves (LocalConnect,         *)
(* UdpFlow).  A behaviour runs one part, chosen at the start, while the    *)
(* others rest in an initial state: the states of the parts add up.        *)
(***************************************************************************)
EXTENDS H2Pool, Sequences, TLC

CONSTANTS Parts,   \* the parts this run is about
          Flows    \* of ClientLifecycle

VARIABLE part

\* The tasks of the pool are interchangeable: no action or safety property tells them apart.
Symmetric == Permutations(Tasks)

-----------------------------------------------------------------------------
(* OuterConnect: every server against every configuration, and the counters *)
(* of the pool up to and past their saturation.                             *)

Configs ==
    {c \in [carrier : {"h2", "ws", "h3"}, tls_fingerprint : {"rustls", "browser"},
            cert_pin : {"none", "leafA", "malformed"}, ca_cert : {"platform", "unusable"},
            channel_binding : BOOLEAN, fronting : BOOLEAN, experimental_h3 : BOOLEAN, version : {1}] :
        /\ c.carrier = "h3" => c.tls_fingerprint = "browser" /\ ~c.fronting
        /\ c.carrier = "ws" => c.fronting}

\* A server for each way of being refused, and for each library verdict.
Servers ==
    [chain : {<<"leafA", "ca">>, <<"leafB", "ca">>, <<"leafA", "barred">>, <<"leafA", "unreadable">>},
     trusted : BOOLEAN, version : {"TLS12", "TLS13"}, group : {"X25519"}, alpn : {"h3", "other"}]

PlainConfig ==
    [carrier |-> "h2", tls_fingerprint |-> "browser", cert_pin |-> "none", ca_cert |-> "platform",
     channel_binding |-> TRUE, fronting |-> FALSE, experimental_h3 |-> FALSE, version |-> 1]

GoodServers ==
    {[chain |-> <<"leafA", "ca">>, trusted |-> TRUE, version |-> c[1], group |-> c[2], alpn |-> "other"] :
        c \in {<<"TLS12", "X25519">>, <<"TLS13", "X25519MlKem768">>, <<"none", "none">>}}

VARIABLES outer_config, outer_phase, outer_pooled, outer_address, outer_peer, outer_expired,
          outer_conn, outer_stats, outer_cached, outer_shutdown, outer_summary, outer_installed
outer == <<outer_config, outer_phase, outer_pooled, outer_address, outer_peer, outer_expired,
           outer_conn, outer_stats, outer_cached, outer_shutdown, outer_summary, outer_installed>>
Outer == INSTANCE OuterConnect WITH
    config <- outer_config, phase <- outer_phase, pooled <- outer_pooled,
    address <- outer_address, peer <- outer_peer, expired <- outer_expired, conn <- outer_conn,
    stats <- outer_stats, cached <- outer_cached, shutdown <- outer_shutdown,
    summary <- outer_summary, installed <- outer_installed, BrowserTls <- TRUE, QuicheH3 <- TRUE,
    Configs <- Configs, Peers <- Servers, AddressCount <- 2, Durations <- {20}, U64_MAX <- 2,
    MaxInstalls <- 1
Counted == INSTANCE OuterConnect WITH
    config <- outer_config, phase <- outer_phase, pooled <- outer_pooled,
    address <- outer_address, peer <- outer_peer, expired <- outer_expired, conn <- outer_conn,
    stats <- outer_stats, cached <- outer_cached, shutdown <- outer_shutdown,
    summary <- outer_summary, installed <- outer_installed, BrowserTls <- TRUE, QuicheH3 <- FALSE,
    Configs <- {PlainConfig}, Peers <- GoodServers, AddressCount <- 1, Durations <- {20, 20000},
    U64_MAX <- 2, MaxInstalls <- 3

-----------------------------------------------------------------------------
(* ClientLifecycle: the listeners and the packet runtime share two permits. *)

VARIABLES client_phase, client_bound, client_listener, client_flow, client_available,
          client_runtime, client_cancelled, client_closed, client_relay, client_stream,
          client_result
lifecycle == <<client_phase, client_bound, client_listener, client_flow, client_available,
               client_runtime, client_cancelled, client_closed, client_relay, client_stream,
               client_result>>
Client == INSTANCE ClientLifecycle WITH
    phase <- client_phase, bound <- client_bound, listener <- client_listener,
    flow <- client_flow, available <- client_available, runtime <- client_runtime,
    cancelled <- client_cancelled, closed <- client_closed, relay <- client_relay,
    stream <- client_stream, result <- client_result, Configured <- <<"socks", "http">>, Flows <- Flows,
    max_concurrent_flows <- 2, max_tcp_flows <- 2
Forwarder == INSTANCE ClientLifecycle WITH
    phase <- client_phase, bound <- client_bound, listener <- client_listener,
    flow <- client_flow, available <- client_available, runtime <- client_runtime,
    cancelled <- client_cancelled, closed <- client_closed, relay <- client_relay,
    stream <- client_stream, result <- client_result, Configured <- <<"dns">>, Flows <- Flows, max_concurrent_flows <- 2,
    max_tcp_flows <- 1

-----------------------------------------------------------------------------
(* LocalConnect: well-formed requests of every address type, and each way   *)
(* the parsers refuse one.  "target" is what the request asks for.          *)

Wants(t, h) == <<[type |-> t, host |-> h]>>
V6 == <<15, 14, 0, 0, 0, 0, 0, 0, 0, 0, 0, 0, 0, 0, 0, 1>>
Socks(r, h) == [request |-> r, data |-> <<7, 8>>,
                target |-> IF h = << >> THEN << >> ELSE Wants("connect", h)]
Hello == <<5, 1, 0>>

SocksScripts ==
    {Socks(Hello \o <<5, 1, 0, 1, 10, 0, 0, 1, 0, 80>>, <<10, 0, 0, 1>>),
     Socks(<<5, 2, 2, 0, 5, 1, 0, 3, 2, 97, 98, 0, 80>>, <<97, 98>>),
     Socks(Hello \o <<5, 1, 0, 4>> \o V6 \o <<0, 80>>, V6),
     Socks(Hello \o <<5, 3, 0, 1, 0, 0, 0, 0, 0, 0>>, << >>),
     Socks(Hello \o <<5, 2, 0, 1, 10, 0, 0, 1, 0, 80>>, << >>),
     Socks(Hello \o <<5, 1, 1, 1, 10, 0, 0, 1, 0, 80>>, << >>),
     Socks(Hello \o <<5, 1, 0, 9, 10, 0, 0, 1, 0, 80>>, << >>),
     Socks(Hello \o <<5, 1, 0, 3, 0, 0, 80>>, << >>),
     Socks(Hello \o <<5, 1, 0, 3, 2, 97, 255, 0, 80>>, << >>),
     Socks(Hello \o <<4, 1, 0, 1>>, << >>), Socks(<<5, 1, 2>>, << >>), Socks(<<5, 0>>, << >>),
     Socks(<<4, 1>>, << >>)}

Line(method, authority) == <<method, " ">> \o authority \o <<" ", "HTTP/1.1">>
End == <<"CR", "LF", "CR", "LF">>
Http(r, t) == [request |-> r \o End, data |-> <<"d1", "CR", "LF", "CR", "LF">>, target |-> t]
V6Words == <<"fe80", ":", "1">>
Port80 == <<":", "80">>

HttpScripts ==
    {Http(Line("CONNECT", <<"10.0.0.1">> \o Port80), Wants("ipv4", <<"10.0.0.1">>)),
     Http(Line("CONNECT", <<"[">> \o V6Words \o <<"]">> \o Port80), Wants("ipv6", V6Words)),
     Http(Line("CONNECT", V6Words \o Port80), Wants("ipv6", V6Words)),
     Http(Line("CONNECT", <<"name">> \o Port80) \o <<"CR", "LF", "Host">>, Wants("domain", <<"name">>)),
     Http(Line("CONNECT", <<"name">>), << >>),
     Http(Line("CONNECT", <<"name", ":", "x">>), << >>),
     Http(Line("CONNECT", <<"[", "name", "]">> \o Port80), << >>),
     Http(Line("GET", <<"name">> \o Port80), << >>),
     Http(<<"CONNECT">>, << >>),
     Http(Line("CONNECT", <<"name">> \o Port80) \o [i \in 1 .. 12 |-> "Host"], Wants("domain", <<"name">>))}

\* What liveness is checked for.
FewSocks == {Socks(Hello \o <<5, 1, 0, 3, 1, 97, 0, 80>>, <<97>>), Socks(<<5, 1, 2>>, << >>)}
FewHttp == {Http(<<"CONNECT">>, << >>), Http(Line("CONNECT", <<"name">> \o Port80), Wants("domain", <<"name">>))}

VARIABLES local_kind, local_script, local_unsent, local_app, local_wire, local_buf, local_stage,
          local_need, local_request, local_replies, local_opened, local_upload
local == <<local_kind, local_script, local_unsent, local_app, local_wire, local_buf, local_stage,
           local_need, local_request, local_replies, local_opened, local_upload>>
Local == INSTANCE LocalConnect WITH
    kind <- local_kind, script <- local_script, unsent <- local_unsent, app <- local_app,
    wire <- local_wire, buf <- local_buf, stage <- local_stage, need <- local_need,
    request <- local_request, replies <- local_replies, opened <- local_opened,
    upload <- local_upload, SocksScripts <- SocksScripts, HttpScripts <- HttpScripts,
    ReadSize <- 3, MaxHeader <- 14
Slow == INSTANCE LocalConnect WITH
    kind <- local_kind, script <- local_script, unsent <- local_unsent, app <- local_app,
    wire <- local_wire, buf <- local_buf, stage <- local_stage, need <- local_need,
    request <- local_request, replies <- local_replies, opened <- local_opened,
    upload <- local_upload, SocksScripts <- FewSocks, HttpScripts <- FewHttp, ReadSize <- 3,
    MaxHeader <- 14

-----------------------------------------------------------------------------
(* UdpFlow: two senders on the host and one elsewhere; behind SOCKS without *)
(* and with bytes on the control connection, and behind the packet runtime. *)

VARIABLES udp_loop, udp_association, udp_peer, udp_current, udp_from, udp_taken, udp_up, udp_down,
          udp_half, udp_server, udp_relayed, udp_answers
udp == <<udp_loop, udp_association, udp_peer, udp_current, udp_from, udp_taken, udp_up, udp_down,
         udp_half, udp_server, udp_relayed, udp_answers>>
Udp == INSTANCE UdpFlow WITH
    loop <- udp_loop, association <- udp_association, peer <- udp_peer, current <- udp_current,
    from <- udp_from, taken <- udp_taken, up <- udp_up, down <- udp_down, half <- udp_half,
    server <- udp_server, relayed <- udp_relayed, answers <- udp_answers, Front <- "socks",
    ControlData <- FALSE, Peers <- {"p1", "p2", "far"}, Host <- {"p1", "p2"}, MaxPackets <- 3
UdpControl == INSTANCE UdpFlow WITH
    loop <- udp_loop, association <- udp_association, peer <- udp_peer, current <- udp_current,
    from <- udp_from, taken <- udp_taken, up <- udp_up, down <- udp_down, half <- udp_half,
    server <- udp_server, relayed <- udp_relayed, answers <- udp_answers, Front <- "socks",
    ControlData <- TRUE, Peers <- {"p1", "p2", "far"}, Host <- {"p1", "p2"}, MaxPackets <- 3
UdpTun == INSTANCE UdpFlow WITH
    loop <- udp_loop, association <- udp_association, peer <- udp_peer, current <- udp_current,
    from <- udp_from, taken <- udp_taken, up <- udp_up, down <- udp_down, half <- udp_half,
    server <- udp_server, relayed <- udp_relayed, answers <- udp_answers, Front <- "tun",
    ControlData <- FALSE, Peers <- {"p1", "p2", "far"}, Host <- {"p1", "p2"}, MaxPackets <- 3

-----------------------------------------------------------------------------
ClientInit ==
    /\ part \in Parts /\ Init
    /\ IF part = "forwarder" THEN Forwarder!Init ELSE Client!Init
    /\ IF part = "counters" THEN Counted!Init ELSE Outer!Init
    /\ part # "outer" => outer_config = PlainConfig
    /\ IF part = "slow" THEN Slow!Init ELSE Local!Init
    /\ part \notin {"local", "slow"} => local_script = CHOOSE s \in SocksScripts : TRUE
    /\ IF part = "udp_tun" THEN UdpTun!Init ELSE Udp!Init

PoolStep == part = "pool" /\ UNCHANGED <<part, outer, lifecycle, local, udp>> /\ Next
OuterStep == part = "outer" /\ UNCHANGED <<part, vars, lifecycle, local, udp>> /\ Outer!Next
CountedStep == part = "counters" /\ UNCHANGED <<part, vars, lifecycle, local, udp>> /\ Counted!Next
LifecycleStep ==
    /\ part \in {"lifecycle", "forwarder"} /\ UNCHANGED <<part, vars, outer, local, udp>>
    /\ \/ part = "lifecycle" /\ Client!Next
       \/ part = "forwarder" /\ Forwarder!Next
LocalStep ==
    /\ part \in {"local", "slow"} /\ UNCHANGED <<part, vars, outer, lifecycle, udp>>
    /\ \/ part = "local" /\ Local!Next
       \/ part = "slow" /\ Slow!Next
UdpStep ==
    /\ part \in {"udp", "udp_control", "udp_tun"}
    /\ UNCHANGED <<part, vars, outer, lifecycle, local>>
    /\ \/ part = "udp" /\ Udp!Next
       \/ part = "udp_control" /\ UdpControl!Next
       \/ part = "udp_tun" /\ UdpTun!Next

\* The parts that may come to rest; the others must never be stuck.
Rest == part \in {"pool", "outer", "counters", "local", "slow"}
        /\ UNCHANGED <<part, vars, outer, lifecycle, local, udp>>

ClientNext == PoolStep \/ OuterStep \/ CountedStep \/ LifecycleStep \/ LocalStep \/ UdpStep \/ Rest

all == <<part, vars, outer, lifecycle, local, udp>>
ClientSpec == ClientInit /\ [][ClientNext]_all

\* Tokio runs every ready task and its timers fire: every await of open_h2 is under a
\* timeout, the maintenance task sleeps and ticks, a connect has its budget.  Nothing
\* makes a flow start, end or be cancelled, the pool shut down or the peer hang up.
PoolFairness ==
    /\ \A t \in Tasks : WF_vars(part = "pool" /\ OpenStep(t))
    /\ WF_vars(part = "pool" /\ retire_inactive_connection)
    /\ WF_vars(part = "pool" /\ IdleTimeoutElapses)
OuterFairness ==
    /\ WF_outer(part = "outer" /\ Outer!Expire) /\ WF_outer(part = "outer" /\ Outer!Timeout)
    /\ WF_outer(part = "outer" /\ Outer!Install) /\ WF_outer(part = "outer" /\ Outer!RecordSetup(20))

\* The steps of shutdown, of the serve loops and of aborted tasks are taken.
LifecycleFairness ==
    /\ WF_lifecycle(part = "lifecycle" /\ Client!Progress)
    /\ WF_lifecycle(part = "forwarder" /\ Forwarder!Progress)

\* The handler runs when it can, its timer fires, and the server answers an OpenTcp (its
\* own dial is bounded).  The application owes nothing.  Of UDP nothing is assumed of
\* the server and the network.
RequestFairness ==
    /\ WF_local(part = "slow" /\ Slow!Handler) /\ WF_local(part = "slow" /\ Slow!RequestTimeout)
    /\ WF_local(part = "slow" /\ Slow!open_tcp_on_tunnel)
    /\ WF_udp(part = "udp" /\ Udp!Local) /\ WF_udp(part = "udp_tun" /\ UdpTun!Local)

ClientFairSpec ==
    ClientSpec /\ PoolFairness /\ OuterFairness /\ LifecycleFairness /\ RequestFairness

-----------------------------------------------------------------------------
\* A connection handed to a caller is with the server the configuration means,
\* whatever the carrier and the address that answered (OuterConnect).
ConnectedIsVerified == part = "outer" => Outer!ConnectedIsVerified

\* The pool's numbers are honest at every moment and through saturation: streams,
\* retirements and recoveries add up over every interleaving of open_h2, the TLS
\* classes partition the connections, the setup histogram stays cumulative, and
\* nothing is counted after the shutdown summary.
CountersAreHonest ==
    /\ part = "pool" => CountersAddUp
    /\ part = "counters" => Counted!ClassesPartition /\ Counted!HistogramIsCumulative /\ Counted!SummaryIsFinal

\* The client leaks nothing over its life: the flow permits add up through panics,
\* aborts and dropped futures, a failed start leaves no endpoint behind, and a
\* shutdown that reports success left no listener, task or relay.
LifecycleIsClean ==
    /\ part \in {"lifecycle", "forwarder"} => Client!PermitsAddUp
    /\ part = "lifecycle" => Client!FailedStartLeavesNothing /\ Client!OkMeansGone
    /\ part = "forwarder" => Forwarder!FailedStartLeavesNothing /\ Forwarder!OkMeansGone

\* The packet side of a flow reads an orderly end of stream only when the relay
\* returned Graceful or the server announced an end, not when the relay failed of
\* itself or was cut off by the shutdown (relay_failed).
EndOfStreamIsAnnounced == Client!EndOfStreamIsAnnounced

\* What an application asks of the client is what it gets.  However the bytes of a SOCKS
\* or HTTP CONNECT request are cut, the flow that opens is the one asked for, the tunnel
\* gets exactly what followed the request, success is said once and last, and the header
\* buffer stays within its limit.  Every datagram reaches its target whole and once, and
\* its answer goes back for that datagram to its sender; bytes on the SOCKS control
\* connection may abandon an exchange, and even then answers come in order and to the
\* one peer.
RequestsServedAsMeant ==
    /\ part \in {"local", "slow"} =>
           /\ Local!ServedAsMeant /\ Local!UploadIsWhatFollowed
           /\ Local!SuccessIsTheLastWord /\ Local!HeaderBounded
    /\ part = "udp" => Udp!RelaysWhatWasSent /\ Udp!AnswersMatch /\ Udp!PacketsAreSerialized
    /\ part = "udp_tun" => UdpTun!AnswersMatch
    /\ part = "udp_control" => UdpControl!AnswersInOrder

\* Every open_h2 returns, and a connection nobody leases is not kept for ever.
PoolProgresses == OpenReturns /\ UnleasedIsRetired

\* Nothing the client waits for can hold it for ever: a dial, a local request however
\* slow its application, an exchange of datagrams and the packet runtime's wait for its
\* UDP flow all end, and ClientHandle::shutdown returns whatever listeners and relays do.
RequestsEnd ==
    []<>(CASE part \in {"lifecycle", "forwarder"} -> Client!ShutdownReturned
           [] part = "outer" -> Outer!ConnectEnded
           [] part = "slow" -> Slow!RequestSettled
           [] part = "udp" -> Udp!NoExchange
           [] part = "udp_tun" -> UdpTun!NoOpenWait
           [] OTHER -> TRUE)
=============================================================================
