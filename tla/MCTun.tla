------------------------------- MODULE MCTun --------------------------------
(***************************************************************************)
(* The TUN side, for TLC: the packet runtime and its shutdown              *)
(* (TunRuntime), its TCP flows and datagrams (TunTcpFlow, TunDatagrams),   *)
(* its buffers, its configuration and its packet classifiers (TunBuffers,  *)
(* TunIntake), the route plan and the helper that carries out a smoke test *)
(* (TunHost).  A behaviour runs one part, chosen at the start, while the   *)
(* others rest in an initial state.                                        *)
(***************************************************************************)
EXTENDS TunRuntime, TLC

CONSTANTS Parts,    \* the parts this run is about
          Helpers   \* the helper processes that may run at once

VARIABLE part

-----------------------------------------------------------------------------
(* TunRuntime: queues of one slot, so that every send meets a full queue.   *)
(* The runtime has the configuration's callers and work; its shutdown has   *)
(* the callers against a device that delivers nothing and fails to read;    *)
(* when busy it has one caller, a TCP flow beside the queries, panics and   *)
(* writes that fail.                                                        *)

Symmetric == Permutations(Callers) \cup Permutations(Helpers)
Shutdown == INSTANCE TunRuntime WITH Queries <- {}, MaxPackets <- 0, Faults <- {"read"}
Busy == INSTANCE TunRuntime WITH
    Callers <- {"c1"}, Flows <- {"f1"}, Associations <- {}, Faults <- {"write", "panic"}

-----------------------------------------------------------------------------
(* TunTcpFlow: one connection with two chunks each way, so that a chunk,    *)
(* the one behind it and the FIN are on their way together.                 *)

VARIABLES tcp_entry, tcp_worker, tcp_events, tcp_opened_flows, tcp_delivered, tcp_app_sent,
          tcp_remote_sent, tcp_written
tcpflow == <<tcp_entry, tcp_worker, tcp_events, tcp_opened_flows, tcp_delivered, tcp_app_sent,
             tcp_remote_sent, tcp_written>>
Tcp == INSTANCE TunTcpFlow WITH
    entry <- tcp_entry, worker <- tcp_worker, events <- tcp_events,
    opened_flows <- tcp_opened_flows, delivered <- tcp_delivered, app_sent <- tcp_app_sent,
    remote_sent <- tcp_remote_sent, written <- tcp_written, MaxFlows <- 1, MaxChunks <- 2,
    tcp_channel_depth <- 2, event_queue_depth <- 2

-----------------------------------------------------------------------------
(* TunDatagrams: two ordinary targets and a DNS target with one socket      *)
(* fewer than that, so that limits, congestion and reaping meet exchanges   *)
(* under way; and two DNS targets, one of them congested for as long as it  *)
(* likes.                                                                   *)

VARIABLES udp_targets, udp_idle, udp_associations, udp_worker, udp_query, udp_events,
          udp_pending_dns_responses
udp == <<udp_targets, udp_idle, udp_associations, udp_worker, udp_query, udp_events,
         udp_pending_dns_responses>>
Udp == INSTANCE TunDatagrams WITH
    targets <- udp_targets, idle <- udp_idle, associations <- udp_associations,
    worker <- udp_worker, query <- udp_query, events <- udp_events,
    pending_dns_responses <- udp_pending_dns_responses, Apps <- {"a1"},
    Targets <- {"t1", "t2", "dns1"}, DnsTargets <- {"dns1"}, Queries <- {1, 2, 3},
    Congested <- {"t1", "dns1"}, max_udp_targets <- 2, max_udp_associations <- 2,
    max_dns_queries <- 1, udp_channel_depth <- 1, event_queue_depth <- 2
VARIABLES dns_targets, dns_idle, dns_associations, dns_worker, dns_query, dns_events,
          dns_pending_dns_responses
dns == <<dns_targets, dns_idle, dns_associations, dns_worker, dns_query, dns_events,
         dns_pending_dns_responses>>
Dns == INSTANCE TunDatagrams WITH
    targets <- dns_targets, idle <- dns_idle, associations <- dns_associations,
    worker <- dns_worker, query <- dns_query, events <- dns_events,
    pending_dns_responses <- dns_pending_dns_responses, Apps <- {"a1"},
    Targets <- {"dns1", "dns2"}, DnsTargets <- {"dns1", "dns2"}, Queries <- {1, 2, 3},
    Congested <- {"dns1"}, max_udp_targets <- 3, max_udp_associations <- 1, max_dns_queries <- 2,
    udp_channel_depth <- 1, event_queue_depth <- 2

-----------------------------------------------------------------------------
(* TunBuffers: queues of depth one, where every one of them is full at some *)
(* time.  Without a monitor every turn of the actor is for a packet; its    *)
(* snapshots are taken while packets come in that the engine has not polled *)
(* yet, and while packets of the engine's leave.                            *)

VARIABLES buf_q, buf_gauge, buf_todo, buf_reg, buf_seen, buf_top, buf_snap, buf_turn
buffers == <<buf_q, buf_gauge, buf_todo, buf_reg, buf_seen, buf_top, buf_snap, buf_turn>>
Buffers == INSTANCE TunBuffers WITH
    q <- buf_q, gauge <- buf_gauge, todo <- buf_todo, reg <- buf_reg, seen <- buf_seen,
    top <- buf_top, snap <- buf_snap, turn <- buf_turn, Depth <- 1

-----------------------------------------------------------------------------
(* TunIntake: the default configuration and every one that differs from it  *)
(* in up to two of the fields below, set to a value at a limit.             *)

MiB == 1024 * 1024
Day == 24 * 60 * 60 * 1000
Edges == [mtu |-> {575, 576, 1279, 1280, 65535}, ipv6_enabled |-> {FALSE}, ipv4_enabled |-> {FALSE},
          max_tcp_flows |-> {0, 1, 1024, 4097}, max_udp_targets |-> {0, 512}, packet_queue_depth |-> {0, 4096},
          event_queue_depth |-> {0, 8192}, tcp_buffer_bytes |-> {1499, 4 * MiB, 4 * MiB + 1}, udp_buffer_bytes |-> {1400},
          max_udp_payload_bytes |-> {0, 528, 548, 1453, 1472}, max_dns_payload_bytes |-> {0, 520, 548, 1453},
          connect_timeout |-> {0, Day, Day + 1}, poll_interval |-> {0, 1000, 1001}]
EdgeConfigs(d) == {d}
    \cup UNION {{[d EXCEPT ![f] = v] : v \in Edges[f]} : f \in DOMAIN Edges}
    \cup UNION {UNION {{[d EXCEPT ![f] = v, ![g] = w] : v \in Edges[f], w \in Edges[g]} :
                       g \in DOMAIN Edges \ {f}} : f \in DOMAIN Edges}

Engine == [segments |-> 4, fragmentation |-> 1500, reassembly |-> <<1, 1500>>]
Fresh(n) == [active_tasks |-> 0, peak_tasks |-> 0, buffered_bytes |-> 0, peak_buffered_bytes |-> 0, buffer_capacity_bytes |-> n]

VARIABLES take_config, take_connector, take_state, take_packet, take_enabled, take_outcome
intake == <<take_config, take_connector, take_state, take_packet, take_enabled, take_outcome>>
Plain == INSTANCE TunIntake WITH
    config <- take_config, connector <- take_connector, state <- take_state,
    packet <- take_packet, enabled <- take_enabled, outcome <- take_outcome, Configs <- {},
    Connectors <- {}, EngineBuilds <- {}, Packets <- {}, Families <- {}, Mtu <- 0

\* TLC's integers have 32 bits; the products of the others stay below that.
SomeConfigs == {c \in EdgeConfigs(Plain!default) : ~(c.max_tcp_flows = 1024 /\ c.tcp_buffer_bytes >= MiB)}
SomeConnectors ==
    {Fresh(0), Fresh(200 * MiB), [Fresh(MiB) EXCEPT !.peak_tasks = 1], [Fresh(0) EXCEPT !.active_tasks = 1]}


-----------------------------------------------------------------------------
(* Packets: lengths on both sides of every limit the parsers know.          *)

SomePackets ==
    {p \in [len : {0, 19, 20, 28, 39, 40, 48, 60, 70}, version : {4, 5, 6}, header : {16, 20, 24},
            total : {19, 20, 28, 40, 48, 60, 61}, offset : {0, 8}, more : BOOLEAN, protocol : {1, 6, 17},
            tcp_header : {16, 20, 24}, udp_len : {7, 8, 20, 60}] :
        /\ p.version # 4 => p.header = 20 /\ p.offset = 0 /\ ~p.more
        /\ p.version = 6 => p.total >= 40
        /\ p.protocol # 6 => p.tcp_header = 20
        /\ p.protocol # 17 => p.udp_len = 8}

Intake == INSTANCE TunIntake WITH
    config <- take_config, connector <- take_connector, state <- take_state,
    packet <- take_packet, enabled <- take_enabled, outcome <- take_outcome,
    Configs <- SomeConfigs, Connectors <- SomeConnectors,
    EngineBuilds <- {Engine, [Engine EXCEPT !.fragmentation = 4096]}, Packets <- SomePackets,
    Families <- {{4}, {6}, {4, 6}}, Mtu <- 60

-----------------------------------------------------------------------------
(* TunHost: plans with and without default routes, excluded routes and      *)
(* resolvers, under open and closed gates; two helpers side by side with    *)
(* two failing commands, a kill and every combination of missing gates, and *)
(* helpers whose gates all hold.                                            *)

Route(net, v4, len) == [net |-> net, v4 |-> v4, len |-> len]
Lan == Route("lan", TRUE, 24)
Default4 == Route("unspecified", TRUE, 0)
Default6 == Route("unspecified", FALSE, 0)
Wide == Route("lan", TRUE, 33)
Good == [len |-> 9, plain |-> TRUE]
SomePlans ==
    [enabled : BOOLEAN, device : {Good, [len |-> 33, plain |-> TRUE]}, include : {<< >>, <<Lan>>, <<Default4, Lan, Default6>>, <<Wide>>},
     exclude : {<< >>, <<Route("relay", TRUE, 32), Route("lan6", FALSE, 64)>>}, dns : {<< >>, <<"resolver">>}]
AllControls == {"route_exclusions", "default_route", "control_plane_bypass", "global_dns", "leak_sentry"}
SomePolicies == {{}, AllControls, AllControls \ {"leak_sentry"}, {"route_exclusions"}}

AllGates == {"operator_approved", "approved_host", "platform_supported", "privileges_confirmed",
             "proxy_vpn_conflict_checked"}

VARIABLES host_plan, host_gates, host_phase, host_todo, host_recorded, host_host, host_dev,
          host_route, host_journal, host_procs, host_runs, host_fails, host_crashes, host_missing,
          host_past
host == <<host_plan, host_gates, host_phase, host_todo, host_recorded, host_host, host_dev,
          host_route, host_journal, host_procs, host_runs, host_fails, host_crashes, host_missing,
          host_past>>
Recovery == INSTANCE TunHost WITH
    plan <- host_plan, gates <- host_gates, phase <- host_phase, todo <- host_todo,
    recorded <- host_recorded, host <- host_host, dev <- host_dev, route <- host_route,
    journal <- host_journal, procs <- host_procs, runs <- host_runs, fails <- host_fails,
    crashes <- host_crashes, missing <- host_missing, past <- host_past, Plans <- {[enabled |-> FALSE]},
    Contexts <- {{}}, Policies <- {{}}, Procs <- Helpers, Env <- {}, MaxRuns <- 2, MaxFails <- 2,
    MaxCrashes <- 1
SomeContexts ==
    {Recovery!SafetyGates} \cup {Recovery!SafetyGates \ {g} : g \in {"operator_approved", "rollback_plan_writable"}}
Host == INSTANCE TunHost WITH
    plan <- host_plan, gates <- host_gates, phase <- host_phase, todo <- host_todo,
    recorded <- host_recorded, host <- host_host, dev <- host_dev, route <- host_route,
    journal <- host_journal, procs <- host_procs, runs <- host_runs, fails <- host_fails,
    crashes <- host_crashes, missing <- host_missing, past <- host_past, Plans <- SomePlans,
    Contexts <- SomeContexts, Policies <- SomePolicies, Procs <- Helpers, Env <- AllGates,
    MaxRuns <- 2, MaxFails <- 2, MaxCrashes <- 1

-----------------------------------------------------------------------------
configured == <<take_config, take_connector, take_state>>
packets == <<take_packet, take_enabled, take_outcome>>
planned == <<host_plan, host_gates, host_phase, host_todo, host_recorded, host_host>>
helper == <<host_dev, host_route, host_journal, host_procs, host_runs, host_fails, host_crashes,
            host_missing, host_past>>
resting == <<tcpflow, udp, dns, buffers, intake, host>>

TunInit ==
    /\ part \in Parts
    /\ CASE part = "busy" -> Busy!Init [] part = "shutdown" -> Shutdown!Init [] OTHER -> Init
    /\ Tcp!Init /\ Udp!Init /\ Dns!Init /\ Buffers!Init
    /\ IF part = "config" THEN Intake!ConfigInit
       ELSE take_config = Plain!default /\ take_connector = Fresh(0) /\ take_state = "Created"
    /\ IF part = "packets" THEN Intake!PacketInit
       ELSE take_packet = [len |-> 0] /\ take_enabled = {4} /\ take_outcome = << >>
    /\ IF part = "plan" THEN Host!PlanInit ELSE Recovery!PlanInit
    /\ IF part = "helper" THEN Host!HelperInit ELSE Recovery!HelperInit

RuntimeStep ==
    /\ part \in {"runtime", "shutdown", "busy"} /\ UNCHANGED <<part, resting>>
    /\ \/ part = "runtime" /\ Next
       \/ part = "shutdown" /\ Shutdown!Next
       \/ part = "busy" /\ Busy!Next
TcpStep == part = "tcp" /\ UNCHANGED <<part, vars, udp, dns, buffers, intake, host>> /\ Tcp!Next
UdpStep ==
    /\ part \in {"udp", "dns"} /\ UNCHANGED <<part, vars, tcpflow, buffers, intake, host>>
    /\ \/ part = "udp" /\ UNCHANGED dns /\ Udp!Next
       \/ part = "dns" /\ UNCHANGED udp /\ Dns!Next
BufferStep ==
    /\ part \in {"buffers", "inbound", "outbound"}
    /\ UNCHANGED <<part, vars, tcpflow, udp, dns, intake, host>>
    /\ \/ part = "buffers" /\ Buffers!Next /\ ~Buffers!snapshot /\ ~Buffers!OtherStimulus
       \/ part = "inbound" /\ Buffers!Next /\ ~Buffers!poll_engine
       \/ part = "outbound" /\ Buffers!Next /\ ~Buffers!ReaderReceives
IntakeStep ==
    /\ part \in {"config", "packets"} /\ UNCHANGED <<part, vars, tcpflow, udp, dns, buffers, host>>
    /\ \/ part = "config" /\ UNCHANGED packets /\ Intake!ConfigNext
       \/ part = "packets" /\ UNCHANGED configured /\ Intake!PacketNext
HostStep ==
    /\ part \in {"plan", "helper", "recovery"}
    /\ UNCHANGED <<part, vars, tcpflow, udp, dns, buffers, intake>>
    /\ \/ part = "plan" /\ UNCHANGED helper /\ Host!PlanNext
       \/ part = "helper" /\ UNCHANGED planned /\ Host!HelperNext
       \/ part = "recovery" /\ UNCHANGED planned /\ Recovery!HelperNext

\* The parts that may come to rest; the actor of the datagrams and the buffers never are.
Rest ==
    /\ part \in {"runtime", "shutdown", "busy", "tcp", "config", "packets", "plan", "helper", "recovery"}
    /\ UNCHANGED <<part, vars, resting>>

TunNext == RuntimeStep \/ TcpStep \/ UdpStep \/ BufferStep \/ IntakeStep \/ HostStep \/ Rest
TunSpec == TunInit /\ [][TunNext]_<<part, vars, resting>>

\* Tokio runs every ready task and its timers; a receive, a send or a worker that
\* waits for the outside may wait for ever.  A sender that waits for room gets it.
RuntimeFairness ==
    /\ WF_vars(part = "runtime" /\ IoEnds) /\ SF_vars(part = "runtime" /\ ReaderReports)
    /\ WF_vars(part = "runtime" /\ TurnCancelled) /\ WF_vars(part = "runtime" /\ TurnTick)
    /\ WF_vars(part = "runtime" /\ TurnEvent)
    /\ WF_vars(part = "runtime" /\ (DeadlinePasses \/ TaskEnds))
    /\ \A c \in Callers : WF_vars(part = "runtime" /\ CallGoesOn(c))

\* The actor ticks; every wait of a worker is under a timeout.
TcpFairness ==
    /\ WF_tcpflow(part = "tcp" /\ Tcp!handle_event) /\ WF_tcpflow(part = "tcp" /\ Tcp!tick)
    /\ WF_tcpflow(part = "tcp" /\ Tcp!Opening(1)) /\ WF_tcpflow(part = "tcp" /\ Tcp!ReportOpen(1))
    /\ WF_tcpflow(part = "tcp" /\ Tcp!RelayEnds(1)) /\ WF_tcpflow(part = "tcp" /\ Tcp!IdleTimeout(1))
    /\ WF_tcpflow(part = "tcp" /\ Tcp!ReportDone(1))

\* The actor ticks, while the congested sockets may stay so, and takes its events; a
\* worker that can move does.
UdpFairness ==
    /\ WF_udp(part = "udp" /\ UNCHANGED udp_events /\ Udp!TurnWith(Udp!State, {"t1", "dns1"}))
    /\ WF_udp(part = "udp" /\ Udp!handle_event)
    /\ \A k \in Udp!UdpAssociationKey : SF_udp(part = "udp" /\ Udp!udp_worker(k))
    /\ WF_dns(part = "dns" /\ UNCHANGED dns_events /\ Dns!TurnWith(Dns!State, {"dns1"}))
    /\ WF_dns(part = "dns" /\ Dns!handle_event)
    /\ \A k \in Dns!UdpAssociationKey : SF_dns(part = "dns" /\ Dns!udp_worker(k))

\* A helper goes on with its commands; the operator runs the rollback as long as a
\* journal is retained.
HelperFairness ==
    \A p \in Helpers : /\ WF_helper(part = "recovery" /\ Recovery!Smoke(p) /\ Recovery!Remember)
                       /\ WF_helper(part = "recovery" /\ Recovery!Roll(p) /\ Recovery!Remember)

TunFairSpec == TunSpec /\ RuntimeFairness /\ TcpFairness /\ UdpFairness /\ HelperFairness

-----------------------------------------------------------------------------
\* What goes through the engine arrives as it was sent: a TCP connection gets the
\* chunks of its own remote, in order and before the end, the remote all of the app's;
\* a datagram's answer finds the socket it is to leave by, and its worker waits for
\* exactly that.
FlowsArriveWhole ==
    /\ part = "tcp" => Tcp!TypeOK /\ Tcp!ExactDelivery /\ Tcp!FinIsWhole /\ Tcp!UploadIsWhole
    /\ part = "udp" => Udp!TypeOK /\ Udp!ResponsesHaveTheirSocket /\ Udp!WaitsForItsResponse

\* The runtime keeps within what it set aside and what it accepts: its queues hold what
\* they may through every failure, the gauges of its buffers are exact, monotone in
\* their peaks and consistent to a reader, what starts is within 256 MiB and carries
\* its largest datagram, and the two classifiers agree on the packets they admit.
EngineWithinBounds ==
    /\ part = "runtime" => TypeOK
    /\ part = "shutdown" => Shutdown!TypeOK
    /\ part = "busy" => Busy!TypeOK
    /\ part \in {"buffers", "inbound", "outbound"} =>
           /\ Buffers!GaugesNeverWrap /\ Buffers!WithinCapacityShare /\ Buffers!GaugesAreExact
           /\ Buffers!PeakIsKept /\ Buffers!SnapshotIsConsistent
    /\ part = "config" => Intake!LargestFits /\ Intake!MemoryIsBounded
    /\ part = "packets" => Intake!AdmittedIsWelcome /\ Intake!PayloadInside /\ Intake!ClassifiersAgree

\* Whatever is changed on the host can be undone: a plan records its rollback first,
\* pins the excluded routes before it takes traffic, and its rollback restores the host
\* however often it is cut short; what a killed helper leaves has a complete journal,
\* and its preflight is the whole of what a smoke run looks at.
HostIsRestorable ==
    /\ part = "plan" => /\ Host!PlanTypeOK /\ Host!RollbackRestores /\ Host!RecordedFirst
                        /\ Host!BypassFirst /\ Host!DefaultPolicyIsNarrow
    /\ part = "helper" => Host!HelperTypeOK /\ Host!ResidueHasJournal /\ Host!PreflightIsEnough

\* A helper removes only the device that carries its identity.
OnlyOwnDeviceRemoved == Host!OnlyOwnDeviceRemoved

\* What was begun ends: a call of shutdown, a runtime whose reader failed, TCP flows and
\* their workers, associations whose worker left, a DNS answer behind a congested
\* socket, and the residue of a killed helper whose operator repeats the rollback,
\* unless the journal was lost to looks that failed.  The association is that of the target
\* whose socket may have no room.
TunFinishes ==
    (part = "recovery" => Recovery!Residue)
        ~> CASE part = "runtime" -> RuntimeSettled
             [] part = "tcp" -> Tcp!FlowsReleased
             [] part = "udp" -> Udp!Attended([app |-> "a1", target |-> "t1"])
             [] part = "dns" -> Dns!NoneHeldUp
             [] part = "recovery" -> Recovery!ResidueRecovered
             [] OTHER -> TRUE
=============================================================================
