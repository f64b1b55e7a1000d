----------------------------- MODULE TunIntake ------------------------------
(***************************************************************************)
(* What the packet runtime takes in.  What start_packet_runtime accepts:   *)
(* the runtime's own configuration, the state of the connector it is       *)
(* given, and the memory both may use.  What the runtime and the core      *)
(* library make of one IP packet: a packet is what its headers say         *)
(* (version, lengths, fragment fields, protocol and the length fields of   *)
(* TCP and UDP); the parsers behind new_checked are external.              *)
(***************************************************************************)
EXTENDS Integers, Sequences, FiniteSetsExt

CONSTANTS Configs,     \* PacketRuntimeConfig values
          Connectors,  \* FlowConnectorSnapshot values
          EngineBuilds \* the sizes smoltcp may have been built with

VARIABLES config, connector, state

configVars == <<config, connector, state>>

MiB == 1024 * 1024
TCP_WORK_CHUNK == 16 * 1024

\* PacketRuntimeConfig::default; durations are milliseconds.
default == [mtu |-> 1500, ipv4_enabled |-> TRUE, ipv6_enabled |-> TRUE, max_tcp_flows |-> 128, max_udp_targets |-> 64,
            max_udp_associations |-> 64, max_dns_queries |-> 32, packet_queue_depth |-> 64, event_queue_depth |-> 256,
            tcp_buffer_bytes |-> 65536, tcp_channel_depth |-> 2, udp_buffer_bytes |-> 65536, udp_message_depth |-> 32,
            udp_channel_depth |-> 8, max_udp_payload_bytes |-> 1452, max_dns_payload_bytes |-> 1232,
            connect_timeout |-> 10000, tcp_idle_timeout |-> 300000, udp_idle_timeout |-> 60000, dns_timeout |-> 10000,
            shutdown_timeout |-> 5000, poll_interval |-> 5]

\* buffer_capacity_bytes, in the order the shares are added.
buffer_capacity_bytes(c) ==
    (4 * c.packet_queue_depth + 1) * c.mtu
    + 2 * 1500                                                \* fragmentation and reassembly
    + c.max_tcp_flows * c.tcp_buffer_bytes * 2
    + c.max_udp_targets * c.udp_buffer_bytes * 2
    + c.max_tcp_flows * (c.tcp_channel_depth + 2) * TCP_WORK_CHUNK
    + c.max_udp_associations * (c.udp_channel_depth + 1) * c.max_udp_payload_bytes
    + c.max_dns_queries * c.max_dns_payload_bytes * 2
    + c.event_queue_depth * Max({TCP_WORK_CHUNK, c.max_udp_payload_bytes})

Limits == [max_tcp_flows |-> 4096, max_udp_targets |-> 4096, max_udp_associations |-> 4096, max_dns_queries |-> 4096,
           packet_queue_depth |-> 4096, event_queue_depth |-> 16384, tcp_channel_depth |-> 64,
           udp_message_depth |-> 1024, udp_channel_depth |-> 1024]

validate_limit(value, maximum) == value # 0 /\ value <= maximum

\* Mutant: the budget of a datagram leaves room for IPv4 headers only.
DatagramFits_V4(c) == c.max_udp_payload_bytes # 0 /\ c.max_udp_payload_bytes <= c.mtu - 28
                      /\ c.max_udp_payload_bytes <= c.udp_buffer_bytes

DatagramFits(c) == c.max_udp_payload_bytes # 0 /\ c.max_udp_payload_bytes <= c.mtu - 48
                   /\ c.max_udp_payload_bytes <= c.udp_buffer_bytes

Timeouts == {"connect_timeout", "tcp_idle_timeout", "udp_idle_timeout", "dns_timeout", "shutdown_timeout", "poll_interval"}
Day == 24 * 60 * 60 * 1000

\* validate_engine_build: the engine was built with the buffer sizes counted above.
validate_engine_build(build) == build = [segments |-> 4, fragmentation |-> 1500, reassembly |-> <<1, 1500>>]

\* PacketRuntimeConfig::validate; durations are milliseconds.
validate(c, build) ==
    /\ validate_engine_build(build)
    /\ c.ipv4_enabled \/ c.ipv6_enabled
    /\ c.mtu \in (IF c.ipv6_enabled THEN 1280 ELSE 576) .. 65535
    /\ \A f \in DOMAIN Limits : validate_limit(c[f], Limits[f])
    /\ c.tcp_buffer_bytes \in c.mtu .. 4 * MiB
    /\ c.udp_buffer_bytes \in c.mtu .. 4 * MiB
    /\ DatagramFits(c)
    /\ c.max_dns_payload_bytes # 0 /\ c.max_dns_payload_bytes <= c.max_udp_payload_bytes
    /\ \A f \in Timeouts : c[f] # 0 /\ c[f] <= Day
    /\ c.poll_interval <= 1000
    /\ buffer_capacity_bytes(c) <= 256 * MiB

validate_connector_snapshot(s) ==
    /\ s.active_tasks <= s.peak_tasks
    /\ s.buffered_bytes <= s.buffer_capacity_bytes /\ s.peak_buffered_bytes <= s.buffer_capacity_bytes
    /\ s.active_tasks = 0 /\ s.peak_tasks = 0 /\ s.buffered_bytes = 0 /\ s.peak_buffered_bytes = 0

\* Mutant: each part is held to the limit by itself.
combined_fits_Each(c, s) == s.buffer_capacity_bytes <= 256 * MiB

combined_fits(c, s) == buffer_capacity_bytes(c) + s.buffer_capacity_bytes <= 256 * MiB

start_packet_runtime ==
    /\ state = "Created"
    /\ \E build \in EngineBuilds, in_runtime \in BOOLEAN :
          state' = IF ~validate(config, build) THEN "InvalidConfig"
                   ELSE IF ~in_runtime THEN "RuntimeUnavailable"
                   ELSE IF validate_connector_snapshot(connector) /\ combined_fits(config, connector) THEN "Running"
                   ELSE "InvalidConfig"
    /\ UNCHANGED <<config, connector>>

ConfigInit == config \in Configs /\ connector \in Connectors /\ state = "Created"
ConfigNext == start_packet_runtime
ConfigSpec == ConfigInit /\ [][ConfigNext]_configVars

-----------------------------------------------------------------------------
\* In a runtime that starts, everything the engine may be asked to carry fits: a UDP or
\* DNS payload of the largest size makes one packet of the MTU in every enabled family,
\* and a socket buffer holds a full packet.
LargestFits ==
    state = "Running" =>
        \A payload \in {config.max_udp_payload_bytes, config.max_dns_payload_bytes} :
            /\ payload + 8 + (IF config.ipv6_enabled THEN 40 ELSE 20) <= config.mtu
            /\ payload <= config.udp_buffer_bytes /\ config.mtu <= config.tcp_buffer_bytes

\* The memory a runtime sets aside for its own queues, sockets and work and for a fresh
\* connector stays within 256 MiB, each share counted at its largest.
MemoryIsBounded ==
    state = "Running" =>
        config.max_tcp_flows * (2 * config.tcp_buffer_bytes + (config.tcp_channel_depth + 2) * TCP_WORK_CHUNK)
        + config.max_udp_targets * 2 * config.udp_buffer_bytes + 4 * config.packet_queue_depth * config.mtu
        + config.event_queue_depth * TCP_WORK_CHUNK + connector.buffer_capacity_bytes <= 256 * MiB

-----------------------------------------------------------------------------
(* One packet.                                                              *)

CONSTANTS Packets,     \* [len, version, header, total, offset, more, protocol, tcp_header, udp_len]
          Families,    \* enabled IP versions, subsets of {4, 6}
          Mtu

VARIABLES packet, enabled, outcome

packetVars == <<packet, enabled, outcome>>

Malformed      == [kind |-> "malformed", at |-> 0]
Unsupported    == [kind |-> "unsupported", at |-> 0]
Fragment       == [kind |-> "fragment", at |-> 0]
Flow(proto, n) == [kind |-> proto, at |-> n]

-----------------------------------------------------------------------------
\* maverick-core.
classify_tcp(p, seg, base) ==
    IF seg < 20 \/ p.tcp_header < 20 \/ seg < p.tcp_header THEN Malformed ELSE Flow("tcp", base + p.tcp_header)

\* Mutant: the UDP length may reach beyond the datagram.
classify_udp_Long(p, seg, base) ==
    IF seg < 8 \/ p.udp_len < 8 THEN Malformed ELSE Flow("udp", base + 8)

\* Mutant: the payload is looked for behind a header of TCP's size.
classify_udp_Offset(p, seg, base) ==
    IF seg < 8 \/ p.udp_len < 8 \/ p.udp_len > seg THEN Malformed ELSE Flow("udp", base + 20)

classify_udp(p, seg, base) ==
    IF seg < 8 \/ p.udp_len < 8 \/ p.udp_len > seg THEN Malformed ELSE Flow("udp", base + 8)

core_classify_transport(p, seg, base) ==
    CASE p.protocol = 6         -> classify_tcp(p, seg, base)
      [] p.protocol = 17        -> classify_udp(p, seg, base)
      [] p.protocol \notin {6, 17} -> Unsupported

classify_ipv4_packet(p) ==
    IF p.len < 20 \/ p.header < 20 \/ p.len < p.header \/ p.total < p.header \/ p.total > p.len THEN Malformed
    ELSE IF p.offset # 0 \/ p.more THEN Unsupported
    ELSE core_classify_transport(p, p.total - p.header, p.header)

classify_ipv6_packet(p) ==
    IF p.len < 40 \/ p.total > p.len THEN Malformed ELSE core_classify_transport(p, p.total - 40, 40)

classify_tun_packet(p) ==
    CASE p.len = 0                              -> Malformed
      [] p.len > 0 /\ p.version = 4             -> classify_ipv4_packet(p)
      [] p.len > 0 /\ p.version = 6             -> classify_ipv6_packet(p)
      [] p.len > 0 /\ p.version \notin {4, 6}   -> Unsupported

-----------------------------------------------------------------------------
\* smoltcp's new_checked (external): the buffer holds the header and the whole packet.
Ipv4_new_checked(p) == p.len >= 20 /\ p.len >= p.header /\ p.header <= p.total /\ p.len >= p.total
Ipv6_new_checked(p) == p.len >= 40 /\ p.len >= p.total
Tcp_new_checked(p, n) == n >= 20 /\ p.tcp_header >= 20 /\ n >= p.tcp_header
Udp_new_checked(p, n) == n >= 8 /\ p.udp_len >= 8 /\ n >= p.udp_len

\* classify_transport of the runtime.
classify_transport(p, n, fragmented) ==
    CASE p.protocol = 6  -> IF Tcp_new_checked(p, n) THEN Flow("tcp", 0) ELSE Malformed
      [] p.protocol = 17 -> IF (fragmented /\ n >= 8) \/ (~fragmented /\ Udp_new_checked(p, n))
                            THEN Flow("udp", 0) ELSE Malformed
      [] p.protocol \notin {6, 17} -> Unsupported

classify_ipv4(p) ==
    IF ~Ipv4_new_checked(p) THEN Malformed
    ELSE IF p.offset # 0 THEN Fragment
    ELSE classify_transport(p, p.total - p.header, p.more)

classify_ipv6(p) == IF ~Ipv6_new_checked(p) THEN Malformed ELSE classify_transport(p, p.total - 40, FALSE)

classify_packet(p) ==
    CASE p.len > 0 /\ p.version = 4 -> classify_ipv4(p)
      [] p.len > 0 /\ p.version = 6 -> classify_ipv6(p)
      [] p.len = 0 \/ p.version \notin {4, 6} -> Malformed

\* Mutant: a later fragment is let through whatever its family.
family_enabled_Fragment(p, class) == class.kind \in {"fragment", "unsupported"} \/ p.version \in enabled

family_enabled(p, class) == class.kind = "unsupported" \/ p.version \in enabled

\* handle_packet up to device.admit: what is counted, and whether the packet goes on (the
\* flow tables and the engine are in TunTcpFlow and TunDatagrams).
handle_packet ==
    /\ outcome = << >>
    /\ LET class == IF packet.len = 0 \/ packet.len > Mtu THEN Malformed ELSE classify_packet(packet)
       IN outcome' = <<CASE class.kind = "malformed" -> "malformed"
                         [] class.kind # "malformed" /\ ~family_enabled(packet, class) -> "rejected"
                         [] class.kind = "unsupported" /\ family_enabled(packet, class) -> "unsupported"
                         [] class.kind \in {"tcp", "udp", "fragment"} /\ family_enabled(packet, class) -> "admitted">>
    /\ UNCHANGED <<packet, enabled>>

PacketInit == packet \in Packets /\ enabled \in Families /\ outcome = << >>
PacketNext == handle_packet
PacketSpec == PacketInit /\ [][PacketNext]_packetVars

-----------------------------------------------------------------------------
\* The two classifiers agree on every whole packet of either version with a proper
\* header: what one takes for a TCP or UDP flow, for malformed or for another protocol,
\* so does the other.
ClassifiersAgree ==
    LET p == packet IN
    (outcome # << >> /\ p.version \in {4, 6} /\ p.offset = 0 /\ ~p.more /\ (p.version = 4 => p.header >= 20)) =>
        classify_tun_packet(p).kind = classify_packet(p).kind

\* The payload of a flow starts inside the packet its header declares.
PayloadInside ==
    LET c == classify_tun_packet(packet) IN
    (outcome # << >> /\ c.kind \in {"tcp", "udp"}) => c.at <= packet.total /\ packet.total <= packet.len

\* Only packets of an enabled family that fit the MTU and are complete go to the engine,
\* fragments included.
AdmittedIsWelcome ==
    outcome = <<"admitted">> =>
        /\ packet.version \in enabled /\ packet.len <= Mtu /\ packet.total <= packet.len
        /\ packet.protocol \in {6, 17} \/ packet.offset # 0
=============================================================================
