---------------------------- MODULE OuterConnect ----------------------------
(***************************************************************************)
(* Connecting to the Maverick server and what the pool counts of it: the   *)
(* three carriers' dialers (h2_transport.rs with its rustls and browser    *)
(* variants, ws_transport.rs, h3_transport.rs), the certificate checks     *)
(* behind them (PinnedServerVerifier, tls_distrust.rs), and the counters   *)
(* of H2ConnectionPoolState that end in the shutdown summary.              *)
(*                                                                         *)
(* A server is what it presents to the TLS library: a chain of             *)
(* certificates, whether the library's own path and name checks accept it  *)
(* (`trusted`), and what was negotiated.  How the cached connection is     *)
(* shared is the subject of H2Pool; here it is only present or absent.     *)
(***************************************************************************)
EXTENDS Integers, Sequences, FiniteSetsExt, SequencesExt

CONSTANTS
    BrowserTls,   \* built with the browser-tls feature
    QuicheH3,     \* built with the experimental-h3 feature
    Configs,      \* the client configurations
    Peers,        \* what a server may present
    AddressCount, \* the addresses an H3 server name resolves to
    Durations,    \* connection setup times, in milliseconds
    U64_MAX,      \* where the counters saturate
    MaxInstalls   \* bound: connections installed in one behaviour

VARIABLES
    config,     \* the ClientConfig
    phase,      \* where the connect is
    pooled,     \* it was asked for by checkout_or_connect
    address,    \* H3: the resolved address being tried
    peer,       \* the server whose TLS handshake was accepted, or << >>
    expired,    \* connect_timeout_ms has passed since the connect began
    conn,       \* the last connection given to a caller, or << >>
    stats,      \* the counters of H2ConnectionPoolState
    cached,     \* the pool holds a connection
    shutdown,   \* the pool was shut down
    summary,    \* the shutdown summary, or << >>
    installed   \* connections installed so far, for MaxInstalls

attempt == <<phase, pooled, address, peer, expired>>
pool == <<stats, cached, shutdown, installed>>
vars == <<config, attempt, conn, pool, summary>>

AwaitPhases == {"tcp", "tls", "carrier", "resolve", "quic"}

-----------------------------------------------------------------------------
(* Certificates. *)

DISTRUSTED_SPKI_SHA256 == {"barred"}

\* tls_distrust: a key that cannot be read is refused as a distrusted one is.
certificate_is_allowed(cert) ==
    cert # "unreadable" /\ cert \notin DISTRUSTED_SPKI_SHA256

\* The callback only adds a refusal to what the library found.
verify(preverified, chain) ==
    /\ preverified
    /\ chain # << >>
    /\ \A cert \in ToSet(chain) : certificate_is_allowed(cert)

\* parse_cert_pin: << >> for a pin that is not a SHA-256 value.
parse_cert_pin(pin) == IF pin = "malformed" THEN << >> ELSE <<pin>>

PinMatches(pin, p) == pin = "none" \/ parse_cert_pin(pin) = <<Head(p.chain)>>

\* rustls: its own WebPKI check (which rejects the same distrusted keys).
webpki(p) == p.trusted /\ \A cert \in ToSet(p.chain) : certificate_is_allowed(cert)

\* PinnedServerVerifier: both the inner verifier and the pin must agree.
verify_server_cert(pin, p) == webpki(p) /\ PinMatches(pin, p)

\* rustls_client_config, before the handshake: the trust roots and the pin.
rustls_client_config(c) ==
    /\ c.ca_cert # "unusable"
    /\ c.cert_pin = "none" \/ parse_cert_pin(c.cert_pin) # << >>

\* tls_context and the browser connector: the trust roots only.
tls_context(c) == c.ca_cert # "unusable"

end_to_end_channel_binding_enabled(c) == c.channel_binding /\ ~c.fronting

UsesRustls(c) == c.carrier = "ws" \/ (c.carrier = "h2" /\ c.tls_fingerprint = "rustls")

\* The protocol versions offered; "none" stands for a backend that reports none.
Offered(c) == {"TLS13", "none"} \cup
              (IF UsesRustls(c) \/ c.carrier = "h3" THEN {} ELSE {"TLS12"})

\* binding: the H3 exporter asks for the negotiated protocol and TLS 1.3.
binding(p) == p.alpn = "h3" /\ p.version = "TLS13"

\* Mutant: the browser connector does not compare the pin.
Accepts_NoPin(c, p) ==
    /\ p.version \in Offered(c)
    /\ IF UsesRustls(c) THEN verify_server_cert(c.cert_pin, p)
                        ELSE verify(p.trusted, p.chain)

\* The TLS step of connect_rustls_inner, connect_browser_mimic_inner and the
\* WebSocket connect_inner up to the carrier's handshake: no await in between.
Accepts(c, p) ==
    /\ p.version \in Offered(c)
    /\ IF UsesRustls(c)
       THEN verify_server_cert(c.cert_pin, p)
       ELSE verify(p.trusted, p.chain) /\ PinMatches(c.cert_pin, p)

-----------------------------------------------------------------------------
(* Counters. *)

saturating_add(n, k) == IF n + k > U64_MAX THEN U64_MAX ELSE n + k

H2_DURATION_BUCKET_UPPER_BOUNDS_MS ==
    <<10, 25, 50, 100, 250, 500, 1000, 2500, 5000, 10000>>
H2_DURATION_BUCKET_COUNT == Len(H2_DURATION_BUCKET_UPPER_BOUNDS_MS) + 1

Versions == {"Tls12", "Tls13", "Unknown"}
Groups == {"X25519MlKem768", "X25519", "Secp256r1", "Secp384r1", "OtherOrUnknown"}

observed_outer_tls_version(p) ==
    CASE p.version = "TLS12" -> "Tls12"
      [] p.version = "TLS13" -> "Tls13"
      [] OTHER -> "Unknown"

observed_outer_tls_group(p) ==
    IF p.group \in Groups THEN p.group ELSE "OtherOrUnknown"

\* H2DurationHistogram and H2ConnectionPoolState, as far as a connect moves them.
EmptyHistogram == [count |-> 0, sum_ms |-> 0,
                   buckets |-> [i \in 1..H2_DURATION_BUCKET_COUNT |-> 0]]
EmptyStats == [connections_created |-> 0, reconnects |-> 0,
               version |-> [v \in Versions |-> 0], group |-> [g \in Groups |-> 0],
               connection_setup_duration_ms |-> EmptyHistogram]

\* Mutant: only the first bucket that holds the time is counted.
record_First(h, elapsed_ms) ==
    LET fits == {i \in 1..H2_DURATION_BUCKET_COUNT - 1 :
                    elapsed_ms <= H2_DURATION_BUCKET_UPPER_BOUNDS_MS[i]}
        hit == IF fits = {} THEN H2_DURATION_BUCKET_COUNT ELSE Min(fits)
    IN  [count |-> saturating_add(h.count, 1),
         sum_ms |-> saturating_add(h.sum_ms, elapsed_ms),
         buckets |-> [h.buckets EXCEPT ![hit] = saturating_add(@, 1)]]

\* H2DurationHistogram::record: cumulative buckets, the last one infinite.
record(h, elapsed_ms) ==
    [count |-> saturating_add(h.count, 1),
     sum_ms |-> saturating_add(h.sum_ms, elapsed_ms),
     buckets |-> [i \in 1..H2_DURATION_BUCKET_COUNT |->
        IF i = H2_DURATION_BUCKET_COUNT
           \/ elapsed_ms <= H2_DURATION_BUCKET_UPPER_BOUNDS_MS[i]
        THEN saturating_add(h.buckets[i], 1) ELSE h.buckets[i]]]

\* Mutant: the classes are counted even when connections_created is saturated.
record_installed_connection_NoGuard(s, p) ==
    [s EXCEPT !.connections_created = saturating_add(@, 1),
              !.version[observed_outer_tls_version(p)] = saturating_add(@, 1),
              !.group[observed_outer_tls_group(p)] = saturating_add(@, 1)]

record_installed_connection(s, p) ==
    IF saturating_add(s.connections_created, 1) = s.connections_created THEN s
    ELSE [s EXCEPT !.connections_created = saturating_add(@, 1),
                   !.version[observed_outer_tls_version(p)] = saturating_add(@, 1),
                   !.group[observed_outer_tls_group(p)] = saturating_add(@, 1)]

-----------------------------------------------------------------------------
Init ==
    /\ config \in Configs
    /\ phase = "idle" /\ pooled = FALSE /\ address = 0 /\ peer = << >>
    /\ expired = FALSE
    /\ conn = << >>
    /\ stats = EmptyStats /\ cached = FALSE /\ shutdown = FALSE
    /\ summary = << >>
    /\ installed = 0

Ends == phase' = "idle" /\ pooled' = FALSE /\ address' = 0 /\ peer' = << >>
        /\ expired' = FALSE

reject_retired_v1_h3(c) == c.version = 1 /\ c.experimental_h3

\* The first await of each carrier's connect_inner; "none" where it returns an
\* error before any.
FirstAwait(c) ==
    CASE c.carrier = "h3" -> IF QuicheH3 /\ tls_context(c) THEN "resolve" ELSE "none"
      [] c.carrier = "h2" /\ c.tls_fingerprint = "browser" /\ ~BrowserTls -> "none"
      [] OTHER -> "tcp"

Begin(by_pool) ==
    /\ phase = "idle"
    /\ summary = << >>
    /\ ~reject_retired_v1_h3(config)
    /\ FirstAwait(config) # "none"
    /\ phase' = FirstAwait(config) /\ pooled' = by_pool
    /\ UNCHANGED <<config, address, peer, expired, conn, pool, summary>>

\* checkout_or_connect: nothing cached, and the pool is not shut down.
ConnectPooled ==
    /\ config.carrier = "h2"
    /\ ~cached /\ ~shutdown /\ installed < MaxInstalls
    /\ Begin(TRUE)

\* transport::connect: the other carriers, and H2 outside the pool.
Connect == Begin(FALSE)

\* TCP is connected: the TLS settings are built, and the handshake begins.
TcpConnected ==
    /\ phase = "tcp"
    /\ IF IF UsesRustls(config) THEN rustls_client_config(config) ELSE tls_context(config)
       THEN phase' = "tls" /\ UNCHANGED <<pooled, address, peer, expired>>
       ELSE Ends
    /\ UNCHANGED <<config, conn, pool, summary>>

\* The server answered the handshake: it is accepted, or the connect fails.
TlsAnswered(p) ==
    /\ phase = "tls"
    /\ IF Accepts(config, p)
       THEN /\ phase' = "carrier" /\ peer' = <<p>>
            /\ UNCHANGED <<pooled, address, expired>>
       ELSE Ends
    /\ UNCHANGED <<config, conn, pool, summary>>

Connection(p, bound) == <<[peer |-> p, channel_binding |-> bound]>>

\* finish_h2_handshake and client_async: the connection is ready.  An unpooled
\* one goes to its caller; a pooled one is timed and installed first.
CarrierDone ==
    /\ phase = "carrier"
    /\ IF pooled
       THEN /\ phase' = "record"
            /\ UNCHANGED <<pooled, address, peer, expired, conn>>
       ELSE /\ Ends
            /\ conn' = Connection(peer[1], end_to_end_channel_binding_enabled(config))
    /\ UNCHANGED <<config, pool, summary>>

\* lookup_host answered: the first address is tried.
Resolved ==
    /\ phase = "resolve"
    /\ phase' = "quic" /\ address' = 1
    /\ UNCHANGED <<config, pooled, peer, expired, conn, pool, summary>>

\* connect_to: the QUIC handshake and exporter succeeded at this address; the
\* pin is compared after the loop, and a mismatch tries no other address.
QuicAnswered(p) ==
    /\ phase = "quic"
    /\ p.version \in Offered(config)
    /\ verify(p.trusted, p.chain) /\ binding(p)
    /\ Ends
    /\ conn' = IF PinMatches(config.cert_pin, p) THEN Connection(p, TRUE) ELSE conn
    /\ UNCHANGED <<config, pool, summary>>

\* This address failed: the next one, inside the same budget, or the error.
QuicFailed ==
    /\ phase = "quic"
    /\ IF address < AddressCount /\ ~expired
       THEN address' = address + 1 /\ UNCHANGED <<phase, pooled, peer, expired>>
       ELSE Ends
    /\ UNCHANGED <<config, conn, pool, summary>>

\* An await ends in an error, or the caller's task is dropped in it.
Fails ==
    /\ phase \in AwaitPhases
    /\ Ends
    /\ UNCHANGED <<config, conn, pool, summary>>

\* connect_timeout_ms passes.
Expire ==
    /\ phase \in AwaitPhases /\ ~expired
    /\ expired' = TRUE
    /\ UNCHANGED <<config, phase, pooled, address, peer, conn, pool, summary>>

\* Mutant: the budget does not cover the carrier's own handshake.
Timeout_TlsOnly ==
    /\ phase \in AwaitPhases \ {"carrier"} /\ expired
    /\ Ends
    /\ UNCHANGED <<config, conn, pool, summary>>

\* The timeout around connect_inner (or connect_to's timeout_at) fires.
Timeout ==
    /\ phase \in AwaitPhases /\ expired
    /\ Ends
    /\ UNCHANGED <<config, conn, pool, summary>>

\* record_connection_setup_duration: a lock section of its own.
RecordSetup(elapsed_ms) ==
    /\ phase = "record"
    /\ stats' = [stats EXCEPT !.connection_setup_duration_ms = record(@, elapsed_ms)]
    /\ phase' = "install"
    /\ UNCHANGED <<config, pooled, address, peer, expired, conn, cached, shutdown,
                   summary, installed>>

\* install_and_checkout: refused once the pool is shut down.
Install ==
    /\ phase = "install"
    /\ Ends
    /\ IF shutdown \/ cached THEN UNCHANGED <<conn, pool>>
       ELSE /\ stats' = record_installed_connection(
                    [stats EXCEPT !.reconnects =
                        IF stats.connections_created > 0
                        THEN saturating_add(@, 1) ELSE @], peer[1])
            /\ cached' = TRUE /\ installed' = installed + 1
            /\ conn' = Connection(peer[1], end_to_end_channel_binding_enabled(config))
            /\ UNCHANGED shutdown
    /\ UNCHANGED <<config, summary>>

\* The cached connection is retired or invalidated (see H2Pool).
Retire ==
    /\ cached
    /\ cached' = FALSE
    /\ UNCHANGED <<config, attempt, conn, stats, shutdown, summary, installed>>

Shutdown ==
    /\ ~shutdown
    /\ shutdown' = TRUE /\ cached' = FALSE
    /\ UNCHANGED <<config, attempt, conn, stats, summary, installed>>

\* H2ConnectionPoolState::shutdown_snapshot: a copy made under the lock.
shutdown_snapshot(s) == [created |-> s.connections_created, version |-> s.version,
                         group |-> s.group, reconnects |-> s.reconnects,
                         setup |-> s.connection_setup_duration_ms]

\* Mutant: the summary is taken before the flows were joined.
Summary_Early ==
    /\ shutdown /\ summary = << >>
    /\ summary' = <<shutdown_snapshot(stats)>>
    /\ UNCHANGED <<config, attempt, conn, pool>>

\* ClientHandle::shutdown: after the pool's shutdown and the join of every
\* listener and its flows, shutdown_snapshot goes into the summary.
Summary ==
    /\ shutdown /\ summary = << >> /\ phase = "idle"
    /\ summary' = <<shutdown_snapshot(stats)>>
    /\ UNCHANGED <<config, attempt, conn, pool>>

Next ==
    \/ ConnectPooled \/ Connect
    \/ TcpConnected \/ CarrierDone
    \/ \E p \in Peers : TlsAnswered(p) \/ QuicAnswered(p)
    \/ Resolved \/ QuicFailed \/ Fails \/ Expire \/ Timeout
    \/ \E ms \in Durations : RecordSetup(ms)
    \/ Install \/ Retire \/ Shutdown \/ Summary

Spec == Init /\ [][Next]_vars
-----------------------------------------------------------------------------
\* Whatever the carrier, the TLS backend and the address that answered, a
\* connection given to a caller was made with a server the TLS library trusts,
\* with no distrusted key in its chain and with the configured pin as its own
\* certificate; a retired configuration never connects; TLS 1.2 is possible
\* for the browser connector only; and the channel binding is present exactly
\* when TLS ends at the Maverick server (always on H3).
ConnectedIsVerified ==
    conn # << >> =>
        LET p == conn[1].peer IN
        /\ ~config.experimental_h3
        /\ p.trusted
        /\ \A i \in DOMAIN p.chain : p.chain[i] # "barred"
        /\ config.cert_pin # "none" => config.cert_pin = p.chain[1]
        /\ p.version = "TLS12" => config.carrier = "h2" /\ config.tls_fingerprint = "browser"
        /\ conn[1].channel_binding =
              (config.carrier = "h3" \/ (config.channel_binding /\ ~config.fronting))

Total(f) == FoldSet(LAMBDA k, acc : acc + f[k], 0, DOMAIN f)

\* CONFIG.md: the counters saturate without breaking either stored invariant.
\* The three version classes, and the five group classes, each sum to
\* connections_created, which counts every installed generation once (a
\* connection refused by a pool that was shut down meanwhile is not counted),
\* and reconnects counts all of them but the first.
ClassesPartition ==
    /\ Total(stats.version) = stats.connections_created
    /\ Total(stats.group) = stats.connections_created
    /\ stats.connections_created = Min({installed, U64_MAX})
    /\ installed > 0 => stats.reconnects = Min({installed - 1, U64_MAX})

\* The setup histogram stays cumulative through saturation: the buckets never
\* fall from one bound to the next, the last one equals the count, and every
\* installed connection was timed before it was counted.
HistogramIsCumulative ==
    LET h == stats.connection_setup_duration_ms
    IN  /\ \A i \in 1..H2_DURATION_BUCKET_COUNT - 1 : h.buckets[i] <= h.buckets[i + 1]
        /\ h.buckets[H2_DURATION_BUCKET_COUNT] = h.count
        /\ stats.connections_created <= h.count

\* The shutdown summary is the last word: no counter moves after it.
SummaryIsFinal ==
    summary # << >> =>
        /\ summary[1].created = stats.connections_created
        /\ summary[1].reconnects = stats.reconnects
        /\ summary[1].setup = stats.connection_setup_duration_ms

\* A connect ends within its budget whatever the server does or does not do,
\* on every carrier and over all resolved addresses.
ConnectEnded == phase = "idle"
=============================================================================
