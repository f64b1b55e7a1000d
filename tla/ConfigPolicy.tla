---------------------------- MODULE ConfigPolicy ----------------------------
(***************************************************************************)
(* What the two version-1 configuration documents may say:                 *)
(* ClientConfig::validate, ServerConfig::validate and the validators they  *)
(* call (maverick-core/src/config.rs, crypto.rs).                          *)
(*                                                                         *)
(* A document is a record with one field per setting.  A validator is the  *)
(* conjunction of the conditions under which it returns Ok: every failure  *)
(* is the same Error::Config and stops the load, so the order of the tests *)
(* does not show.  Strings are abstracted to what the tests tell apart     *)
(* (their length, whether they parse), timestamps to small integers.       *)
(***************************************************************************)
EXTENDS Integers, Sequences, FiniteSets

CONSTANTS BrowserTls,   \* built with the browser-tls feature
          H3Build       \* built with the experimental-h3 feature

ASSUME BuildAssumption == BrowserTls \in BOOLEAN /\ H3Build \in BOOLEAN

None == "none"

Modes == {"auto", "stable", "private"}

\* Mode::wire_id and Mode::from_wire_id: the byte a hello carries.
wire_id(mode) == CASE mode = "auto" -> 0 [] mode = "stable" -> 1 [] mode = "private" -> 2
from_wire_id(v) == IF v \in 0 .. 2 THEN <<"auto", "stable", "private">>[v + 1] ELSE None

AUTH_V1_MAX_STRING_LEN == 65535
AUTH_V1_MAX_CREDENTIAL_ID_LEN == 512
AUTH_V2_MAX_CREDENTIAL_HINT_LEN == 512
DEFAULT_MAX_FRAME_SIZE == 65536
MAX_NEGOTIATED_FRAME_SIZE == 1048576
MAX_REPLAY_WINDOW_SECS == 86400

(***************************************************************************)
(* Parts both documents share.                                             *)
(***************************************************************************)

\* The front of advanced.stealth.cdn_fronting, off by default.
FrontDefault == [enabled |-> FALSE, carrier |-> "ws", trusted |-> FALSE]

websocket_enabled(front) == front.enabled /\ front.carrier = "ws"
h2_enabled(front) == front.enabled /\ front.carrier = "h2"

\* CdnFrontingConfig::validate.
front_validate(front, cloudflare_ws) ==
    /\ cloudflare_ws => front.enabled /\ front.carrier = "ws"
    /\ front.enabled => front.trusted

\* cloudflare_ws_enabled and tls_terminating_fronting_enabled of either side.
cloudflare_ws_enabled(c) == c.experimental_cloudflare_ws \/ websocket_enabled(c.front)
tls_terminating_fronting_enabled(c) == c.experimental_cloudflare_ws \/ c.front.enabled

\* StealthConfig::validate; the server is asked with mimic_supported = FALSE.
stealth_validate(c, mode, mimic_supported) ==
    /\ c.tls_fingerprint = "browser" => mimic_supported
    /\ (mode = "private" \/ c.front.enabled) => c.active_probe_resistance
    /\ front_validate(c.front, c.experimental_cloudflare_ws)

\* Mutant: the Noise suite is registered as experimental before it can run.
SuiteStatus_Noise(suite) ==
    CASE suite = "tls13" -> "stable" [] suite = "noise_xx25519_chacha_poly_v1" -> "experimental" [] OTHER -> "disabled"

\* CryptoPolicyConfig::validate.  Every suite of the registry but tls13 is
\* disabled, so only the list <<"tls13">> is accepted, and require_experimental
\* never is.
SuiteStatus(suite) == IF suite = "tls13" THEN "stable" ELSE "disabled"
crypto_validate(crypto, mode) ==
    /\ crypto.offered_suites # << >>
    /\ mode = "stable" => ~crypto.allow_experimental /\ ~crypto.require_experimental
    /\ crypto.require_experimental => crypto.allow_experimental
    /\ \A i, j \in DOMAIN crypto.offered_suites :
           crypto.offered_suites[i] = crypto.offered_suites[j] => i = j
    /\ \E i \in DOMAIN crypto.offered_suites : crypto.offered_suites[i] = "tls13"
    /\ \A i \in DOMAIN crypto.offered_suites :
           \/ SuiteStatus(crypto.offered_suites[i]) = "stable"
           \/ SuiteStatus(crypto.offered_suites[i]) = "experimental" /\ crypto.allow_experimental
    /\ crypto.require_experimental =>
           \E i \in DOMAIN crypto.offered_suites : SuiteStatus(crypto.offered_suites[i]) = "experimental"

CryptoDefault == [offered_suites |-> <<"tls13">>, allow_experimental |-> FALSE,
                  require_experimental |-> FALSE]

\* ShapingConfig, its defaults and its validator.  The ratio is in percent.
ShapingDefault == [enabled |-> FALSE, max_padding |-> 256, ratio |-> 25, max_delay_ms |-> 20,
                   max_batch |-> 65536, cover |-> FALSE, approved |-> FALSE, window_ms |-> 1000]
shaping_validate(s) ==
    /\ s.max_padding > 0
    /\ s.ratio \in 0 .. 100
    /\ s.max_delay_ms <= 1000
    /\ s.max_batch \in 1 .. 1048576
    /\ s.cover => s.enabled /\ s.approved
    /\ s.window_ms \in 1 .. 60000

\* LogConfig::validate.
log_validate(log) == log.level # "" /\ log.redact
LogDefault == [level |-> "info", redact |-> TRUE]

\* AuthChannelBindingConfig::validate and validate_transport_support.
binding_validate(b) == b.require => b.enabled
BindingDefault == [enabled |-> TRUE, require |-> FALSE]
validate_transport_support(b, fronting, h3) == b.require => ~fronting /\ ~h3

validate_auth_v1_string_len(len) == len <= AUTH_V1_MAX_STRING_LEN
validate_auth_v2_credential_hint_len(len) == len <= AUTH_V2_MAX_CREDENTIAL_HINT_LEN

\* validate_quiche_h3, reject_retired_v1_h3 and validate_experimental_ech.
validate_quiche_h3(enabled, fronting) == enabled => H3Build /\ ~fronting
reject_retired_v1_h3(c) == ~c.experimental_h3
validate_experimental_ech(c) == ~c.experimental_ech

\* SecretString::validate: the mv1_ prefix and at least 32 decoded bytes.
secret_validate(secret) == secret # "short"

\* A path is its length and whether it starts with a slash.
path_validate(path) == path.slash /\ path.len > 0 /\ validate_auth_v1_string_len(path.len)
PathDefault == [slash |-> TRUE, len |-> 7]

\* validate_loopback_listener, for a listener that is off, bound to loopback,
\* bound elsewhere, or enabled without an address.
listener_validate(l, allow_non_loopback) ==
    l # "missing" /\ (l = "open" => allow_non_loopback)

(***************************************************************************)
(* Credentials.  An id is known by its length; -1 is a timestamp that is   *)
(* not RFC 3339.                                                           *)
(***************************************************************************)
id_len(id) == CASE id = "" -> 0 [] id = "long" -> 600 [] id = "huge" -> 70000 [] OTHER -> 8

id_validate(id) == id # "" /\ validate_auth_v1_string_len(id_len(id))

Parses(timestamp) == timestamp >= 0
NoNext == [id |-> None, secret |-> "s0", not_before |-> 0]

\* parse_auth_epoch.
Epochs == {"1", "2"}
parse_auth_epoch(e) == e \in Epochs

\* ClientNextCredentialConfig::validate and ClientCredentialRotationConfig::validate.
next_validate(next) == id_validate(next.id) /\ secret_validate(next.secret) /\ Parses(next.not_before)
rotation_validate(c) ==
    /\ c.active_epoch # ""
    /\ c.next_credential_id # None => id_validate(c.next_credential_id)
    /\ c.next # NoNext =>
           /\ next_validate(c.next)
           /\ c.next.id # c.credential_id
           /\ c.next_credential_id \in {None, c.next.id}
    /\ c.auto_switch => c.next # NoNext

\* AuthV2Config::validate_client.
v2_validate_client(c) ==
    /\ c.v2.require => c.v2.enabled
    /\ c.v2.enabled =>
           /\ \A id \in {c.credential_id, c.next_credential_id, c.next.id} :
                  validate_auth_v2_credential_hint_len(id_len(id))
           /\ parse_auth_epoch(c.active_epoch)

\* AuthV2Config::validate_server: a server that enables Auth v2 requires it.
v2_validate_server(v2) ==
    /\ v2.require => v2.enabled
    /\ v2.enabled =>
           /\ v2.require
           /\ Len(v2.accepted_epochs) \in 1 .. 8
           /\ \A i, j \in DOMAIN v2.accepted_epochs :
                  v2.accepted_epochs[i] = v2.accepted_epochs[j] => i = j

\* PreviousCredentialConfig::validate, NextCredentialConfig::validate and
\* UserCredentialRotationConfig::validate_for_user.
previous_validate(p) ==
    /\ id_validate(p.id) /\ secret_validate(p.secret)
    /\ Parses(p.not_before) /\ Parses(p.not_after) /\ p.not_before < p.not_after
validate_for_user(user) ==
    LET ids == {user.id} \cup {user.previous[i].id : i \in DOMAIN user.previous}
    IN  /\ Len(user.previous) <= 4
        /\ \A i \in DOMAIN user.previous : previous_validate(user.previous[i])
        /\ Cardinality(ids) = 1 + Len(user.previous)
        /\ user.next # NoNext => /\ id_validate(user.next.id) /\ Parses(user.next.not_before)
                                 /\ user.next.id \notin ids

\* The user part of ServerConfig::validate; -1 is an option that is absent.
user_validate(user, v2_enabled) ==
    /\ id_validate(user.id) /\ secret_validate(user.secret)
    /\ user.rate_limit # 0 /\ user.max_concurrent_flows # 0
    /\ validate_for_user(user)
    /\ v2_enabled =>
           \A id \in {user.id, user.next.id} \cup {user.previous[i].id : i \in DOMAIN user.previous} :
               validate_auth_v2_credential_hint_len(id_len(id))

(***************************************************************************)
(* The client document.                                                    *)
(***************************************************************************)
default_client_stealth == IF BrowserTls THEN "browser" ELSE "rustls"

ClientDefault ==
    [version |-> 1, mode |-> "auto", secret |-> "s1", path |-> PathDefault, credential_id |-> "a",
     cert_pin |-> None, binding |-> BindingDefault, v2 |-> [enabled |-> FALSE, require |-> FALSE],
     active_epoch |-> None, next_credential_id |-> None, auto_switch |-> FALSE, next |-> NoNext,
     socks |-> "loopback", dns |-> "off", http_connect |-> "off",
     allow_non_loopback_listeners |-> FALSE, connect_timeout_ms |-> 10000,
     idle_timeout_secs |-> 300, max_concurrent_flows |-> 256, udp_idle_timeout_ms |-> 30000,
     shaping |-> ShapingDefault, log |-> LogDefault, experimental_h3 |-> FALSE,
     quiche_h3 |-> FALSE, experimental_cloudflare_ws |-> FALSE, front |-> FrontDefault,
     tls_fingerprint |-> default_client_stealth, active_probe_resistance |-> TRUE,
     experimental_ech |-> FALSE, experimental_tun |-> FALSE,
     ech_fallback_policy |-> "fail_closed", crypto |-> CryptoDefault]

\* ClientAdvancedConfig::validate.
client_advanced_validate(c) ==
    /\ c.mode = "private" => c.ech_fallback_policy # "allow_plain_sni" /\ c.tls_fingerprint # "rustls"
    /\ c.mode = "stable" => ~tls_terminating_fronting_enabled(c) /\ ~c.experimental_tun
    /\ tls_terminating_fronting_enabled(c) => ~c.experimental_h3
    /\ c.tls_fingerprint = "browser" => ~cloudflare_ws_enabled(c)
    /\ validate_experimental_ech(c)
    /\ stealth_validate(c, c.mode, BrowserTls)
    /\ crypto_validate(c.crypto, c.mode)

\* ClientConfig::validate.
client_validate(c) ==
    /\ c.version = 1
    /\ reject_retired_v1_h3(c)
    /\ validate_quiche_h3(c.quiche_h3, tls_terminating_fronting_enabled(c))
    /\ c.quiche_h3 => c.tls_fingerprint = "browser" /\ c.dns = "off" /\ ~c.experimental_tun
    /\ log_validate(c.log) /\ secret_validate(c.secret)
    /\ path_validate(c.path)
    /\ id_validate(c.credential_id)
    /\ binding_validate(c.binding) /\ rotation_validate(c) /\ v2_validate_client(c)
    /\ c.cert_pin # "malformed"
    /\ listener_validate(c.socks, c.allow_non_loopback_listeners)
    /\ c.connect_timeout_ms # 0 /\ c.idle_timeout_secs # 0
    /\ c.max_concurrent_flows # 0 /\ c.udp_idle_timeout_ms # 0
    /\ shaping_validate(c.shaping)
    /\ client_advanced_validate(c)
    /\ validate_transport_support(c.binding, tls_terminating_fronting_enabled(c), c.experimental_h3)
    /\ listener_validate(c.dns, c.allow_non_loopback_listeners)
    /\ listener_validate(c.http_connect, c.allow_non_loopback_listeners)

\* select_client_credential_at_unix.
select_client_credential(c, now) ==
    IF c.auto_switch /\ c.next # NoNext /\ now >= c.next.not_before
    THEN [id |-> c.next.id, secret |-> c.next.secret]
    ELSE [id |-> c.credential_id, secret |-> c.secret]

(***************************************************************************)
(* The server document.  unset is the set of the counters and windows of   *)
(* ServerAdvancedConfig and of the replay cache that are zero.             *)
(***************************************************************************)
UserDefault == [id |-> "a", secret |-> "s1", enabled |-> TRUE, rate_limit |-> -1,
                max_concurrent_flows |-> -1, previous |-> << >>, next |-> NoNext]

ServerDefault ==
    [version |-> 1, mode |-> "auto", path |-> PathDefault, replay_window_secs |-> 120,
     max_concurrent_flows_per_user |-> 256, users |-> <<UserDefault>>, binding |-> BindingDefault,
     v2 |-> [enabled |-> FALSE, require |-> FALSE, accepted_epochs |-> << >>],
     dns_timeout_ms |-> 5000, metrics |-> "off", unset |-> {}, idle_timeout_secs |-> 300,
     tcp_connect_timeout_ms |-> 10000, handshake_timeout_ms |-> 10000,
     max_frame_size |-> DEFAULT_MAX_FRAME_SIZE, udp_idle_timeout_ms |-> 30000,
     shaping |-> ShapingDefault, log |-> LogDefault, experimental_h3 |-> FALSE,
     quiche_h3 |-> FALSE, experimental_cloudflare_ws |-> FALSE, front |-> FrontDefault,
     tls_fingerprint |-> "rustls", active_probe_resistance |-> TRUE,
     experimental_ech |-> FALSE, crypto |-> CryptoDefault]

\* ServerAdvancedConfig::validate.
server_advanced_validate(c) ==
    /\ c.unset = {}
    /\ c.mode = "stable" => ~tls_terminating_fronting_enabled(c) /\ ~c.experimental_h3
    /\ validate_experimental_ech(c)
    /\ stealth_validate(c, c.mode, FALSE)
    /\ crypto_validate(c.crypto, c.mode)

\* ServerConfig::validate.
server_validate(c) ==
    /\ c.version = 1
    /\ reject_retired_v1_h3(c)
    /\ validate_quiche_h3(c.quiche_h3, tls_terminating_fronting_enabled(c))
    /\ log_validate(c.log)
    /\ path_validate(c.path)
    /\ c.replay_window_secs \in 1 .. MAX_REPLAY_WINDOW_SECS
    /\ c.max_concurrent_flows_per_user # 0
    /\ c.users # << >>
    /\ binding_validate(c.binding) /\ v2_validate_server(c.v2)
    /\ \A i \in DOMAIN c.users : user_validate(c.users[i], c.v2.enabled)
    /\ c.dns_timeout_ms # 0
    /\ c.metrics # "open"
    /\ c.idle_timeout_secs # 0 /\ c.tcp_connect_timeout_ms # 0 /\ c.handshake_timeout_ms # 0
    /\ c.max_frame_size \in DEFAULT_MAX_FRAME_SIZE .. MAX_NEGOTIATED_FRAME_SIZE
    /\ c.udp_idle_timeout_ms # 0
    /\ shaping_validate(c.shaping)
    /\ server_advanced_validate(c)
    /\ validate_transport_support(c.binding, tls_terminating_fronting_enabled(c), c.experimental_h3)

-----------------------------------------------------------------------------
(***************************************************************************)
(* What follows from a version-1 document before a connection exists: the  *)
(* projection of a client document into the config-v2 policy               *)
(* (maverick-core/src/config/v2.rs), the carrier the client opens          *)
(* (maverick-client/src/transport.rs), and what the independent oracle of  *)
(* maverick-tests/src/v1_effective_behavior.rs derives for either side.    *)
(***************************************************************************)

\* The first of the tests, in the order of the code, that fails.
FirstFailure(tests) ==
    LET failing == {i \in DOMAIN tests : tests[i][1]}
    IN  IF failing = {} THEN None ELSE tests[CHOOSE i \in failing : \A j \in failing : i <= j][2]

NoFront == [present |-> FALSE, provider |-> "empty", trusted |-> "empty"]

----------------------------------------------------------------------------
(* The projection and the carrier.                                          *)

\* Mutant: a fronted H2 client is projected to the front route, without the
\* details of the front.
project_v1_client_policy_Fronted(c) ==
    LET blocker == FirstFailure(
            << <<~client_validate(c), "InvalidSourceConfig">>,
               <<c.mode = "stable", "StableMode">>, <<c.mode = "private", "PrivateMode">>,
               <<c.experimental_h3 \/ c.quiche_h3, "H3Configured">>,
               <<cloudflare_ws_enabled(c), "WebSocketConfigured">>,
               <<c.shaping.enabled, "EnabledTrafficShaping">> >>)
    IN  IF blocker # None THEN [error |-> blocker]
        ELSE [error |-> None, security |-> "standard", transport |-> "h2", route |-> IF c.front.enabled THEN "front" ELSE "direct",
              front |-> NoFront, name_privacy |-> "plain_sni", shaping |-> "disabled"]

\* Mutant: shaping does not block the projection.
project_v1_client_policy_Shaped(c) ==
    LET blocker == FirstFailure(
            << <<~client_validate(c), "InvalidSourceConfig">>,
               <<c.mode = "stable", "StableMode">>, <<c.mode = "private", "PrivateMode">>,
               <<c.experimental_h3 \/ c.quiche_h3, "H3Configured">>,
               <<cloudflare_ws_enabled(c), "WebSocketConfigured">>,
               <<tls_terminating_fronting_enabled(c), "TlsTerminatingFrontConfigured">> >>)
    IN  IF blocker # None THEN [error |-> blocker]
        ELSE [error |-> None, security |-> "standard", transport |-> "h2", route |-> "direct",
              front |-> NoFront, name_privacy |-> "plain_sni", shaping |-> "disabled"]

project_v1_client_policy(c) ==
    LET blocker == FirstFailure(
            << <<~client_validate(c), "InvalidSourceConfig">>,
               <<c.mode = "stable", "StableMode">>, <<c.mode = "private", "PrivateMode">>,
               <<c.experimental_h3 \/ c.quiche_h3, "H3Configured">>,
               <<cloudflare_ws_enabled(c), "WebSocketConfigured">>,
               <<tls_terminating_fronting_enabled(c), "TlsTerminatingFrontConfigured">>,
               <<c.shaping.enabled, "EnabledTrafficShaping">> >>)
    IN  IF blocker # None THEN [error |-> blocker]
        ELSE [error |-> None, security |-> "standard", transport |-> "h2", route |-> "direct",
              front |-> NoFront, name_privacy |-> "plain_sni", shaping |-> "disabled"]

legacy_default_transport_kind(c) == IF cloudflare_ws_enabled(c) THEN "ws" ELSE "h2"

\* default_transport_decision and default_transport_kind.
default_transport_kind(c) ==
    IF c.quiche_h3 THEN "h3"
    ELSE LET projection == project_v1_client_policy(c)
         IN  IF projection.error = None /\ projection.transport = "h2" THEN "h2"
             ELSE legacy_default_transport_kind(c)

----------------------------------------------------------------------------
(* The oracle: what evaluate_client derives from a validated document.      *)

configured_channel_binding(b) ==
    IF ~b.enabled THEN "disabled" ELSE IF b.require THEN "required" ELSE "opportunistic"

channel_binding_candidate(carrier, fronted, configured) ==
    CASE configured = "disabled"         -> "disabled_by_policy"
      [] configured # "disabled" /\ (fronted \/ carrier # "h2") -> "unavailable"
      [] OTHER                           -> IF configured = "required" THEN "exporter_required"
                                            ELSE "exporter_candidate"

shaping_facts(mode, s) ==
    LET effective == s.enabled /\ mode # "stable"
        cover == effective /\ s.cover /\ s.approved
    IN  [effective |-> effective,
         padding |-> IF ~effective THEN "disabled" ELSE IF mode = "auto" THEN "auto_capped" ELSE "private",
         cover |-> cover,
         cover_budget |-> IF ~cover THEN "disabled" ELSE IF s.ratio = 0 THEN "never" ELSE "conditional"]

FRAME_HEADER_LEN == 14

\* client_shaping: a batch no larger than the frame header holds no frame.
client_shaping(c) ==
    [facts |-> shaping_facts(c.mode, c.shaping),
     batching |-> IF ~shaping_facts(c.mode, c.shaping).effective \/ c.shaping.max_delay_ms = 0 THEN "disabled"
                  ELSE IF c.shaping.max_batch <= FRAME_HEADER_LEN THEN "no_eligible_frame" ELSE "single_call"]

\* client_carrier_security, with the trust route trust_route assumes.
client_carrier_security(c, carrier, fingerprint) ==
    [carrier |-> carrier,
     route |-> IF tls_terminating_fronting_enabled(c) THEN "front" ELSE "direct",
     tls |-> IF carrier = "h2" THEN fingerprint ELSE "rustls",
     ech_grease |-> carrier = "h2" /\ fingerprint = "browser",
     binding |-> channel_binding_candidate(carrier, tls_terminating_fronting_enabled(c),
                                           configured_channel_binding(c.binding))]

\* Mutant: the oracle forgets that a legacy mode blocks the projection.
evaluate_client_AnyMode(c) ==
    LET policy_carrier == CASE cloudflare_ws_enabled(c)                       -> "fronted_ws"
                            [] ~cloudflare_ws_enabled(c) /\ h2_enabled(c.front) -> "fronted_h2"
                            [] OTHER                                          -> "h2_only"
    IN  [carrier |-> policy_carrier,
         security |-> IF policy_carrier = "fronted_ws"
                      THEN client_carrier_security(c, "ws", "rustls")
                      ELSE client_carrier_security(c, "h2", c.tls_fingerprint),
         sends |-> IF c.v2.enabled THEN "v2" ELSE "v1",
         shaping |-> client_shaping(c),
         blockers |-> {b \in {"carrier", "shaping", "mode"} :
                         \/ b = "carrier" /\ (c.experimental_h3 \/ cloudflare_ws_enabled(c))
                         \/ b = "shaping" /\ client_shaping(c).facts.effective}]

evaluate_client(c) ==
    LET policy_carrier == CASE cloudflare_ws_enabled(c)                       -> "fronted_ws"
                            [] ~cloudflare_ws_enabled(c) /\ h2_enabled(c.front) -> "fronted_h2"
                            [] OTHER                                          -> "h2_only"
    IN  [carrier |-> policy_carrier,
         security |-> IF policy_carrier = "fronted_ws"
                      THEN client_carrier_security(c, "ws", "rustls")
                      ELSE client_carrier_security(c, "h2", c.tls_fingerprint),
         sends |-> IF c.v2.enabled THEN "v2" ELSE "v1",
         shaping |-> client_shaping(c),
         blockers |-> {b \in {"carrier", "shaping", "mode"} :
                         \/ b = "carrier" /\ (c.experimental_h3 \/ cloudflare_ws_enabled(c))
                         \/ b = "shaping" /\ client_shaping(c).facts.effective
                         \/ b = "mode" /\ c.mode # "auto"}]

\* server_carrier_security: h2 is fronted only by an H2 front, the WebSocket
\* entry always; any front disables the binding.
server_carrier_security(c, carrier) ==
    [carrier |-> carrier,
     route |-> IF carrier = "ws" \/ h2_enabled(c.front) THEN "front" ELSE "direct",
     binding |-> channel_binding_candidate(carrier, tls_terminating_fronting_enabled(c),
                                           configured_channel_binding(c.binding))]

\* evaluate_server, with server_shaping.
evaluate_server(c) ==
    LET carriers == {"h2"} \cup (IF cloudflare_ws_enabled(c) THEN {"ws"} ELSE {})
        security == [k \in carriers |-> server_carrier_security(c, k)]
    IN  [security |-> security,
         accepts |-> IF c.v2.enabled THEN "v2" ELSE "v1",
         needs_clock |-> \E i \in DOMAIN c.users : c.users[i].previous # << >> \/ c.users[i].next # NoNext,
         shaping |-> shaping_facts(c.mode, c.shaping),
         blockers |-> {b \in {"carrier", "routes", "shaping", "mode"} :
                         \/ b = "carrier" /\ (c.experimental_h3 \/ cloudflare_ws_enabled(c))
                         \/ b = "routes" /\ {security[k].route : k \in carriers} = {"direct", "front"}
                         \/ b = "shaping" /\ shaping_facts(c.mode, c.shaping).effective
                         \/ b = "mode"}]
=============================================================================
