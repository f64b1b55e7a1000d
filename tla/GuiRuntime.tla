----------------------------- MODULE GuiRuntime -----------------------------
(***************************************************************************)
(* The experimental tracks and what the client says about them: the        *)
(* registries and readiness snapshots of maverick-core (experimental.rs,   *)
(* ech.rs, crypto.rs, tun.rs) and the diagnostics snapshots the GUI shows  *)
(* (diagnostics.rs), over the configuration documents of ConfigPolicy.     *)
(*                                                                         *)
(* A readiness snapshot is the set of its blockers: the inputs that are    *)
(* not ready, in any order.                                                *)
(***************************************************************************)
EXTENDS ConfigPolicy

Track(status, build, gate) == [status |-> status, build_gate |-> build, runtime_gate |-> gate]

EXPERIMENTAL_TRACK_REGISTRY ==
    [h3_quic_carrier |-> Track("runtime_experimental", "experimental-h3", "quiche_h3"),
     cloudflare_fronted_ws_carrier |-> Track("runtime_experimental", None, "cdn_fronting"),
     webtransport_carrier |-> Track("research_only", "webtransport-experimental", None),
     ech |-> Track("config_gate_only", "ech", "experimental_ech"),
     hpke_config_envelope |-> Track("disabled_registry_entry", "hpke-experimental", "hpke_config_v1"),
     noise_native_mode |-> Track("disabled_registry_entry", "noise-experimental", "noise_xx25519_chacha_poly_v1"),
     ml_kem_hybrid |-> Track("disabled_registry_entry", "ml-kem-hybrid", "ml_kem_768_hybrid_v1"),
     blinded_credential_lookup |-> Track("research_only", "blinded-lookup-experimental", None),
     native_no_domain_mode |-> Track("research_only", "no-domain-experimental", None),
     multi_hop_research |-> Track("research_only", None, None),
     plugin_system |-> Track("research_only", None, None),
     product_tun_runtime |-> Track("runtime_experimental", "tun-runtime", "experimental_tun")]
Tracks == DOMAIN EXPERIMENTAL_TRACK_REGISTRY

\* What the runtime gate of a track reads.  The three cryptographic tracks
\* share advanced.crypto.allow_experimental and need their suite in the offer.
GateOpen(gate, c) ==
    CASE gate = None -> FALSE
      [] gate = "quiche_h3" -> c.quiche_h3
      [] gate = "cdn_fronting" -> c.front.enabled
      [] gate = "experimental_ech" -> c.experimental_ech
      [] gate = "experimental_tun" -> c.experimental_tun
      [] OTHER -> /\ c.crypto.allow_experimental
                  /\ \E i \in DOMAIN c.crypto.offered_suites : c.crypto.offered_suites[i] = gate
TurnedOn(c) == {t \in Tracks : GateOpen(EXPERIMENTAL_TRACK_REGISTRY[t].runtime_gate, c)}

(***************************************************************************)
(* Readiness: the inputs of each subsystem and the ones that are not ready *)
(* in a build with the given features.                                     *)
(***************************************************************************)
EchInputs == {"build_feature", "rustls_client_api", "server_tls_backend", "ech_config_source",
              "controlled_integration", "runtime_config"}
ech_blockers(build) == EchInputs \ (IF "ech" \in build THEN {"build_feature", "rustls_client_api"} ELSE {})

NoiseInputs == {"build_feature", "candidate_implementation", "implementation_vectors", "transcript_tests",
                "downgrade_tests", "runtime_session_harness", "runtime_config"}
noise_blockers(build) ==
    NoiseInputs \ ({"candidate_implementation", "implementation_vectors", "transcript_tests", "downgrade_tests"}
        \cup IF "noise-experimental" \in build THEN {"build_feature", "runtime_session_harness"} ELSE {})

TunInputs ==
    {"route_plan_model", "apply_safety_model", "approved_vm_apply_smoke", "production_route_policy",
     "default_route_policy", "platform_adapter", "service_manager_integration", "global_dns_policy",
     "leak_tests", "coexistence_tests", "helper_plan_model", "helper_preflight", "helper_rollback_journal",
     "helper_recovery", "helper_network_baseline_checks", "helper_namespace_smoke",
     "helper_default_route_dns_smoke", "runtime_helper"}
TunReady == TunInputs \ {"platform_adapter"}
tun_blockers == TunInputs \ TunReady

\* GuiRuntimeReadinessSnapshot, shown beside the diagnostics.
GuiInputs == {"core_diagnostics", "sdk_runtime_baseline", "debug_redaction_tests", "ui_scope", "platform_targets",
              "secure_profile_storage", "service_lifecycle_integration", "signing_notarization",
              "tun_safety_integration", "ui_smoke_tests", "release_packaging"}
gui_blockers == GuiInputs \ (GuiInputs \ {"signing_notarization", "release_packaging"})

\* GuiTunSafetySnapshot::from_readiness: the GUI never gets TUN controls.
tun_safety(blockers, product_gate) ==
    [controls_enabled |-> FALSE,
     state |-> CASE blockers # {} -> "disabled_runtime_not_ready"
                 [] blockers = {} /\ ~product_gate -> "disabled_gui_product_gate_missing"
                 [] OTHER -> "read_only_status_available"]

(***************************************************************************)
(* Diagnostics of a document.                                              *)
(***************************************************************************)
\* EchDiagnosticsSnapshot::new.
ech_diagnostics(c, build) ==
    [status |-> CASE ~c.experimental_ech -> "disabled"
                  [] c.experimental_ech /\ ech_blockers(build) = {} -> "ready"
                  [] OTHER -> "unsupported",
     private_mode_plain_sni_blocked |-> c.mode = "private" /\ c.ech_fallback_policy = "allow_plain_sni"]

\* Mutant: the front is read from the flag it replaced.
stealth_diagnostics_OldFlag(c) ==
    [cdn_fronting_enabled |-> c.experimental_cloudflare_ws, trusted |-> c.front.trusted,
     status |-> CASE c.tls_fingerprint = "browser" -> IF BrowserTls THEN "browser_mimic" ELSE "unsupported"
                  [] c.tls_fingerprint # "browser" /\ c.experimental_cloudflare_ws -> "cdn_fronted"
                  [] OTHER -> "baseline_rustls"]

\* StealthDiagnosticsSnapshot::from_client_config.
stealth_diagnostics(c) ==
    [cdn_fronting_enabled |-> c.front.enabled, trusted |-> c.front.trusted,
     status |-> CASE c.tls_fingerprint = "browser" -> IF BrowserTls THEN "browser_mimic" ELSE "unsupported"
                  [] c.tls_fingerprint # "browser" /\ c.front.enabled -> "cdn_fronted"
                  [] OTHER -> "baseline_rustls"]

\* crypto_policy_diagnostics.
crypto_policy_diagnostics(mode, policy) ==
    LET offered == {policy.offered_suites[i] : i \in DOMAIN policy.offered_suites}
    IN  [default_foundation_present |-> "tls13" \in offered,
         stable_mode_experimental_blocked |->
             mode = "stable" /\ (policy.allow_experimental \/ policy.require_experimental),
         require_experimental_without_enabled_suite |->
             policy.require_experimental /\ \A s \in offered : SuiteStatus(s) # "experimental"]

\* GuiDiagnosticsSnapshot::from_client_config, with the readiness shown beside it.
gui_diagnostics(c, state, error) ==
    LET retired == c.version = 1 /\ c.experimental_h3
    IN  [connection_state |-> IF retired THEN "error" ELSE state,
         last_error_class |-> IF retired THEN "config" ELSE error,
         product_ready |-> gui_blockers = {},
         tun_controls_enabled |-> tun_safety(tun_blockers, FALSE).controls_enabled,
         transport_status |-> IF retired THEN "degraded" ELSE "unverified"]

\* GuiTransportDebugSnapshot::public_status and with_transport_debug.
public_status(h3_candidate, h3_cooldown) == IF h3_candidate /\ h3_cooldown THEN "degraded" ELSE "unverified"
with_transport_debug(d, h3_candidate, h3_cooldown) ==
    IF d.connection_state = "error" /\ d.last_error_class = "config" /\ d.transport_status = "degraded"
    THEN d
    ELSE [d EXCEPT !.transport_status = public_status(h3_candidate, h3_cooldown)]

-----------------------------------------------------------------------------
(***************************************************************************)
(* GuiClientRuntime (maverick-sdk/src/lib.rs): one validated configuration *)
(* and the MaverickClient that runs it, started by connect and stopped by  *)
(* disconnect.  Both take &mut self over an await: the application sees    *)
(* nothing of the runtime while one is pending, but it may drop the future *)
(* there, and read the diagnostics afterwards.                             *)
(***************************************************************************)

CONSTANTS Docs,    \* the documents a profile may hold
          Builds   \* the feature sets the client may be built with

VARIABLES build,    \* the features of this build
          config,   \* the document given to GuiClientRuntime::new
          made,     \* new returned a runtime
          client,   \* the MaverickClient is held
          error,    \* last_error_class
          call,     \* the pending future, None at rest
          serving,  \* the listeners of the client: "no", "on", or "died" when one ended by itself
          leaving,  \* listeners detached from a shutdown that was dropped are still bound
          outcome   \* how the last start that was not cancelled ended

vars == <<build, config, made, client, error, call, serving, leaving, outcome>>

bound == serving = "on" \/ leaving

Init ==
    /\ build \in Builds /\ config \in Docs
    /\ made = FALSE /\ client = FALSE /\ error = None /\ call = None /\ outcome = None
    /\ serving = "no" /\ leaving = FALSE

\* GuiClientRuntime::new.
New ==
    /\ ~made /\ client_validate(config)
    /\ made' = TRUE
    /\ UNCHANGED <<build, config, client, error, call, serving, leaving, outcome>>

AtRest == made /\ call = None

\* connect: nothing to do when the client is held.
Connect ==
    /\ AtRest /\ ~client
    /\ call' = "start"
    /\ UNCHANGED <<build, config, made, client, error, serving, leaving, outcome>>

\* start_client: the listeners are bound before the future resolves (beside those
\* that are leaving when the ports are chosen by the system), or none is.
StartOk ==
    /\ call = "start"
    /\ client' = TRUE /\ error' = None /\ serving' = "on" /\ outcome' = "ok" /\ call' = None
    /\ UNCHANGED <<build, config, made, leaving>>
StartFails ==
    /\ call = "start"
    /\ error' = "network" /\ outcome' = "failed" /\ call' = None
    /\ UNCHANGED <<build, config, made, client, serving, leaving>>

\* serve_socks returns the panic of a connection task and drops its listener; the
\* handle holds the task's result until it is joined.
ListenerDies ==
    /\ serving = "on" /\ serving' = "died"
    /\ UNCHANGED <<build, config, made, client, error, call, leaving, outcome>>

\* Mutant: the client is given up only when its shutdown succeeded.
Disconnect_Late ==
    /\ AtRest /\ client
    /\ call' = "shutdown"
    /\ UNCHANGED <<build, config, made, client, error, serving, leaving, outcome>>
\* disconnect: the client is taken first; nothing to do when there is none.
Disconnect ==
    /\ AtRest /\ client
    /\ client' = FALSE /\ call' = "shutdown"
    /\ UNCHANGED <<build, config, made, error, serving, leaving, outcome>>

\* The shutdown consumes the handle and joins every listener task: they are gone
\* when it ends, in success or in error (a listener that died is one).
ShutdownOk ==
    /\ call = "shutdown" /\ serving = "on"
    /\ error' = None /\ serving' = "no" /\ call' = None
    /\ UNCHANGED <<build, config, made, client, leaving, outcome>>
ShutdownFails ==
    /\ call = "shutdown"
    /\ serving' = "no" /\ call' = None
    /\ UNCHANGED <<build, config, made, client, error, leaving, outcome>>

\* The application drops the pending future.  A start's listeners go with it; a
\* shutdown has signalled the listener tasks, which are detached now and hold their
\* listeners until they have joined their connections.
Dropped ==
    /\ call # None
    /\ serving' = "no" /\ leaving' = (leaving \/ call = "shutdown") /\ call' = None
    /\ UNCHANGED <<build, config, made, client, error, outcome>>
Released ==
    /\ leaving /\ leaving' = FALSE
    /\ UNCHANGED <<build, config, made, client, error, call, serving, outcome>>

Next ==
    \/ New \/ Connect \/ StartOk \/ StartFails \/ ListenerDies
    \/ Disconnect \/ ShutdownOk \/ ShutdownFails \/ Dropped \/ Released

Spec == Init /\ [][Next]_vars

\* GuiClientRuntime::diagnostics.
diagnostics ==
    gui_diagnostics(config,
        CASE client -> "listening" [] ~client /\ error # None -> "error" [] OTHER -> "disconnected", error)

(***************************************************************************)
(* Properties.                                                             *)
(***************************************************************************)
\* What the GUI shows at rest is what the process does: "listening" while the
\* listeners are bound, except that a listener which ended by itself is still
\* shown and one that a dropped disconnect left behind is not; "error" exactly
\* after a start that failed with no success since, whichever futures were
\* dropped; and no state of the
\* client makes the snapshot claim a verified transport or offer TUN
\* controls (GuiClientRuntime::diagnostics, connect, disconnect).
DiagnosticsHonest ==
    AtRest =>
        /\ (diagnostics.connection_state = "listening") = (serving # "no")
        /\ serving # "died" /\ ~leaving => (diagnostics.connection_state = "listening") = bound
        /\ (diagnostics.connection_state = "error") = (outcome = "failed")
        /\ diagnostics.transport_status = "unverified"
        /\ ~diagnostics.tun_controls_enabled
        /\ \A cooldown \in BOOLEAN :
               with_transport_debug(diagnostics, config.quiche_h3, cooldown).transport_status = "degraded"
                   => config.quiche_h3

\* A document that ClientConfig::validate accepts turns on experimental
\* tracks only when their registry entry has a runtime: no track that is a
\* gate, a disabled entry or research, HTTP/3 only in a build that has it,
\* ECH and Noise only when their readiness snapshot has no blocker left.
OnlyRunnableTracks ==
    made =>
        /\ \A t \in TurnedOn(config) : EXPERIMENTAL_TRACK_REGISTRY[t].status = "runtime_experimental"
        /\ "h3_quic_carrier" \in TurnedOn(config) => H3Build
        /\ "ech" \in TurnedOn(config) => ech_blockers(build) = {}
        /\ "noise_native_mode" \in TurnedOn(config) => noise_blockers(build) = {}

\* The diagnostics and the validators, written apart, agree: no document that
\* validates is shown as blocked or unsupported by the ECH, the stealth or
\* the crypto snapshot, and traffic that a front terminates is shown as
\* fronted by a trusted provider.
DiagnosticsAgree ==
    made =>
        /\ ech_diagnostics(config, build).status # "unsupported"
        /\ ~ech_diagnostics(config, build).private_mode_plain_sni_blocked
        /\ stealth_diagnostics(config).status # "unsupported"
        /\ tls_terminating_fronting_enabled(config) =>
               stealth_diagnostics(config).cdn_fronting_enabled /\ stealth_diagnostics(config).trusted
        /\ LET d == crypto_policy_diagnostics(config.mode, config.crypto)
           IN  d.default_foundation_present /\ ~d.stable_mode_experimental_blocked
               /\ ~d.require_experimental_without_enabled_suite
=============================================================================
