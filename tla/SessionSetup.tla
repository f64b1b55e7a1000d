---------------------------- MODULE SessionSetup ----------------------------
(***************************************************************************)
(* How a client and a server that were started from two documents          *)
(* authenticate each other: the hellos and their tags                      *)
(* (maverick-core/src/auth.rs), ClientHandshake                            *)
(* (maverick-client/src/tunnel.rs), authenticate_client_hello              *)
(* (maverick-server/src/server.rs) and the credential index                *)
(* (maverick-server/src/users.rs).                                         *)
(*                                                                         *)
(* A tag is the record of what is fed to the MAC, with its key: two tags   *)
(* are equal exactly when all of it is.  The exporter of a TLS connection  *)
(* is one value for both ends, unless a front terminates TLS in between.   *)
(* Nonces are fresh and their cache is the subject of ReplayCache; here    *)
(* the replay check is its timestamp window.  The server is restarted with *)
(* another document at any time, which breaks the connections it had.      *)
(***************************************************************************)
EXTENDS ConfigPolicy, TLC

CONSTANTS ClientDocs, ServerDocs,  \* the documents the operators install
          Routes,                  \* what lies between: "direct" or "front"
          Skews,                   \* client clock minus server clock
          MaxTime                  \* bound on the clock

VARIABLES client, server,  \* the documents the two processes run, or Stopped
          route, skew,     \* the deployment, fixed
          now,             \* the server's clock
          since,           \* when the server came up with its document
          hs               \* the handshake in progress and its outcome

vars == <<client, server, route, skew, now, since, hs>>

Stopped == [version |-> 0]
Idle == [at |-> "idle"]
PROTOCOL_VERSION == 1
AUTH_V2_PROTOCOL_VERSION == 2
ROTATION_WINDOW_SECS == 86400

----------------------------------------------------------------------------
(* Hellos and tags.                                                         *)

\* Mutant: the exporter is offered behind a configured front too.
exporter_Fronted(doc, carrier, side) ==
    IF carrier = "h3" \/ doc.binding.enabled
    THEN IF route = "direct" THEN "tls" ELSE side
    ELSE None

\* end_to_end_channel_binding_enabled and the exporters of the transports: H3
\* always has one, H2 and WebSocket when the policy asks and no front is
\* configured.
exporter(doc, carrier, side) ==
    IF carrier = "h3" \/ (doc.binding.enabled /\ ~tls_terminating_fronting_enabled(doc))
    THEN IF route = "direct" THEN "tls" ELSE side
    ELSE None

selected_channel_binding(flags, binding) == IF flags = {} THEN None ELSE binding

\* ClientHello: client_auth_tag, new and verify.
client_auth_tag(secret, hello, path, binding) ==
    [label |-> "client", key |-> <<secret>>, path |-> path, binding |-> binding,
     covered |-> <<hello.version, hello.timestamp, hello.id, hello.mode, hello.flags>>]
ClientHello_new(credential, path, mode, flags, at, binding) ==
    LET hello == [version |-> PROTOCOL_VERSION, epoch |-> None, timestamp |-> at, id |-> credential.id,
                  mode |-> wire_id(mode), flags |-> flags]
    IN  hello @@ [tag |-> client_auth_tag(credential.secret, hello, path, binding)]
ClientHello_verify(hello, secret, path, binding) ==
    /\ hello.flags # {} => binding # None
    /\ hello.tag = client_auth_tag(secret, hello, path, binding)

\* ClientHelloV2, under the key auth_v2_epoch_key derives for its epoch.
client_auth_v2_tag(secret, hello, path, binding) ==
    [label |-> "client_v2", key |-> <<secret, hello.epoch, "client">>, path |-> path, binding |-> binding,
     covered |-> <<hello.version, hello.epoch, hello.timestamp, hello.id, hello.mode, hello.flags>>]
ClientHelloV2_new(credential, epoch, path, mode, flags, at, binding) ==
    LET hello == [version |-> AUTH_V2_PROTOCOL_VERSION, epoch |-> epoch, timestamp |-> at,
                  id |-> credential.id, mode |-> wire_id(mode), flags |-> flags]
    IN  hello @@ [tag |-> client_auth_v2_tag(credential.secret, hello, path, binding)]
ClientHelloV2_verify(hello, secret, path, binding) ==
    /\ hello.flags # {} => binding # None
    /\ hello.tag = client_auth_v2_tag(secret, hello, path, binding)

\* ServerHello: server_auth_tag, new and verify.
server_auth_tag(secret, reply, binding) ==
    [label |-> "server", key |-> <<secret>>, binding |-> binding,
     covered |-> <<reply.version, reply.max_frame_size, reply.max_concurrent_flows, reply.flags>>]
ServerHello_new(secret, frame_size, flows, flags, binding) ==
    LET reply == [version |-> PROTOCOL_VERSION, max_frame_size |-> frame_size,
                  max_concurrent_flows |-> flows, flags |-> flags]
    IN  reply @@ [tag |-> server_auth_tag(secret, reply, binding)]
ServerHello_verify(reply, secret, binding) ==
    /\ reply.flags # {} => binding # None
    /\ reply.tag = server_auth_tag(secret, reply, binding)

\* ServerHelloV2.
server_auth_v2_tag(secret, reply, binding) ==
    [label |-> "server_v2", key |-> <<secret, reply.epoch, "server">>, binding |-> binding,
     covered |-> <<reply.version, reply.epoch, reply.max_frame_size, reply.max_concurrent_flows,
                   reply.flags, reply.rotation_window>>]
ServerHelloV2_new(secret, epoch, frame_size, flows, flags, binding) ==
    LET reply == [version |-> AUTH_V2_PROTOCOL_VERSION, epoch |-> epoch, max_frame_size |-> frame_size,
                  max_concurrent_flows |-> flows, flags |-> flags,
                  rotation_window |-> ROTATION_WINDOW_SECS]
    IN  reply @@ [tag |-> server_auth_v2_tag(secret, reply, binding)]
ServerHelloV2_verify(reply, secret, binding) ==
    /\ reply.flags # {} => binding # None
    /\ reply.tag = server_auth_v2_tag(secret, reply, binding)

\* client_feature_flags: the flags, or None where the handshake is not begun.
client_feature_flags(c, binding) ==
    IF ~c.binding.enabled THEN {}
    ELSE IF binding # None THEN {"binding"}
    ELSE IF c.binding.require THEN {"error"} ELSE {}

\* ClientHandshake::new.
client_hello(c, at, binding) ==
    LET credential == select_client_credential(c, at)
        flags == client_feature_flags(c, binding)
        chosen == selected_channel_binding(flags, binding)
    IN  IF c.v2.enabled
        THEN ClientHelloV2_new(credential, c.active_epoch, c.path, c.mode, flags, at, chosen)
        ELSE ClientHello_new(credential, c.path, c.mode, flags, at, chosen)

\* ClientHello::decode and ClientHelloV2::decode: the bounded id and the mode byte.
ClientHello_decodes(hello) ==
    id_len(hello.id) <= AUTH_V1_MAX_CREDENTIAL_ID_LEN /\ from_wire_id(hello.mode) # None
ClientHelloV2_decodes(hello) ==
    id_len(hello.id) \in 1 .. AUTH_V2_MAX_CREDENTIAL_HINT_LEN /\ from_wire_id(hello.mode) # None

----------------------------------------------------------------------------
(* The server's side.                                                       *)

\* UserStore::new: no id is listed twice, active or previous.
store_new(s) ==
    LET ids(user) == <<user.id>> \o [i \in DOMAIN user.previous |-> user.previous[i].id]
        entries == {<<u, i>> \in (DOMAIN s.users) \X (1 .. 5) : i \in DOMAIN ids(s.users[u])}
    IN  \A e, f \in entries : ids(s.users[e[1]])[e[2]] = ids(s.users[f[1]])[f[2]] => e = f

\* Mutant: the window of a previous credential opens a second late.
is_valid_at_Late(p, at) == p.not_before < at /\ at < p.not_after

\* PreviousCredential::is_valid_at.
is_valid_at(p, at) == p.not_before <= at /\ at < p.not_after

\* lookup_credential and lookup_secret: an active id before a previous one, and
\* nothing of a disabled user.
lookup_credential(s, id, at) ==
    LET active == {u \in DOMAIN s.users : s.users[u].id = id}
        previous == {<<u, i>> \in (DOMAIN s.users) \X (1 .. 4) :
                        i \in DOMAIN s.users[u].previous /\ s.users[u].previous[i].id = id}
    IN  IF active # {}
        THEN {[user |-> s.users[u], secret |-> s.users[u].secret] : u \in {u \in active : s.users[u].enabled}}
        ELSE {[user |-> s.users[p[1]], secret |-> s.users[p[1]].previous[p[2]].secret] :
                 p \in {p \in previous : s.users[p[1]].enabled /\ is_valid_at(s.users[p[1]].previous[p[2]], at)}}

\* Mutant: a server that requires the binding accepts a hello without it.
selected_client_feature_flags_Lenient(s, requested, binding) ==
    IF requested = {} THEN {}
    ELSE IF ~s.binding.enabled \/ binding = None THEN {"refused"} ELSE requested

\* selected_client_feature_flags: the flags, or None for a refusal.
selected_client_feature_flags(s, requested, binding) ==
    IF s.binding.require /\ requested = {} THEN {"refused"}
    ELSE IF requested = {} THEN {}
    ELSE IF ~s.binding.enabled \/ binding = None THEN {"refused"} ELSE requested

\* authenticate_client_hello_v1 and _v2: the credentials (none, or one) whose
\* secret verifies the hello.
authenticate_client_hello_v1(s, hello, at, binding) ==
    LET flags == selected_client_feature_flags(s, hello.flags, binding)
    IN  {m \in lookup_credential(s, hello.id, at) :
            /\ ClientHello_decodes(hello)
            /\ "refused" \notin flags
            /\ ClientHello_verify(hello, m.secret, s.path, selected_channel_binding(flags, binding))}
authenticate_client_hello_v2(s, hello, at, binding) ==
    LET flags == selected_client_feature_flags(s, hello.flags, binding)
    IN  {m \in lookup_credential(s, hello.id, at) :
            /\ ClientHelloV2_decodes(hello)
            /\ \E i \in DOMAIN s.v2.accepted_epochs : s.v2.accepted_epochs[i] = hello.epoch
            /\ "refused" \notin flags
            /\ ClientHelloV2_verify(hello, m.secret, s.path, selected_channel_binding(flags, binding))}
authenticate_client_hello(s, hello, at, binding) ==
    CASE hello.version = PROTOCOL_VERSION /\ ~s.v2.require ->
            authenticate_client_hello_v1(s, hello, at, binding)
      [] hello.version = AUTH_V2_PROTOCOL_VERSION /\ s.v2.enabled ->
            authenticate_client_hello_v2(s, hello, at, binding)
      [] OTHER -> {}

\* authenticate_tunnel_frame: the hello, then the timestamp window of the
\* replay cache.
authenticate_tunnel_frame(s, hello, at, binding) ==
    {m \in authenticate_client_hello(s, hello, at, binding) :
        hello.timestamp \in at - s.replay_window_secs .. at + s.replay_window_secs}

\* Mutant: the limit of the document is not taken when the user has none.
server_hello_NoDefault(s, hello, m, binding) ==
    LET flags == selected_client_feature_flags(s, hello.flags, binding)
        chosen == selected_channel_binding(flags, binding)
        flows == m.user.max_concurrent_flows
    IN  IF hello.version = PROTOCOL_VERSION
        THEN ServerHello_new(m.secret, s.max_frame_size, flows, flags, chosen)
        ELSE ServerHelloV2_new(m.secret, hello.epoch, s.max_frame_size, flows, flags, chosen)

\* Mutant: the answer does not repeat the features selected.
server_hello_NoFlags(s, hello, m, binding) ==
    LET flows == IF m.user.max_concurrent_flows = -1 THEN s.max_concurrent_flows_per_user
                 ELSE m.user.max_concurrent_flows
    IN  IF hello.version = PROTOCOL_VERSION
        THEN ServerHello_new(m.secret, s.max_frame_size, flows, {}, None)
        ELSE ServerHelloV2_new(m.secret, hello.epoch, s.max_frame_size, flows, {}, None)

\* server_hello_payload.
server_hello(s, hello, m, binding) ==
    LET flags == selected_client_feature_flags(s, hello.flags, binding)
        chosen == selected_channel_binding(flags, binding)
        flows == IF m.user.max_concurrent_flows = -1 THEN s.max_concurrent_flows_per_user
                 ELSE m.user.max_concurrent_flows
    IN  IF hello.version = PROTOCOL_VERSION
        THEN ServerHello_new(m.secret, s.max_frame_size, flows, flags, chosen)
        ELSE ServerHelloV2_new(m.secret, hello.epoch, s.max_frame_size, flows, flags, chosen)

\* validate_negotiated_max_frame_size.
validate_negotiated_max_frame_size(size) == size \in DEFAULT_MAX_FRAME_SIZE .. MAX_NEGOTIATED_FRAME_SIZE

\* verify_server_hello, for the version the client speaks.
verify_server_hello(c, hello, secret, reply, binding) ==
    LET chosen == selected_channel_binding(reply.flags, binding)
    IN  /\ reply.version = hello.version
        /\ reply.max_concurrent_flows # 0
        /\ c.binding.require => "binding" \in reply.flags
        /\ reply.flags \subseteq hello.flags
        /\ \/ hello.version = PROTOCOL_VERSION /\ ServerHello_verify(reply, secret, chosen)
           \/ /\ hello.version = AUTH_V2_PROTOCOL_VERSION
              /\ reply.epoch = hello.epoch /\ reply.rotation_window # 0
              /\ ServerHelloV2_verify(reply, secret, chosen)

----------------------------------------------------------------------------

Init == /\ client = Stopped /\ server = Stopped /\ hs = Idle
        /\ route \in Routes /\ skew \in Skews
        /\ now = 0 /\ since = 0

\* A process is started from document d; a document that does not validate, or
\* whose credentials collide, ends the start.
StartClient(d) ==
    /\ client = Stopped /\ client_validate(d)
    /\ client' = d /\ UNCHANGED <<server, route, skew, now, since, hs>>

StartServer(d) ==
    /\ server = Stopped /\ server_validate(d) /\ store_new(d)
    /\ server' = d /\ since' = now /\ UNCHANGED <<client, route, skew, now, hs>>

\* Either process stops; the connection goes with it.
Stop(side) ==
    /\ hs.at \in {"idle", "hello", "reply"}
    /\ \/ side = "client" /\ client # Stopped /\ client' = Stopped /\ UNCHANGED server
       \/ side = "server" /\ server # Stopped /\ server' = Stopped /\ UNCHANGED client
    /\ hs' = Idle /\ UNCHANGED <<route, skew, now, since>>

\* With quiche_h3 the server serves QUIC alone; otherwise H2, and WebSocket when configured.
carrier_open(s, carrier) ==
    CASE carrier = "h2" -> ~s.quiche_h3
      [] carrier = "ws" -> ~s.quiche_h3 /\ cloudflare_ws_enabled(s)
      [] carrier = "h3" -> s.quiche_h3

\* open_h2, open_cloudflare_ws or h3::open, up to the ClientHello.
Connect ==
    /\ client # Stopped /\ server # Stopped /\ hs.at = "idle"
    /\ LET carrier == default_transport_kind(client)
           binding == exporter(client, carrier, "client_side")
           hello == client_hello(client, now + skew, binding)
       IN  hs' = IF ~carrier_open(server, carrier) THEN [at |-> "failed", why |-> "carrier"]
                 ELSE IF "error" \in hello.flags THEN [at |-> "failed", why |-> "no_exporter"]
                 ELSE [at |-> "hello", carrier |-> carrier, hello |-> hello,
                       secret |-> select_client_credential(client, now + skew).secret]
    /\ UNCHANGED <<client, server, route, skew, now, since>>

\* authenticate_tunnel_frame, then the ServerHello or the fallback answer.
Authenticate ==
    /\ hs.at = "hello"
    /\ LET binding == exporter(server, hs.carrier, "server_side")
           matches == authenticate_tunnel_frame(server, hs.hello, now, binding)
       IN  \/ /\ matches = {}
              /\ hs' = [at |-> "refused", hello |-> hs.hello, carrier |-> hs.carrier]
           \/ \E m \in matches :
                 hs' = [at |-> "reply", reply |-> server_hello(server, hs.hello, m, binding),
                        match |-> m] @@ hs
    /\ UNCHANGED <<client, server, route, skew, now, since>>

\* The client reads the ServerHello: the tunnel is open, or it bails.
Verify ==
    /\ hs.at = "reply"
    /\ LET binding == exporter(client, hs.carrier, "client_side")
       IN  hs' = [hs EXCEPT !.at = IF /\ verify_server_hello(client, hs.hello, hs.secret, hs.reply, binding)
                                      /\ validate_negotiated_max_frame_size(hs.reply.max_frame_size)
                                   THEN "open" ELSE "invalid"]
    /\ UNCHANGED <<client, server, route, skew, now, since>>

\* The attempt is over, or its connection is lost; the client tries again.
Retry ==
    /\ hs.at # "idle" /\ hs' = Idle
    /\ UNCHANGED <<client, server, route, skew, now, since>>

Tick ==
    /\ now < MaxTime /\ now' = now + 1
    /\ UNCHANGED <<client, server, route, skew, since, hs>>

Next == \/ \E d \in ClientDocs : StartClient(d)
        \/ \E d \in ServerDocs : StartServer(d)
        \/ \E side \in {"client", "server"} : Stop(side)
        \/ Connect \/ Authenticate \/ Verify \/ Retry \/ Tick

Spec == Init /\ [][Next]_vars

----------------------------------------------------------------------------

\* The handshake is at one of its points and flags are flags.
TypeOK ==
    /\ hs.at \in {"idle", "failed", "hello", "refused", "reply", "open", "invalid"}
    /\ hs.at \in {"hello", "refused", "reply", "open", "invalid"} => hs.hello.flags \subseteq {"binding"}
    /\ hs.at \in {"reply", "open", "invalid"} =>
           hs.reply.flags \subseteq {"binding"} /\ hs.reply.max_concurrent_flows \in Nat

\* An open tunnel is the same tunnel to both ends: the server's user owns the
\* credential the client chose, both hold its secret, and they agree on the
\* version, the epoch and the features, whatever was restarted before.
SameView ==
    hs.at = "open" =>
        /\ hs.match.secret = hs.secret
        /\ hs.hello.id \in {hs.match.user.id} \cup
               {hs.match.user.previous[i].id : i \in DOMAIN hs.match.user.previous}
        /\ hs.reply.version = hs.hello.version
        /\ client.v2.enabled => hs.reply.epoch = hs.hello.epoch
        /\ hs.reply.flags = hs.hello.flags

\* A tunnel that is bound, or that either document requires to be bound, has
\* no TLS-terminating front inside, configured or not.
BindingExcludesFront ==
    hs.at = "open" /\ (hs.reply.flags # {} \/ client.binding.require \/ server.binding.require) =>
        "binding" \in hs.reply.flags /\ route = "direct"

\* What the two documents must have in common, said without the protocol.
CredentialHeld ==
    \E u \in DOMAIN server.users :
        /\ server.users[u].enabled
        /\ \/ server.users[u].id = hs.hello.id /\ server.users[u].secret = hs.hello.tag.key[1]
           \/ \E i \in DOMAIN server.users[u].previous :
                  LET p == server.users[u].previous[i]
                  IN  p.id = hs.hello.id /\ p.secret = hs.hello.tag.key[1]
                      /\ now \in p.not_before .. p.not_after - 1
Compatible ==
    LET asks == client.binding.enabled /\ (client.quiche_h3 \/ ~tls_terminating_fronting_enabled(client))
        able == server.binding.enabled /\ (client.quiche_h3 \/ ~tls_terminating_fronting_enabled(server))
    IN  /\ client.path = server.path
        /\ client.v2.enabled = server.v2.enabled
        /\ client.v2.enabled => \E i \in DOMAIN server.v2.accepted_epochs :
                                    server.v2.accepted_epochs[i] = client.active_epoch
        /\ CredentialHeld
        /\ id_len(hs.hello.id) <= AUTH_V1_MAX_CREDENTIAL_ID_LEN
        /\ asks => able /\ route = "direct"
        /\ server.binding.require => asks
        /\ hs.hello.timestamp - now \in -server.replay_window_secs .. server.replay_window_secs

\* The server refuses exactly the pairs that do not fit; a hello it accepts is
\* one whose answer the client accepts; and a validated client that reaches its
\* server's carrier is never without the exporter it requires.
CompatiblePairsConnect ==
    /\ hs.at \notin {"invalid"}
    /\ hs.at = "failed" => hs.why = "carrier"
    /\ hs.at = "hello" =>
           (authenticate_tunnel_frame(server, hs.hello, now, exporter(server, hs.carrier, "server_side")) # {})
               = Compatible

\* The oracle of either document foretells whether an H2 or WebSocket tunnel is
\* bound (v1_effective_behavior.rs, channel_binding_candidate).
OraclePredictsBinding ==
    hs.at = "open" /\ hs.carrier # "h3" =>
        LET exporters == {"exporter_candidate", "exporter_required"}
        IN  /\ (hs.reply.flags # {}) = (evaluate_client(client).security.binding \in exporters)
            /\ hs.reply.flags # {} => evaluate_server(server).security[hs.carrier].binding \in exporters

\* Rotation without an outage: a client that switches by itself is not refused
\* for its credential, before or after the switch and under clock skew, while
\* the operator keeps to the plan.  The plan is that the server is restarted
\* with the new credential before the client's clock reaches next.not_before,
\* and that the old one stays listed until a replay window after it.
PlanKept ==
    LET holders == {u \in DOMAIN server.users : server.users[u].id = client.next.id}
    IN  \/ holders = {} /\ now + skew < client.next.not_before
        \/ \E u \in holders : \E i \in DOMAIN server.users[u].previous :
               LET p == server.users[u].previous[i]
               IN  /\ p.id = client.credential_id /\ p.not_before <= since
                   /\ client.next.not_before + server.replay_window_secs <= p.not_after
RotationKeepsService ==
    hs.at = "refused" /\ client.auto_switch /\ PlanKept =>
        hs.hello.timestamp - now \notin -server.replay_window_secs .. server.replay_window_secs

=============================================================================
