---------------------------- MODULE ConfigFiles -----------------------------
(***************************************************************************)
(* Profile URI v1: what config-uri export puts into a link, what import    *)
(* takes out of it, and the client document it materialises                *)
(* (maverick-cli/src/main.rs).                                             *)
(*                                                                         *)
(* A link is its envelope and the sequence of its decoded query pairs.     *)
(* Lengths are counted in bytes, text is abstracted to what the parser     *)
(* tells apart: "" is empty, "ctl" has a control character.                *)
(***************************************************************************)
EXTENDS ConfigPolicy, TLC, SequencesExt

PROFILE_URI_MAX_BYTES == 16384
ENVELOPE_BYTES == 200   \* everything of a link but its path

ProfileKeys == {"server", "name", "path", "mode", "credential_id", "secret", "cert_pin",
                "experimental_h3", "experimental_ech", "experimental_tun"}

Envelope == [lines |-> 1, authority |-> "plain", lossless |-> TRUE, scheme |-> "maverick",
             version |-> "v1", fragment |-> FALSE]

\* A client document is ConfigPolicy's record with the endpoint, the name its
\* certificate is to have, and the CA path.
ClientDoc(c, address, name, ca) == c @@ [address |-> address, server_name |-> name, ca_cert |-> ca]

(***************************************************************************)
(* Export.                                                                 *)
(***************************************************************************)
\* Mutant: rotation settings are not looked at.
export_unsupported_NoRotation(c) ==
    \/ c.quiche_h3 \/ c.ca_cert # None
    \/ ~c.binding.enabled \/ c.binding.require
    \/ c.v2.enabled \/ c.v2.require
    \/ tls_terminating_fronting_enabled(c)
    \/ c.tls_fingerprint # default_client_stealth

\* The settings of the remote connection that export_config_uri refuses to drop.
export_unsupported(c) ==
    \/ c.quiche_h3 \/ c.ca_cert # None
    \/ ~c.binding.enabled \/ c.binding.require
    \/ c.v2.enabled \/ c.v2.require
    \/ c.active_epoch # None \/ c.next_credential_id # None \/ c.auto_switch \/ c.next # NoNext
    \/ tls_terminating_fronting_enabled(c)
    \/ c.tls_fingerprint # default_client_stealth

validate_qr_export(include_secret, qr) == ~(include_secret /\ qr)

Pair(k, v) == <<[k |-> k, v |-> v]>>

\* ProfileUri::to_uri: the pairs in their order, an absent option without a pair.
to_uri(p) ==
    Envelope @@ [query |->
        Pair("server", p.server) \o Pair("name", p.server_name) \o Pair("path", p.path) \o Pair("mode", p.mode)
        \o (IF p.credential_id = None THEN << >> ELSE Pair("credential_id", p.credential_id))
        \o (IF p.secret = None THEN << >> ELSE Pair("secret", p.secret))
        \o (IF p.cert_pin = None THEN << >> ELSE Pair("cert_pin", p.cert_pin))
        \o (IF p.experimental_h3 THEN Pair("experimental_h3", "true") ELSE << >>)
        \o (IF p.experimental_ech THEN Pair("experimental_ech", "true") ELSE << >>)
        \o (IF p.experimental_tun THEN Pair("experimental_tun", "true") ELSE << >>)]

\* export_config_uri of a document that read_client_config accepted.
export_config_uri(c, include_secret) ==
    to_uri([server |-> c.address, server_name |-> c.server_name, path |-> c.path, mode |-> c.mode,
            credential_id |-> c.credential_id,
            secret |-> IF include_secret THEN c.secret ELSE None, cert_pin |-> c.cert_pin,
            experimental_h3 |-> c.experimental_h3, experimental_ech |-> c.experimental_ech,
            experimental_tun |-> c.experimental_tun])
exports(c, include_secret, qr) ==
    validate_qr_export(include_secret, qr) /\ client_validate(c) /\ ~export_unsupported(c)

(***************************************************************************)
(* Import.                                                                 *)
(***************************************************************************)
\* optional_query: the first pair of that key.
Has(u, k) == \E i \in DOMAIN u.query : u.query[i].k = k
query(u, k) == u.query[CHOOSE i \in DOMAIN u.query :
                   u.query[i].k = k /\ \A j \in 1 .. (i - 1) : u.query[j].k # k].v
optional_query(u, k, absent) == IF Has(u, k) THEN query(u, k) ELSE absent

uri_len(u) == ENVELOPE_BYTES + (IF Has(u, "path") THEN query(u, "path").len ELSE 0)

\* normalize_profile_uri_payload, validate_profile_uri_input and
\* validate_profile_uri_v1_envelope.
envelope_validate(u) ==
    /\ u.lines = 1
    /\ uri_len(u) <= PROFILE_URI_MAX_BYTES
    /\ u.authority = "plain" /\ u.lossless
    /\ u.scheme = "maverick" /\ u.version = "v1" /\ ~u.fragment

\* Mutant: a repeated key is taken at its first value.
validate_profile_uri_v1_query_First(u) == \A i \in DOMAIN u.query : u.query[i].k \in ProfileKeys

\* validate_profile_uri_v1_query: known keys, each at most once.
validate_profile_uri_v1_query(u) ==
    /\ \A i \in DOMAIN u.query : u.query[i].k \in ProfileKeys
    /\ \A i, j \in DOMAIN u.query : u.query[i].k = u.query[j].k => i = j

\* required_profile_query and optional_profile_query.
text_validate(v) == v # "ctl"
required_text(u, k) == Has(u, k) /\ query(u, k) # "" /\ text_validate(query(u, k))

\* parse_bool_query.
bool_validate(u, k) == optional_query(u, k, "false") \in {"true", "false"}
bool_query(u, k) == optional_query(u, k, "false") = "true"

\* ProfileUri::parse: whether it returns Ok, and the profile it returns.
parses(u) ==
    /\ envelope_validate(u) /\ validate_profile_uri_v1_query(u)
    /\ \A k \in {"server", "name", "mode"} : required_text(u, k)
    /\ Has(u, "path") /\ query(u, "path").slash /\ query(u, "path").len > 0
    /\ query(u, "mode") \in Modes
    /\ \A k \in {"experimental_h3", "experimental_ech", "experimental_tun"} : bool_validate(u, k)
    /\ ~bool_query(u, "experimental_h3") /\ ~bool_query(u, "experimental_ech")
    /\ optional_query(u, "credential_id", None) \notin {"", "ctl"}
    /\ text_validate(optional_query(u, "secret", None)) /\ secret_validate(optional_query(u, "secret", None))
    /\ optional_query(u, "cert_pin", None) \notin {"malformed", "ctl"}
parsed(u) ==
    [server |-> query(u, "server"), server_name |-> query(u, "name"), path |-> query(u, "path"), mode |-> query(u, "mode"),
     credential_id |-> optional_query(u, "credential_id", None),
     secret |-> optional_query(u, "secret", None), cert_pin |-> optional_query(u, "cert_pin", None),
     experimental_h3 |-> FALSE, experimental_ech |-> FALSE,
     experimental_tun |-> bool_query(u, "experimental_tun")]

\* ProfileUri::to_client_config: the defaults of this build, and the profile.
client_config(p) ==
    ClientDoc([ClientDefault EXCEPT !.mode = p.mode, !.path = p.path, !.credential_id = p.credential_id,
                                    !.secret = p.secret, !.cert_pin = p.cert_pin,
                                    !.experimental_h3 = p.experimental_h3,
                                    !.experimental_ech = p.experimental_ech,
                                    !.experimental_tun = p.experimental_tun],
              p.server, p.server_name, None)
to_client_config(p) ==
    p.credential_id # None /\ p.secret # None /\ client_validate(client_config(p))

\* client_config_secret_yaml and ClientConfig::from_yaml_str of what it wrote:
\* every setting that is not printed from the document is printed as a default,
\* the switched-off front with the h2 carrier.
client_config_secret_yaml(c) ==
    ClientDoc([ClientDefault EXCEPT !.mode = c.mode, !.path = c.path, !.credential_id = c.credential_id,
                                    !.secret = c.secret, !.cert_pin = c.cert_pin,
                                    !.tls_fingerprint = c.tls_fingerprint,
                                    !.experimental_h3 = c.experimental_h3,
                                    !.experimental_ech = c.experimental_ech,
                                    !.experimental_tun = c.experimental_tun, !.front.carrier = "h2"],
              c.address, c.server_name, None)

(***************************************************************************)
(* The remote contract of a document: the carrier, the authentication and  *)
(* the trust it asks for.                                                  *)
(***************************************************************************)
Contract(c) ==
    [address |-> c.address, server_name |-> c.server_name, path |-> c.path, mode |-> c.mode, ca_cert |-> c.ca_cert,
     cert_pin |-> c.cert_pin, tls |-> c.tls_fingerprint, h3 |-> c.quiche_h3,
     ws |-> cloudflare_ws_enabled(c), fronted |-> tls_terminating_fronting_enabled(c),
     binding |-> c.binding, v2 |-> c.v2, epoch |-> c.active_epoch,
     credentials |-> [at \in 0 .. 3 |-> select_client_credential(c, at)]]

-----------------------------------------------------------------------------
(***************************************************************************)
(* The commands of maverick-cli that write and read configuration files:   *)
(* gen-config, config-uri export and import, and the load before a start.  *)
(* Several invocations run at once in one directory; each system call is a *)
(* step, a write may stop short, and a process may be killed anywhere.     *)
(***************************************************************************)

CONSTANTS Procs,        \* invocations of the CLI
          Sources,      \* client documents of the exporting machine
          Payloads,     \* links that did not come from an export
          MaxRuns       \* bound: commands started in a behaviour

Paths == {"client.yaml", "server.yaml"}   \* GENERATED_CLIENT_CONFIG, GENERATED_SERVER_CONFIG

VARIABLES source,    \* the exporter's document
          clip,      \* what the clipboard holds: NoLink, or [link, exported]
          files,     \* path -> Absent, or [kind, doc, from]
          loose,     \* paths readable by group or others
          proc,      \* per invocation: where it is and what it read
          running,   \* the document a client was started with, and its file
          runs       \* commands started

vars == <<source, clip, files, loose, proc, running, runs>>

NoLink == [link |-> Envelope, exported |-> FALSE, here |-> FALSE]
Absent == [kind |-> "absent", from |-> None]
Idle == [pc |-> "idle"]
NoClient == [from |-> None]

Init ==
    /\ source \in Sources
    /\ clip = NoLink
    /\ files = [p \in Paths |-> Absent]
    /\ loose = {}
    /\ proc = [p \in Procs |-> Idle]
    /\ running = NoClient
    /\ runs = 0

At(p, pc) == proc[p].pc = pc
Go(p, r) == proc' = [proc EXCEPT ![p] = r]
Exists(path) == files[path].kind # "absent"

(***************************************************************************)
(* write_secret_config_file: create_new with mode 0600, then write_all.    *)
(***************************************************************************)
\* Mutant: the file is opened without create_new.
create_new_Truncate(path) == TRUE

create_new(path) == ~Exists(path)

\* The open succeeds and leaves an empty file of the owner's, or fails.
Create(p, path, from, ok, failed) ==
    \/ /\ create_new(path)
       /\ files' = [files EXCEPT ![path] = [kind |-> "empty", from |-> from]]
       /\ loose' = loose \ {path}
       /\ Go(p, ok)
    \/ UNCHANGED <<files, loose>> /\ Go(p, failed)

\* write_all ends, or stops after a prefix and reports the error.
Fill(p, path, from, doc, ok, failed) ==
    /\ \/ /\ files' = [files EXCEPT ![path] = [kind |-> "complete", from |-> from, doc |-> doc]]
          /\ Go(p, ok)
       \/ /\ files' = [files EXCEPT ![path] = [kind |-> "cut", from |-> from]]
          /\ Go(p, failed)
    /\ UNCHANGED loose

(***************************************************************************)
(* gen-config: both outputs are looked for before a secret is generated.   *)
(***************************************************************************)
\* Mutant: the server's half is written first.
GenConfig_ServerFirst(p, quiche_h3) ==
    /\ At(p, "idle") /\ runs < MaxRuns
    /\ quiche_h3 => H3Build
    /\ runs' = runs + 1
    /\ Go(p, IF \A path \in Paths : ~Exists(path) THEN [pc |-> "gen_server", h3 |-> quiche_h3] ELSE Idle)
    /\ UNCHANGED <<source, clip, files, loose, running>>

GenConfig(p, quiche_h3) ==
    /\ At(p, "idle") /\ runs < MaxRuns
    /\ quiche_h3 => H3Build
    /\ runs' = runs + 1
    /\ Go(p, IF \A path \in Paths : ~Exists(path) THEN [pc |-> "gen_client", h3 |-> quiche_h3] ELSE Idle)
    /\ UNCHANGED <<source, clip, files, loose, running>>

\* Around one fresh secret; p stands for the secret that process p generated.
example_client_config(p, quiche_h3) ==
    ClientDoc([ClientDefault EXCEPT !.secret = p, !.credential_id = "u_example",
                                    !.front.carrier = "h2", !.quiche_h3 = quiche_h3],
              "example.com:443", "example.com", None)
example_server_config(p, quiche_h3) ==
    [ServerDefault EXCEPT !.users = <<[UserDefault EXCEPT !.id = "u_example", !.secret = p]>>,
                          !.max_concurrent_flows_per_user = 128, !.front.carrier = "h2",
                          !.quiche_h3 = quiche_h3]

\* Mutant: a client file that already exists is kept and the server's written.
GenCreateClient_Keep(p) ==
    /\ At(p, "gen_client")
    /\ IF Exists("client.yaml") THEN Go(p, [proc[p] EXCEPT !.pc = "gen_server"]) /\ UNCHANGED <<files, loose>>
       ELSE Create(p, "client.yaml", p, [proc[p] EXCEPT !.pc = "gen_fill_client"], Idle)
    /\ UNCHANGED <<source, clip, running, runs>>

GenCreateClient(p) ==
    /\ At(p, "gen_client")
    /\ Create(p, "client.yaml", p, [proc[p] EXCEPT !.pc = "gen_fill_client"], Idle)
    /\ UNCHANGED <<source, clip, running, runs>>
GenFillClient(p) ==
    /\ At(p, "gen_fill_client")
    /\ Fill(p, "client.yaml", p, example_client_config(p, proc[p].h3), [proc[p] EXCEPT !.pc = "gen_server"], Idle)
    /\ UNCHANGED <<source, clip, running, runs>>
GenCreateServer(p) ==
    /\ At(p, "gen_server")
    /\ Create(p, "server.yaml", p, [proc[p] EXCEPT !.pc = "gen_fill_server"], Idle)
    /\ UNCHANGED <<source, clip, running, runs>>
GenFillServer(p) ==
    /\ At(p, "gen_fill_server")
    /\ Fill(p, "server.yaml", p, example_server_config(p, proc[p].h3), Idle, Idle)
    /\ UNCHANGED <<source, clip, running, runs>>

(***************************************************************************)
(* config-uri export; the operator carries the link to the clipboard of    *)
(* the importing machine, where another program may replace it.            *)
(***************************************************************************)
Export(include_secret, qr) ==
    /\ runs < MaxRuns
    /\ exports(source, include_secret, qr)
    /\ runs' = runs + 1
    /\ clip' = [link |-> export_config_uri(source, include_secret), exported |-> TRUE, here |-> TRUE]
    /\ UNCHANGED <<source, files, loose, proc, running>>

Copy ==
    /\ runs < MaxRuns
    /\ runs' = runs + 1
    /\ \E u \in Payloads : clip' = [link |-> u, exported |-> FALSE, here |-> TRUE]
    /\ UNCHANGED <<source, files, loose, proc, running>>

(***************************************************************************)
(* config-uri import --clipboard [--dry-run] --output client.yaml.         *)
(***************************************************************************)
\* import_config_uri_from_clipboard up to the parse: a dry run ends here.
Import(p, dry_run) ==
    /\ At(p, "idle") /\ runs < MaxRuns
    /\ clip.here
    /\ runs' = runs + 1
    /\ Go(p, IF ~parses(clip.link) THEN Idle
             ELSE IF dry_run THEN [pc |-> "clear"]
             ELSE [pc |-> "look", read |-> clip])
    /\ UNCHANGED <<source, clip, files, loose, running>>

\* output.exists(), then to_client_config.
ImportLook(p) ==
    /\ At(p, "look")
    /\ Go(p, IF Exists("client.yaml") \/ ~to_client_config(parsed(proc[p].read.link))
             THEN Idle ELSE [proc[p] EXCEPT !.pc = "create"])
    /\ UNCHANGED <<source, clip, files, loose, running, runs>>
ImportCreate(p) ==
    /\ At(p, "create")
    /\ Create(p, "client.yaml", proc[p].read, [proc[p] EXCEPT !.pc = "fill"], Idle)
    /\ UNCHANGED <<source, clip, running, runs>>
ImportFill(p) ==
    /\ At(p, "fill")
    /\ Fill(p, "client.yaml", proc[p].read,
            client_config_secret_yaml(client_config(parsed(proc[p].read.link))), [pc |-> "clear"], Idle)
    /\ UNCHANGED <<source, clip, running, runs>>

\* clear_profile_uri after an Ok result, whatever the clipboard holds by then;
\* a failure is a warning only.
ImportClear(p) ==
    /\ At(p, "clear")
    /\ clip' \in {clip, NoLink}
    /\ Go(p, Idle)
    /\ UNCHANGED <<source, files, loose, running, runs>>

Killed(p) ==
    /\ ~At(p, "idle")
    /\ Go(p, Idle)
    /\ UNCHANGED <<source, clip, files, loose, running, runs>>

(***************************************************************************)
(* read_client_config_for_start.                                           *)
(***************************************************************************)
\* config_permission_warning and enforce_config_permissions.
enforce_config_permissions(path, allow_loose) == path \notin loose \/ allow_loose

Imported(f) == f.kind = "complete" /\ f.from \notin Procs

\* A client is started from an imported file that loads.
Start(allow_loose) ==
    /\ running = NoClient
    /\ Imported(files["client.yaml"])
    /\ enforce_config_permissions("client.yaml", allow_loose)
    /\ client_validate(files["client.yaml"].doc)
    /\ running' = files["client.yaml"]
    /\ UNCHANGED <<source, clip, files, loose, proc, runs>>

\* Somebody opens the file to group or others.
Chmod ==
    /\ Exists("client.yaml") /\ "client.yaml" \notin loose
    /\ loose' = loose \cup {"client.yaml"}
    /\ UNCHANGED <<source, clip, files, proc, running, runs>>

Next ==
    \/ \E p \in Procs :
           \/ (\E quiche_h3 \in BOOLEAN : GenConfig(p, quiche_h3))
           \/ GenCreateClient(p) \/ GenFillClient(p)
           \/ GenCreateServer(p) \/ GenFillServer(p)
           \/ (\E dry_run \in BOOLEAN : Import(p, dry_run))
           \/ ImportLook(p) \/ ImportCreate(p) \/ ImportFill(p) \/ ImportClear(p)
           \/ Killed(p)
    \/ (\E include_secret, qr \in BOOLEAN : Export(include_secret, qr))
    \/ Copy
    \/ (\E allow_loose \in BOOLEAN : Start(allow_loose))
    \/ Chmod

Spec == Init /\ [][Next]_vars

-----------------------------------------------------------------------------
\* A file is absent, empty, cut short or whole; gen-config writes the client's
\* half of the pair first, so a server file is never alone.
TypeOK ==
    /\ \A path \in Paths : files[path].kind \in {"absent", "empty", "cut", "complete"}
    /\ \A path \in loose : Exists(path)
    /\ Exists("server.yaml") => Exists("client.yaml")
    /\ runs \in 0 .. MaxRuns

\* gen-config writes a pair: whenever both files are whole and came from
\* gen-config they validate and fit each other (one secret, one credential, one
\* path, one carrier), however many invocations raced or died.
PairMatches ==
    LET c == files["client.yaml"] s == files["server.yaml"]
    IN  c.kind = "complete" /\ s.kind = "complete" /\ c.from \in Procs /\ s.from \in Procs =>
            /\ client_validate(c.doc) /\ server_validate(s.doc)
            /\ s.doc.users[1].id = c.doc.credential_id /\ s.doc.users[1].secret = c.doc.secret
            /\ s.doc.path = c.doc.path /\ s.doc.quiche_h3 = c.doc.quiche_h3

\* A client started from the file an import wrote of an exported link asks the
\* server for the carrier, the authentication and the trust of the exporter's
\* document: export_config_uri drops none of them.
StartedKeepsContract ==
    running # NoClient /\ running.from.exported => Contract(running.doc) = Contract(source)

\* Import loses nothing of the link it accepts: what was started can be exported
\* again, and every pair of the link, at every place it stands, says the same
\* there.  A repeated, unknown or unread key would break this.
ImportIsLossless ==
    running # NoClient =>
        LET out == export_config_uri(running.doc, TRUE) link == running.from.link
        IN  /\ exports(running.doc, TRUE, FALSE)
            /\ \A i \in DOMAIN link.query :
                   IF link.query[i].k \in {"experimental_h3", "experimental_ech", "experimental_tun"}
                   THEN (link.query[i].v = "true") <=> Has(out, link.query[i].k)
                   ELSE Has(out, link.query[i].k) /\ query(out, link.query[i].k) = link.query[i].v

\* Once a file is whole no command of the CLI changes it.
NeverOverwritten ==
    [][\A path \in Paths : files[path].kind = "complete" => files'[path] = files[path]]_vars
=============================================================================
