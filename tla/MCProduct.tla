----------------------------- MODULE MCProduct ------------------------------
(***************************************************************************)
(* What is built on the client, for TLC: the reference client's controller *)
(* and its helper (ReferenceClient), the GUI runtime (GuiRuntime), the     *)
(* documents and links of the CLI (ConfigFiles), profiles in a store       *)
(* (StoredProfile) and the policy projection (PolicyProjection).  A        *)
(* behaviour runs one part, chosen at the start, while the others rest in  *)
(* an initial state.                                                       *)
(***************************************************************************)
EXTENDS ReferenceClient, ConfigPolicy

CONSTANTS Parts,    \* the parts this run is about
          p1, p2    \* invocations of the CLI

VARIABLE part

Fronted(carrier, trusted) == [enabled |-> TRUE, carrier |-> carrier, trusted |-> trusted]

-----------------------------------------------------------------------------
(* PolicyProjection: every combination of the settings that decide carrier, *)
(* trust route, shaping and mode, and every policy document over the values *)
(* the reader tells apart.                                                  *)

CarrierSettings ==
    [mode |-> Modes, experimental_h3 |-> BOOLEAN, quiche_h3 |-> BOOLEAN,
     experimental_cloudflare_ws |-> BOOLEAN,
     front |-> {FrontDefault} \cup {Fronted(c, t) : c \in {"h2", "ws"}, t \in BOOLEAN},
     tls_fingerprint |-> {"rustls", "browser"},
     binding |-> {BindingDefault, [enabled |-> FALSE, require |-> FALSE], [enabled |-> TRUE, require |-> TRUE]},
     shaping |-> {ShapingDefault, [ShapingDefault EXCEPT !.enabled = TRUE],
                  [ShapingDefault EXCEPT !.enabled = TRUE, !.max_batch = 14]}]

VARIABLES proj_doc, proj_out
projected == <<proj_doc, proj_out>>
Axes == INSTANCE PolicyProjection WITH
    doc <- proj_doc, out <- proj_out, Settings <- {}, PolicyDocs <- {}

PolicyKeys == {<<"version", "1">>, <<"version", "2">>, <<"version", "7">>, <<"version", "text">>,
               <<"other", "x">>}
Heads == UNION {[1 .. n -> PolicyKeys] : n \in 0 .. 3}
AllPolicyDocs ==
    [head : {<< <<"version", "2">> >>}, mode : BOOLEAN, security : {"absent", "empty", "standard", "unknown"},
     transport : {"absent", "empty", "auto", "h2", "h3", "unknown"},
     route : {"absent", "empty", "direct", "front", "front_with_inner_e2e", "unknown"},
     front : {Axes!NoFront} \cup [present : {TRUE}, provider : {"empty", "cloudflare", "unknown"},
                                  trusted : {"empty", "true", "false"}],
     name_privacy : {"plain_sni", "native_ech", "absent"}, shaping : {"empty", "disabled"}]
    \cup [head : Heads, mode : {FALSE},
          security : {"standard"}, transport : {"h2"}, route : {"direct"}, front : {Axes!NoFront},
          name_privacy : {"plain_sni"}, shaping : {"disabled"}]

Projection == INSTANCE PolicyProjection WITH
    doc <- proj_doc, out <- proj_out, Settings <- CarrierSettings, PolicyDocs <- AllPolicyDocs

-----------------------------------------------------------------------------
(* ConfigFiles: two invocations side by side; and one with exporter         *)
(* documents that set one thing apart each, and links as a person or        *)
(* another tool may write them.                                             *)

VARIABLES cli_source, cli_clip, cli_files, cli_loose, cli_proc, cli_running, cli_runs
cli == <<cli_source, cli_clip, cli_files, cli_loose, cli_proc, cli_running, cli_runs>>
Uri == INSTANCE ConfigFiles WITH
    source <- cli_source, clip <- cli_clip, files <- cli_files, loose <- cli_loose,
    proc <- cli_proc, running <- cli_running, runs <- cli_runs, Procs <- {}, Sources <- {},
    Payloads <- {}, MaxRuns <- 0

Base == Uri!ClientDoc([ClientDefault EXCEPT !.cert_pin = "p1"], "h1", "n1", None)
SourceDocs ==
    {Base,
     [Base EXCEPT !.mode = "private"], [Base EXCEPT !.experimental_tun = TRUE],
     [Base EXCEPT !.path.len = 20000],
     [Base EXCEPT !.ca_cert = "ca"], [Base EXCEPT !.quiche_h3 = TRUE],
     [Base EXCEPT !.binding.require = TRUE], [Base EXCEPT !.binding.enabled = FALSE],
     [Base EXCEPT !.v2.enabled = TRUE, !.active_epoch = "1"],
     [Base EXCEPT !.auto_switch = TRUE, !.next = [id |-> "b", secret |-> "s2", not_before |-> 2]],
     [Base EXCEPT !.tls_fingerprint = "rustls"],
     [Base EXCEPT !.front = Fronted("h2", TRUE)]}
Good == Uri!export_config_uri(Base, TRUE)
With(k, v) == [Good EXCEPT !.query = @ \o Uri!Pair(k, v)]
Links ==
    {Good, [Good EXCEPT !.query = Uri!Reverse(@)], With("experimental_h3", "false"), With("cert_pin", "p2"),
     With("relay", "x"), With("experimental_h3", "true"),
     [Good EXCEPT !.lines = 2], [Good EXCEPT !.authority = "userinfo"],
     [Good EXCEPT !.lossless = FALSE], [Good EXCEPT !.version = "v2"], [Good EXCEPT !.fragment = TRUE]}

Cli == INSTANCE ConfigFiles WITH
    source <- cli_source, clip <- cli_clip, files <- cli_files, loose <- cli_loose,
    proc <- cli_proc, running <- cli_running, runs <- cli_runs, Procs <- {p1, p2},
    Sources <- {Base}, Payloads <- {Good, [Good EXCEPT !.lines = 2]}, MaxRuns <- 3
Link == INSTANCE ConfigFiles WITH
    source <- cli_source, clip <- cli_clip, files <- cli_files, loose <- cli_loose,
    proc <- cli_proc, running <- cli_running, runs <- cli_runs, Procs <- {p1},
    Sources <- SourceDocs, Payloads <- Links, MaxRuns <- 2

-----------------------------------------------------------------------------
(* StoredProfile: documents with and without a next credential, a pin, a    *)
(* required binding and Auth v2, an invalid one, and the files of other     *)
(* versions.                                                                *)

NextB == [id |-> "b", secret |-> "s2", not_before |-> 3]
Plain == [ClientDefault EXCEPT !.cert_pin = "pin"]
Rotating == [ClientDefault EXCEPT !.secret = "s3", !.next = NextB, !.auto_switch = TRUE,
                                  !.binding = [enabled |-> TRUE, require |-> TRUE]]
V2 == [ClientDefault EXCEPT !.secret = "s4", !.v2 = [enabled |-> TRUE, require |-> FALSE], !.active_epoch = "1"]
FrontedDoc == [ClientDefault EXCEPT !.front = Fronted("h2", TRUE), !.binding = [enabled |-> FALSE, require |-> FALSE]]
Contradictory == [FrontedDoc EXCEPT !.binding = [enabled |-> TRUE, require |-> TRUE]]

Builder == [mode |-> "auto", socks |-> "loopback", credential_id |-> "a", secret |-> "s5",
            cert_pin |-> None, experimental_h3 |-> FALSE, experimental_tun |-> FALSE, server_set |-> TRUE]
SomeBuilders ==
    {Builder, [Builder EXCEPT !.mode = "stable", !.cert_pin = "pin"], [Builder EXCEPT !.experimental_tun = TRUE],
     [Builder EXCEPT !.experimental_h3 = TRUE], [Builder EXCEPT !.secret = None], [Builder EXCEPT !.server_set = FALSE]}

VARIABLES store_store, store_disk, store_job, store_clean
stored == <<store_store, store_disk, store_job, store_clean>>
Slot == INSTANCE StoredProfile WITH
    store <- store_store, disk <- store_disk, job <- store_job, clean <- store_clean,
    Documents <- {}, Builders <- {}, OldFiles <- {}, Bindings <- {}

File(shape, schema, doc, binding) ==
    [shape |-> shape, schema |-> schema, payload |-> Slot!Payload(doc), binding |-> binding, unknown |-> FALSE]
SomeFiles ==
    {File("flat", 0, Rotating, << >>), File("flat", 0, FrontedDoc, << >>), File("flat", 0, Plain, <<BindingDefault>>),
     [File("flat", 0, Plain, << >>) EXCEPT !.unknown = TRUE], File("envelope", 0, Plain, << >>),
     File("envelope", 1, Plain, << >>), File("envelope", 1, FrontedDoc, <<Contradictory.binding>>),
     File("envelope", 2, Plain, <<BindingDefault>>)}

Store == INSTANCE StoredProfile WITH
    store <- store_store, disk <- store_disk, job <- store_job, clean <- store_clean,
    Documents <- {Plain, Rotating, V2, FrontedDoc, Contradictory}, Builders <- SomeBuilders,
    OldFiles <- SomeFiles, Bindings <- [enabled : BOOLEAN, require : BOOLEAN]

-----------------------------------------------------------------------------
(* GuiRuntime: every combination of the experimental switches.              *)

Crypto(suites, allow, require) ==
    [offered_suites |-> suites, allow_experimental |-> allow, require_experimental |-> require]
Cryptos == {CryptoDefault, Crypto(<<"tls13">>, TRUE, FALSE), Crypto(<<"tls13">>, TRUE, TRUE),
            Crypto(<<"tls13", "noise_xx25519_chacha_poly_v1">>, TRUE, FALSE),
            Crypto(<<"ml_kem_768_hybrid_v1">>, FALSE, FALSE)}
SwitchedDocs ==
    {[ClientDefault EXCEPT !.mode = m, !.tls_fingerprint = f, !.front = fr, !.experimental_cloudflare_ws = w,
          !.experimental_ech = x[1], !.ech_fallback_policy = p, !.experimental_tun = x[2],
          !.quiche_h3 = x[3], !.experimental_h3 = x[4], !.crypto = y] :
        m \in Modes, f \in {"browser", "rustls"},
        fr \in {FrontDefault, Fronted("h2", TRUE), Fronted("ws", FALSE)}, w \in BOOLEAN,
        x \in {<<FALSE, FALSE, FALSE, FALSE>>, <<TRUE, FALSE, FALSE, FALSE>>, <<FALSE, TRUE, FALSE, FALSE>>,
               <<FALSE, FALSE, TRUE, FALSE>>, <<FALSE, FALSE, FALSE, TRUE>>},
        p \in {"fail_closed", "allow_plain_sni"}, y \in Cryptos}

VARIABLES gui_build, gui_config, gui_made, gui_client, gui_error, gui_call, gui_serving,
          gui_leaving, gui_outcome
gui == <<gui_build, gui_config, gui_made, gui_client, gui_error, gui_call, gui_serving,
         gui_leaving, gui_outcome>>
Gui == INSTANCE GuiRuntime WITH
    build <- gui_build, config <- gui_config, made <- gui_made, client <- gui_client,
    error <- gui_error, call <- gui_call, serving <- gui_serving, leaving <- gui_leaving, outcome <- gui_outcome,
    Docs <- SwitchedDocs, Builds <- {{}, {"ech"}, {"noise-experimental", "tun-runtime"}}
NoGui == INSTANCE GuiRuntime WITH
    build <- gui_build, config <- gui_config, made <- gui_made, client <- gui_client,
    error <- gui_error, call <- gui_call, serving <- gui_serving, leaving <- gui_leaving, outcome <- gui_outcome,
    Docs <- {ClientDefault}, Builds <- {{}}

-----------------------------------------------------------------------------
ProductInit ==
    /\ part \in Parts
    /\ Init /\ (part # "controller" => ~journal)
    /\ Projection!Init
    /\ CASE part = "cli" -> Cli!Init
         [] part = "link" -> Link!Init
         [] OTHER -> Cli!Init
    /\ Store!Init /\ (part # "store" => store_disk = Slot!NoFile)
    /\ IF part = "gui" THEN Gui!Init ELSE NoGui!Init

ControllerStep == part = "controller" /\ UNCHANGED <<part, projected, cli, stored, gui>> /\ Next
ProjectionStep == part = "projection" /\ UNCHANGED <<part, vars, cli, stored, gui>> /\ Projection!Next
CliStep ==
    /\ part \in {"cli", "link"} /\ UNCHANGED <<part, vars, projected, stored, gui>>
    /\ \/ part = "cli" /\ Cli!Next
       \/ part = "link" /\ Link!Next
StoreStep == part = "store" /\ UNCHANGED <<part, vars, projected, cli, gui>> /\ Store!Next
GuiStep == part = "gui" /\ UNCHANGED <<part, vars, projected, cli, stored>> /\ Gui!Next

\* The parts that may come to rest; the others are never stuck.
Rest == part \in {"cli", "link", "gui"} /\ UNCHANGED <<part, vars, projected, cli, stored, gui>>

ProductNext == ControllerStep \/ ProjectionStep \/ CliStep \/ StoreStep \/ GuiStep \/ Rest
ProductSpec == ProductInit /\ [][ProductNext]_<<part, vars, projected, cli, stored, gui>>

-----------------------------------------------------------------------------
\* What the GUI shows is so: it says "listening" from a start that worked to the next
\* disconnect, which is while it listens unless a listener ended by itself or outlived
\* a dropped disconnect; it connects only what this build can run, and its diagnostics
\* agree.
ShownIsTrue ==
    part = "gui" => Gui!DiagnosticsHonest /\ Gui!OnlyRunnableTracks /\ Gui!DiagnosticsAgree

\* The three readings of one policy agree: the strict reader takes what it can honour
\* only, the projection of every document reads back and keeps its behaviour, and the
\* oracle blocks what the runtime blocks.
PoliciesAgree ==
    part = "projection" => /\ Projection!TypeOK /\ Projection!StrictReader /\ Projection!ProjectionIsReadable
                           /\ Projection!ProjectionKeepsBehaviour /\ Projection!OracleBlocksAlike

\* A document survives what carries it: the two generated files are one pair whoever
\* wrote them at once, an imported link starts the client it was exported from or none,
\* and a profile whose last save completed loads as it was saved.
DocumentsSurvive ==
    /\ part = "cli" => Cli!TypeOK /\ Cli!PairMatches
    /\ part = "link" => Link!StartedKeepsContract /\ Link!ImportIsLossless
    /\ part = "store" => Store!LoadedIsLastSaved /\ Store!SavedSecretsFindTheirFile /\ Store!LegacyIsNotLoaded

\* A step takes nothing away silently: a file that was there is not overwritten, and a
\* migration keeps everything but the binding.
NothingIsSilentlyLost == Cli!NeverOverwritten /\ Store!MigrationKeepsTheRest
=============================================================================
