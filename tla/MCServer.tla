------------------------------ MODULE MCServer ------------------------------
(***************************************************************************)
(* The server beside its tunnels, for TLC: the replay cache (ReplayCache), *)
(* admission over TLS and over QUIC (ServerAdmission, H3Server), what an   *)
(* unauthenticated request sees (FallbackSite), what a flow is given       *)
(* (RateLimiter, TargetDial), and whether two documents agree on a tunnel  *)
(* (SessionSetup, RotationLint).  A behaviour runs one part, chosen at the *)
(* start, while the others rest in an initial state.                       *)
(***************************************************************************)
EXTENDS ReplayCache, ServerAdmission, ConfigPolicy, TLC

CONSTANTS Parts,             \* the parts this run is about
          QuicConns, Quic    \* connections of H3Server, one from another address

VARIABLE part

-----------------------------------------------------------------------------
(* ReplayCache: two credentials, hellos that share a nonce across           *)
(* credentials and timestamps, a window of one second, and times 0..4,      *)
(* where checks at the ends leave the range of i64.                         *)

SomeHellos == {[key |-> h[1], nonce |-> h[2], timestamp |-> h[3]] :
                  h \in {<<"k1", "n1", 1>>, <<"k1", "n1", 3>>, <<"k1", "n2", 2>>,
                         <<"k1", "n3", 2>>, <<"k2", "n1", 1>>}}

-----------------------------------------------------------------------------
(* ServerAdmission: up to three connections, two of them from one address,  *)
(* each with a request.                                                     *)

Addresses == "c1" :> "a1" @@ "c2" :> "a1" @@ "c3" :> "a2"
Requests == "s1" :> "c1" @@ "s2" :> "c2" @@ "s3" :> "c3"

-----------------------------------------------------------------------------
(* H3Server: one connection per address where three share two permits, and  *)
(* two connections of one address.                                          *)

SourceOf(c) == IF c = Quic THEN "b" ELSE "a"
Symmetric == Permutations(QuicConns \ {Quic})
PerSource == IF "h3_ends" \in Parts THEN 2 ELSE 1

VARIABLES h3_task, h3_routes, h3_admission, h3_accepted, h3_session, h3_flows, h3_live,
          h3_serving, h3_listener, h3_failed
h3 == <<h3_task, h3_routes, h3_admission, h3_accepted, h3_session, h3_flows, h3_live, h3_serving,
        h3_listener, h3_failed>>
H3 == INSTANCE H3Server WITH
    task <- h3_task, routes <- h3_routes, admission <- h3_admission, accepted <- h3_accepted,
    session <- h3_session, flows <- h3_flows, live <- h3_live, serving <- h3_serving,
    listener <- h3_listener, failed <- h3_failed, Conns <- QuicConns, Source <- SourceOf,
    max_connections <- 3, max_connections_per_source <- PerSource, PreAuth <- 2, FlowPermits <- 1

-----------------------------------------------------------------------------
(* FallbackSite: a directory with an index, a small and a large file, a     *)
(* directory with a file, a link inside and a link outside; files and the   *)
(* directory go, are replaced or become links; an upstream with plain and   *)
(* nominated headers.                                                       *)

Node(k, n, t) == [kind |-> k, size |-> n, to |-> t]
Tree == (<<"www">> :> Node("dir", 0, << >>)) @@ (<<"www", "index">> :> Node("file", 1, << >>))
        @@ (<<"www", "big">> :> Node("file", 3, << >>)) @@ (<<"www", "sub">> :> Node("dir", 0, << >>))
        @@ (<<"www", "in">> :> Node("link", 0, <<"www", "index">>))
        @@ (<<"www", "sub", "x">> :> Node("file", 1, << >>))
        @@ (<<"www", "out">> :> Node("link", 0, <<"etc", "x">>))
        @@ (<<"etc">> :> Node("dir", 0, << >>)) @@ (<<"etc", "x">> :> Node("file", 1, << >>))
\* Two changes, so that one may come before the check and one after it; the run on
\* progress does with one.
SiteChanges == IF "h3_ends" \in Parts THEN 1 ELSE 2
SiteUpdates == {Node("missing", 0, << >>), Node("file", 2, << >>), Node("link", 0, <<"etc", "x">>),
                Node("link", 0, <<"etc">>)}
Requested == {<< >>, <<"index">>, <<"big">>, <<"sub">>, <<"sub", "x">>, <<"in">>, <<"out">>, <<"none">>,
              <<"..", "etc", "x">>, <<"..">>}
Headers == {[names |-> {"accept"}, nominated |-> {}],
            [names |-> {"accept", "connection", "x-hop", "te", "content-length"}, nominated |-> {"x-hop"}]}

VARIABLES site_handler, site_path, site_headers, site_stage, site_body, site_fs, site_updates,
          site_relinked, site_root, site_file, site_size, site_task, site_forwarded, site_response
site == <<site_handler, site_path, site_headers, site_stage, site_body, site_fs, site_updates,
          site_relinked, site_root, site_file, site_size, site_task, site_forwarded, site_response>>
Fallback == INSTANCE FallbackSite WITH
    handler <- site_handler, path <- site_path, headers <- site_headers, stage <- site_stage,
    body <- site_body, fs <- site_fs, updates <- site_updates, relinked <- site_relinked, root <- site_root,
    file <- site_file, size <- site_size, task <- site_task, forwarded <- site_forwarded,
    response <- site_response, Paths <- Requested, Site <- Tree, StaticDir <- <<"www">>,
    Index <- "index", Updates <- SiteUpdates,
    MaxUpdates <- SiteChanges, HeaderSets <- Headers, Chunks <- {1, 2}, MaxRequest <- 2, MaxResponse <- 2,
    MaxStatic <- 2

-----------------------------------------------------------------------------
(* RateLimiter: a limited user, a user with the default limit and no rate,  *)
(* and one that is disabled.                                                *)

UserLimits(e, m, r) == [enabled |-> e, max_concurrent_flows |-> m, rate_limit |-> r]
LimitedUsers == "a" :> UserLimits(TRUE, 3, TRUE) @@ "b" :> UserLimits(TRUE, 0, FALSE)
                @@ "c" :> UserLimits(FALSE, 2, FALSE)

VARIABLES rate_now, rate_owner, rate_next_available, rate_wake, rate_asked, rate_passed, rate_lost
rate == <<rate_now, rate_owner, rate_next_available, rate_wake, rate_asked, rate_passed, rate_lost>>
Rate == INSTANCE RateLimiter WITH
    now <- rate_now, owner <- rate_owner, next_available <- rate_next_available,
    wake <- rate_wake, asked <- rate_asked, passed <- rate_passed, lost <- rate_lost,
    Users <- {"a", "b", "c"}, UserConfig <- LimitedUsers, Flows <- {"f1", "f2"},
    DefaultFlows <- 1, Sizes <- {2, 3}, MaxTime <- 8

\* What the theorems of H3Server and RateLimiter suppose of their constants.
ASSUME TheoremsApply == H3!H3Constants /\ Rate!RateConstants

-----------------------------------------------------------------------------
(* TargetDial: every policy against an address of each class in every IPv6  *)
(* form; races over up to four public addresses; every kind of dial.        *)

Egress(l, p, k, m, u) ==
    [allow_loopback |-> l, allow_private |-> p, allow_link_local |-> k, allow_multicast |-> m, allow_unspecified |-> u]
AllPolicies == {Egress(l, p, k, m, u) : l, p, k, m, u \in BOOLEAN}
DefaultPolicy == Egress(FALSE, FALSE, FALSE, FALSE, FALSE)
O(n) == [i \in 1 .. n |-> 0]

\* One IPv4 address of each class, and the edges of two ranges.
V4s == {<<127, 0, 0, 1>>, <<0, 0, 0, 0>>, <<224, 0, 0, 1>>, <<169, 254, 1, 1>>, <<10, 0, 0, 1>>, <<100, 127, 0, 1>>,
        <<100, 128, 0, 1>>, <<172, 31, 0, 1>>, <<172, 32, 0, 1>>, <<240, 0, 0, 1>>, <<198, 19, 0, 1>>, <<8, 8, 8, 8>>}
V6s == {O(15) \o <<1>>, O(16), <<255, 2>> \o O(14), <<254, 191>> \o O(14), <<253, 0>> \o O(14),
        <<0, 100, 255, 155, 0, 1>> \o O(10), <<32, 1, 13, 184>> \o O(12), <<38, 6>> \o O(14)}
Mapped(v4) == {O(10) \o <<255, 255>> \o v4, <<0, 100, 255, 155>> \o O(8) \o v4, <<32, 2>> \o v4 \o O(10),
               <<32, 1, 0, 0>> \o O(8) \o [i \in 1 .. 4 |-> 255 - v4[i]]}
FormAnswers == {<<a>> : a \in V4s \cup V6s} \cup {<< <<8, 8, 8, 8>>, c>> : c \in UNION {Mapped(v) : v \in V4s}}

\* Public addresses of both families, and one the default policy refuses.
A == <<8, 8, 8, 8>>
B == <<9, 9, 9, 9>>
P == <<38, 6>> \o O(14)
Q == <<38, 7>> \o O(14)
L == <<10, 0, 0, 1>>
RaceAnswers == {<< >>, <<A, B>>, <<A, P>>, <<P, Q, L>>, <<A, B, P>>, <<P, L, A, Q>>, <<A, B, P, Q>>}

VARIABLES dial_policy, dial_dials, dial_metrics
dialling == <<dial_policy, dial_dials, dial_metrics>>
Policed == INSTANCE TargetDial WITH
    policy <- dial_policy, dials <- dial_dials, metrics <- dial_metrics, Dials <- {"d1"},
    Kinds <- {"tcp"}, Answers <- FormAnswers, Policies <- AllPolicies
Race == INSTANCE TargetDial WITH
    policy <- dial_policy, dials <- dial_dials, metrics <- dial_metrics, Dials <- {"d1"},
    Kinds <- {"tcp"}, Answers <- RaceAnswers, Policies <- {DefaultPolicy}
Dial == INSTANCE TargetDial WITH
    policy <- dial_policy, dials <- dial_dials, metrics <- dial_metrics, Dials <- {"d1", "d2"},
    Kinds <- {"tcp", "udp", "dns"}, Answers <- {<< >>, <<L>>, <<A>>, <<A, P>>},
    Policies <- {DefaultPolicy}

-----------------------------------------------------------------------------
(* SessionSetup: the policies of two documents against each other, and a    *)
(* credential rotation in time.                                             *)

Bindings == {BindingDefault, [enabled |-> FALSE, require |-> FALSE], [enabled |-> TRUE, require |-> TRUE]}
Fronts == {FrontDefault, [enabled |-> TRUE, carrier |-> "h2", trusted |-> TRUE],
           [enabled |-> TRUE, carrier |-> "ws", trusted |-> TRUE]}
V2Off == [enabled |-> FALSE, require |-> FALSE]

\* One client per binding, front, H3 choice and authentication version.
PolicyClients ==
    {[ClientDefault EXCEPT !.binding = b, !.front = f, !.quiche_h3 = h, !.active_epoch = e,
          !.v2 = IF e = None THEN V2Off ELSE [enabled |-> TRUE, require |-> FALSE],
          !.tls_fingerprint = IF f.enabled /\ f.carrier = "ws" THEN "rustls" ELSE "browser"] :
        b \in Bindings, f \in Fronts, h \in BOOLEAN, e \in {None, "1", "2"}}

PolicyUsers ==
    {<<UserDefault>>, <<[UserDefault EXCEPT !.enabled = FALSE]>>, <<[UserDefault EXCEPT !.secret = "s2"]>>,
     <<[UserDefault EXCEPT !.max_concurrent_flows = 0]>>, <<UserDefault, UserDefault>>}
Served(users, path) == [ServerDefault EXCEPT !.users = users, !.path = path]
PolicyServers ==
    {[ServerDefault EXCEPT !.binding = b, !.front = f, !.quiche_h3 = h,
          !.v2 = [enabled |-> e # << >>, require |-> e # << >>, accepted_epochs |-> e]] :
        b \in Bindings, f \in Fronts, h \in BOOLEAN, e \in {<< >>, <<"1">>}}
    \cup {Served(u, PathDefault) : u \in PolicyUsers} \cup {Served(<<UserDefault>>, [slash |-> TRUE, len |-> 9])}

\* Rotation from credential a to credential b.
SwitchingClients ==
    {[ClientDefault EXCEPT !.auto_switch = TRUE, !.next = [id |-> "b", secret |-> "s2", not_before |-> t]] :
        t \in 1 .. 3}
Rotated(from, to) ==
    <<[UserDefault EXCEPT !.id = "b", !.secret = "s2",
           !.previous = <<[id |-> "a", secret |-> "s1", not_before |-> from, not_after |-> to]>>]>>
RotatingServers ==
    {[ServerDefault EXCEPT !.replay_window_secs = 1, !.users = u] :
        u \in {<<UserDefault>>, Rotated(0, 2), Rotated(1, 4), Rotated(0, 5)}}

VARIABLES setup_client, setup_server, setup_route, setup_skew, setup_now, setup_since, setup_hs
setup == <<setup_client, setup_server, setup_route, setup_skew, setup_now, setup_since, setup_hs>>
Setup == INSTANCE SessionSetup WITH
    client <- setup_client, server <- setup_server, route <- setup_route, skew <- setup_skew,
    now <- setup_now, since <- setup_since, hs <- setup_hs, ClientDocs <- PolicyClients,
    ServerDocs <- PolicyServers, Routes <- {"direct", "front"}, Skews <- {0}, MaxTime <- 0
Switch == INSTANCE SessionSetup WITH
    client <- setup_client, server <- setup_server, route <- setup_route, skew <- setup_skew,
    now <- setup_now, since <- setup_since, hs <- setup_hs, ClientDocs <- SwitchingClients,
    ServerDocs <- RotatingServers, Routes <- {"direct"}, Skews <- {-1, 0, 1}, MaxTime <- 5

-----------------------------------------------------------------------------
(* RotationLint: four seconds in halves; a document names any of them.      *)

VARIABLES lint_now, lint_user, lint_client
lint == <<lint_now, lint_user, lint_client>>
Lint == INSTANCE RotationLint WITH
    now <- lint_now, user <- lint_user, client <- lint_client, TicksPerSecond <- 2, MaxTime <- 8,
    Timestamps <- 0 .. 8

-----------------------------------------------------------------------------
ServerInit ==
    /\ part \in Parts
    /\ Init /\ (part # "replay" => clock = 0)
    /\ AdmissionInit
    /\ H3!Init /\ Rate!Init /\ Lint!Init
    /\ Fallback!Init
    /\ part # "fallback" => site_handler = "static" /\ site_path = << >> /\ site_headers.nominated = {}
    /\ CASE part = "policed" -> Policed!Init
         [] part = "race" -> Race!Init
         [] OTHER -> Dial!Init
    /\ IF part = "switch" THEN Switch!Init ELSE Setup!Init
    /\ part \notin {"setup", "switch"} => setup_route = "direct"

most == <<part, vars, admission, h3, site, rate>>
ReplayStep == part = "replay" /\ UNCHANGED <<part, admission, h3, site, rate, dialling, setup, lint>> /\ Next
AdmissionStep ==
    part = "admission" /\ UNCHANGED <<part, vars, h3, site, rate, dialling, setup, lint>> /\ AdmissionNext
H3Step == part \in {"h3", "h3_ends"} /\ UNCHANGED <<part, vars, admission, site, rate, dialling, setup, lint>> /\ H3!Next
FallbackStep == part = "fallback" /\ UNCHANGED <<part, vars, admission, h3, rate, dialling, setup, lint>> /\ Fallback!Next
RateStep == part = "rate" /\ UNCHANGED <<part, vars, admission, h3, site, dialling, setup, lint>> /\ Rate!Next
DialStep ==
    /\ part \in {"policed", "race", "dial"} /\ UNCHANGED <<most, setup, lint>>
    /\ \/ part = "policed" /\ Policed!Next
       \/ part = "race" /\ Race!Next
       \/ part = "dial" /\ Dial!Next
SetupStep ==
    /\ part \in {"setup", "switch"} /\ UNCHANGED <<most, dialling, lint>>
    /\ \/ part = "setup" /\ Setup!Next
       \/ part = "switch" /\ Switch!Next
LintStep == part = "lint" /\ UNCHANGED <<most, dialling, setup>> /\ Lint!Next

\* The parts that may come to rest; the others must never be stuck.
Rest == part \notin {"replay", "h3", "h3_ends", "setup", "switch"} /\ UNCHANGED <<most, dialling, setup, lint>>

ServerNext == ReplayStep \/ AdmissionStep \/ H3Step \/ FallbackStep \/ RateStep \/ DialStep
              \/ SetupStep \/ LintStep \/ Rest
ServerSpec == ServerInit /\ [][ServerNext]_<<most, dialling, setup, lint>>

\* The timers of tokio fire and its tasks are scheduled; nothing is assumed of the
\* peers, resolvers and targets.  Flows end because the relay's timers end them.
AdmissionFairness ==
    /\ \A c \in Conns : WF_admission(part = "admission" /\ ConnDue(c))
    /\ \A s \in Streams : WF_admission(part = "admission" /\ StreamDue(s))
    /\ WF_admission(part = "admission" /\ ServeReturns)
H3Fairness ==
    /\ WF_h3(part = "h3_ends" /\ H3!ServeStops) /\ WF_h3(part = "h3_ends" /\ H3!ServeReturns)
    /\ WF_h3(part = "h3_ends" /\ H3!DriverReturned) /\ WF_h3(part = "h3_ends" /\ H3!Abort)
    /\ \A c \in QuicConns : /\ WF_h3(part = "h3_ends" /\ H3!SetupStops(c))
                            /\ WF_h3(part = "h3_ends" /\ H3!TransportGone(c))
DialFairness ==
    \A d \in {"d1", "d2"} :
        /\ WF_dialling(part = "dial" /\ Dial!ResolutionEnds(d)) /\ WF_dialling(part = "dial" /\ Dial!RaceDelay(d))
        /\ WF_dialling(part = "dial" /\ Dial!ConnectTimesOut(d)) /\ WF_dialling(part = "dial" /\ Dial!Exchanged(d))

\* Every upstream step has a timeout.  Nothing makes the peer send or end its body.
FallbackFairness ==
    /\ WF_site(part = "fallback" /\ Fallback!StaticStep)
    /\ WF_site(part = "fallback" /\ Fallback!ProxyStep)
    /\ WF_site(part = "fallback" /\ Fallback!ConnectionEnds)

ServerFairSpec == ServerSpec /\ AdmissionFairness /\ H3Fairness /\ DialFairness /\ FallbackFairness

-----------------------------------------------------------------------------
\* Admission over QUIC is exact through the handoff from listener to session, panics
\* and a stop with a connection in the channel, and no dead route keeps a source out.
H3AdmissionIsExact == part = "h3" => H3!PermitsAddUp /\ H3!SourceLimit

\* The fallback serves from below its directory only, passes end-to-end headers and
\* those only, keeps within its limit for requests and leaves no upstream behind,
\* while the site changes under it; only a link that is put on the path between its
\* check and the reading of the file is followed unchecked.
FallbackIsContained ==
    part = "fallback" => /\ Fallback!ServedIsInside /\ Fallback!HeadersAreEndToEnd
                         /\ Fallback!NothingLeftBehind /\ Fallback!RequestBounded

\* The flows of a user share one rate: reservations are disjoint, none passes more
\* than the time pays for, and none waits for more than is reserved ahead of it.
RateIsFair == part = "rate" => Rate!RateIsShared /\ Rate!ReservationsAreDisjoint /\ Rate!WaitIsBounded

\* A dial touches only addresses the egress policy allows, in whatever IPv6 form they
\* come; it fails only after every address failed, alternates between the families
\* while it races, and is counted once.
DialsObeyPolicy ==
    /\ part = "policed" => Policed!NoForbiddenTarget
    /\ part = "race" => Race!FailureIsExhaustive /\ Race!FamiliesAlternate
    /\ part = "dial" => Dial!CountersBalance /\ Dial!FailureIsExhaustive

\* An open tunnel is the same tunnel to both ends, a bound one has no terminating
\* front inside, the oracle foretells the binding, and the server refuses exactly
\* the pairs of documents that do not fit.  A rotation that keeps to the plan never
\* locks its client out, under clock skew; and rotate-credential says "active_overlap"
\* exactly while the server accepts the old credential, and is quiet only while the
\* client is served by valid documents, up to the second in which a document names a
\* fraction of it.
TunnelIsAgreed ==
    /\ part = "setup" => /\ Setup!TypeOK /\ Setup!SameView /\ Setup!BindingExcludesFront
                         /\ Setup!OraclePredictsBinding /\ Setup!CompatiblePairsConnect
    /\ part = "switch" => Switch!RotationKeepsService
    /\ part = "lint" => Lint!TypeOK /\ Lint!LintMatchesGate /\ Lint!QuietLintServesClient

\* What the server began ends: shutdown, with every permit back, and handshakes and
\* first frames, whatever the peers do; sessions whose transport is found to be gone;
\* dials, when the resolver answers or times out; and fallback requests, once their
\* body has ended, which no timer makes it do.
ServerFinishes ==
    /\ part = "admission" => ShutdownCompletes /\ PreAuthEnds
    /\ part = "h3_ends" => H3!LostSessionsEnd /\ H3!ShutdownReturns
    /\ part = "dial" => Dial!DialEnds
    /\ part = "fallback" => Fallback!FallbackEnds
=============================================================================
