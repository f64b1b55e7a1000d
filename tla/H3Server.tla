------------------------------ MODULE H3Server ------------------------------
(***************************************************************************)
(* The server side of the explicit HTTP/3 carrier: the UDP listener of     *)
(* crates/maverick-quiche/src/lib.rs (serve), which keeps one task, two    *)
(* routes and one pre-authentication permit per QUIC connection, and the   *)
(* session side of crates/maverick-server/src/h3.rs (serve_listener,       *)
(* serve_admitted), which authenticates the connections it is handed and   *)
(* opens their targets.  The two meet in a channel of one connection.      *)
(* Frames and the driver are in H3Relay; here a driver runs until its      *)
(* connection closes, its session has left, or the listener stops.         *)
(***************************************************************************)
EXTENDS Integers, Sequences, FiniteSetTheorems, TLAPS

CONSTANTS
    Conns,                          \* identities of connections
    Source(_),                      \* the source address of each
    max_connections, max_connections_per_source,
    PreAuth,                        \* permits of pre_auth_admission
    FlowPermits                     \* flows of the one user

VARIABLES
    task,           \* of serve: none, handshake, offering, driver, finished, panicked
    routes,         \* connections with routes
    admission,      \* permits left
    accepted,       \* the channel: connections handed over and not yet received
    session,        \* none, first, hello, open, target, relay, done
    flows,          \* user flow permits left
    live,           \* connections whose transport is up
    serving,        \* serve: run, stopping, returned
    listener,       \* serve_listener: run, driver, abort, done
    failed          \* a session panicked

vars == <<task, routes, admission, accepted, session, flows, live, serving, listener, failed>>

Unauthenticated == {"handshake", "offering"}
\* The permit belongs to the setup task, then to the connection in the channel, then
\* to the session until it has authenticated its peer.
HoldsAdmission(c) ==
    task[c] \in Unauthenticated \/ (\E i \in DOMAIN accepted : accepted[i] = c) \/ session[c] = "first"
HoldsFlow(c) == session[c] \in {"target", "relay"}

TypeOK ==
    /\ task \in [Conns -> {"none", "handshake", "offering", "driver", "finished", "panicked"}]
    /\ routes \subseteq Conns /\ admission \in 0..PreAuth
    /\ Len(accepted) <= 1
    /\ session \in [Conns -> {"none", "first", "hello", "open", "target", "relay", "done"}]
    /\ flows \in 0..FlowPermits /\ live \subseteq Conns
    /\ serving \in {"run", "stopping", "returned"}
    /\ listener \in {"run", "driver", "abort", "done"} /\ failed \in BOOLEAN

Init ==
    /\ task = [c \in Conns |-> "none"] /\ routes = {} /\ admission = PreAuth /\ accepted = <<>>
    /\ session = [c \in Conns |-> "none"] /\ flows = FlowPermits /\ live = {}
    /\ serving = "run" /\ listener = "run" /\ failed = FALSE

LiveTasks == {c \in Conns : task[c] # "none"}
Alive == {c \in Conns : task[c] \in {"handshake", "offering", "driver"}}
-----------------------------------------------------------------------------
(* quiche::serve                                                            *)

\* An Initial packet without a route: the limits, the permit, then a task and its routes.
Initial(c) ==
    /\ serving = "run" /\ task[c] = "none" /\ session[c] = "none" /\ c \notin routes
    /\ accepted # <<c>>
    /\ Cardinality(LiveTasks) < max_connections
    /\ Cardinality({r \in routes : Source(r) = Source(c)}) < max_connections_per_source
    /\ admission > 0
    /\ task' = [task EXCEPT ![c] = "handshake"] /\ routes' = routes \cup {c}
    /\ admission' = admission - 1 /\ live' = live \cup {c}
    /\ UNCHANGED <<accepted, session, flows, serving, listener, failed>>

Ends(c, how) ==
    /\ task' = [task EXCEPT ![c] = how] /\ live' = live \ {c}
    /\ admission' = admission + IF task[c] \in Unauthenticated THEN 1 ELSE 0
    /\ UNCHANGED <<routes, accepted, session, flows, serving, listener, failed>>

\* The TLS handshake completes, or fails or times out.
Handshake(c) ==
    /\ task[c] = "handshake"
    /\ \/ /\ task' = [task EXCEPT ![c] = "offering"]
          /\ UNCHANGED <<routes, admission, accepted, session, flows, live, serving, listener, failed>>
       \/ Ends(c, "finished")

\* Mutant: connections are handed over without waiting for room.
Offer_Unbounded(c) ==
    /\ task[c] = "offering" /\ listener # "done" /\ accepted' = Append(accepted, c)
    /\ task' = [task EXCEPT ![c] = "driver"]
    /\ UNCHANGED <<routes, admission, session, flows, live, serving, listener, failed>>

\* accepted.send waits for room; the receiver may be gone.
Offer(c) ==
    /\ task[c] = "offering"
    /\ \/ /\ accepted = <<>> /\ listener # "done" /\ accepted' = <<c>>
          /\ task' = [task EXCEPT ![c] = "driver"]
          /\ UNCHANGED <<routes, admission, session, flows, live, serving, listener, failed>>
       \/ listener = "done" /\ Ends(c, "finished")

\* Mutant: a setup that is under way does not hear of the stop.
SetupStops_Deaf(c) == serving = "stopping" /\ task[c] = "driver" /\ Ends(c, "finished")

\* stopped.changed() ends a setup and a driver.
SetupStops(c) ==
    /\ serving = "stopping" /\ c \in Alive
    /\ Ends(c, "finished")

\* The connection closes or is lost, or the session has left.
DriverEnds(c) == task[c] = "driver" /\ Ends(c, "finished")
TaskPanics(c) == c \in Alive /\ Ends(c, "panicked")

\* Mutant: only the routes a task names on its way out are removed.
JoinNext_NoRetain(c) ==
    /\ serving = "run" /\ task[c] \in {"finished", "panicked"}
    /\ task' = [task EXCEPT ![c] = "none"]
    /\ routes' = IF task[c] = "finished" THEN routes \ {c} ELSE routes
    /\ UNCHANGED <<admission, accepted, session, flows, live, serving, listener, failed>>

\* join_next: the task's routes, and every route without a receiver, are removed.
JoinNext(c) ==
    /\ serving = "run" /\ task[c] \in {"finished", "panicked"}
    /\ task' = [task EXCEPT ![c] = "none"]
    /\ routes' = (routes \ {c}) \cap Alive
    /\ UNCHANGED <<admission, accepted, session, flows, live, serving, listener, failed>>

\* stop, or accepted.closed(): the tasks are told, then joined.
ServeStops ==
    /\ serving = "run" /\ listener # "run" /\ serving' = "stopping"
    /\ UNCHANGED <<task, routes, admission, accepted, session, flows, live, listener, failed>>

ServeReturns ==
    /\ serving = "stopping" /\ \A c \in LiveTasks : task[c] \in {"finished", "panicked"}
    /\ serving' = "returned" /\ task' = [c \in Conns |-> "none"] /\ routes' = {}
    /\ UNCHANGED <<admission, accepted, session, flows, live, listener, failed>>

-----------------------------------------------------------------------------
(* serve_admitted                                                           *)

Rest == <<task, routes, accepted, live, serving, listener, failed>>

SessionDone(c) ==
    /\ session' = [session EXCEPT ![c] = "done"]
    /\ admission' = admission + IF session[c] = "first" THEN 1 ELSE 0
    /\ flows' = flows + IF HoldsFlow(c) THEN 1 ELSE 0
    /\ UNCHANGED Rest

\* Mutant: the permit is kept until the flow ends.
Authenticate_Keeps(c) ==
    /\ session[c] = "first"
    /\ \/ /\ c \in live /\ session' = [session EXCEPT ![c] = "hello"]
          /\ UNCHANGED <<Rest, admission, flows>>
       \/ SessionDone(c)

\* The first frame authenticates the peer and frees the permit, or the session ends:
\* a bad or missing frame, a timeout, the transport gone.
Authenticate(c) ==
    /\ session[c] = "first"
    /\ \/ /\ c \in live /\ session' = [session EXCEPT ![c] = "hello"]
          /\ admission' = admission + 1 /\ UNCHANGED <<Rest, flows>>
       \/ SessionDone(c)

\* ServerHello is sent and OpenTcp read, or an error frame ends the session.
ReadOpen(c) ==
    /\ session[c] = "hello"
    /\ \/ /\ c \in live /\ session' = [session EXCEPT ![c] = "open"]
          /\ UNCHANGED <<Rest, admission, flows>>
       \/ SessionDone(c)

\* try_user_flow_permit before the target is resolved and connected.
OpenTarget(c) ==
    /\ session[c] = "open"
    /\ \/ /\ flows > 0 /\ flows' = flows - 1 /\ session' = [session EXCEPT ![c] = "target"]
          /\ UNCHANGED <<Rest, admission>>
       \/ flows = 0 /\ SessionDone(c)

\* The target answers, or fails.
TargetOpen(c) ==
    /\ session[c] = "target"
    /\ \/ session' = [session EXCEPT ![c] = "relay"] /\ UNCHANGED <<Rest, admission, flows>>
       \/ SessionDone(c)

\* Mutant: the transport is not watched while the target is opened.
TransportGone_Late(c) == session[c] \in {"first", "hello", "relay"} /\ c \notin live /\ SessionDone(c)

\* tunnel.outbound.closed() ends a session that is waiting, also for its target.
TransportGone(c) ==
    /\ session[c] \in {"first", "hello", "target", "relay"} /\ c \notin live /\ SessionDone(c)

RelayEnds(c) == session[c] = "relay" /\ SessionDone(c)

-----------------------------------------------------------------------------
(* serve_listener                                                           *)

\* A connection is received and its session spawned; its own limit may end it at once.
Receive ==
    /\ listener = "run" /\ accepted # <<>> /\ accepted' = <<>>
    /\ \/ session' = [session EXCEPT ![Head(accepted)] = "first"] /\ UNCHANGED admission
       \/ session' = [session EXCEPT ![Head(accepted)] = "done"] /\ admission' = admission + 1
    /\ UNCHANGED <<task, routes, flows, live, serving, listener, failed>>

\* shutdown, or a session that panicked: serve is told to stop and awaited.
Shutdown ==
    /\ listener = "run" /\ listener' = "driver"
    /\ UNCHANGED <<task, routes, admission, accepted, session, flows, live, serving, failed>>

SessionPanics(c) ==
    /\ listener = "run" /\ session[c] \in {"first", "hello", "open", "target", "relay"}
    /\ session' = [session EXCEPT ![c] = "done"] /\ failed' = TRUE /\ listener' = "driver"
    /\ admission' = admission + IF session[c] = "first" THEN 1 ELSE 0
    /\ flows' = flows + IF HoldsFlow(c) THEN 1 ELSE 0
    /\ UNCHANGED <<task, routes, accepted, live, serving>>

DriverReturned ==
    /\ listener = "driver" /\ serving = "returned" /\ listener' = "abort"
    /\ UNCHANGED <<task, routes, admission, accepted, session, flows, live, serving, failed>>

\* abort_all and join_next; the channel is dropped with the connection in it.
Abort ==
    /\ listener = "abort" /\ listener' = "done"
    /\ admission' = admission + Cardinality({c \in Conns : session[c] = "first"}) + Len(accepted)
    /\ flows' = flows + Cardinality({c \in Conns : HoldsFlow(c)})
    /\ session' = [c \in Conns |-> IF session[c] = "none" THEN "none" ELSE "done"]
    /\ accepted' = <<>>
    /\ UNCHANGED <<task, routes, live, serving, failed>>

\* A source comes back with a new connection under the same identity.
Again(c) ==
    /\ session[c] = "done" /\ task[c] = "none" /\ serving = "run"
    /\ session' = [session EXCEPT ![c] = "none"]
    /\ UNCHANGED <<Rest, admission, flows>>

Done == listener = "done" /\ UNCHANGED vars

Progress ==
    \/ \E c \in Conns : SetupStops(c) \/ JoinNext(c) \/ TransportGone(c)
    \/ ServeStops \/ ServeReturns \/ DriverReturned \/ Abort

Next ==
    \/ \E c \in Conns :
         \/ Initial(c) \/ Handshake(c) \/ Offer(c) \/ DriverEnds(c) \/ TaskPanics(c)
         \/ Authenticate(c) \/ ReadOpen(c) \/ OpenTarget(c) \/ TargetOpen(c)
         \/ RelayEnds(c) \/ SessionPanics(c) \/ Again(c)
    \/ Receive \/ Shutdown \/ Progress \/ Done

Spec == Init /\ [][Next]_vars

-----------------------------------------------------------------------------

\* The pre-authentication permits and the connections that hold one add up through
\* the handoff from listener to session, failures, panics and a stop with a
\* connection in the channel; and so do the user's flows.
PermitsAddUp ==
    /\ admission + Cardinality({c \in Conns : HoldsAdmission(c)}) = PreAuth
    /\ flows + Cardinality({c \in Conns : HoldsFlow(c)}) = FlowPermits

\* No source has more live connections than its limit, and the routes that count for the
\* limit are those of tasks that are alive or not yet joined: a panic does not
\* leave a route that keeps the source out for ever.
SourceLimit ==
    /\ \A c \in Conns : Cardinality({d \in Alive : Source(d) = Source(c)})
                        <= max_connections_per_source
    /\ \A r \in routes : task[r] # "none"

\* A session whose transport is gone, also while its target is being resolved or
\* connected, ends and gives its permits back.
LostSessionsEnd == \A c \in Conns :
    (session[c] \in {"first", "hello", "target", "relay"} /\ c \notin live)
        ~> session[c] \in {"done", "none"}

\* shutdown returns although setups wait for their handshake or for room in the
\* channel nobody reads any more.
ShutdownReturns == listener = "driver" ~> listener = "done"

-----------------------------------------------------------------------------
(* The proofs.                                                              *)

\* What the configuration gives: numbers, and finitely many connections at a time.
H3Constants ==
    /\ IsFiniteSet(Conns) /\ PreAuth \in Nat /\ FlowPermits \in Nat
    /\ max_connections_per_source \in Nat

Holders == {c \in Conns : HoldsAdmission(c)}
Flowing == {c \in Conns : HoldsFlow(c)}
Handed(c) == \E i \in DOMAIN accepted : accepted[i] = c

\* The permit of a connection is in one place: a connection that was handed over is not
\* being set up, and has no session before it was received.
OnePlace ==
    /\ accepted = <<>> \/ \E c \in Conns : accepted = <<c>>
    /\ \A c \in Conns : Handed(c) => task[c] \notin Unauthenticated /\ session[c] = "none"
    /\ \A c \in Conns : session[c] # "none" => task[c] \notin Unauthenticated

\* The listener outlives serve, and serve its tasks.
StopsInTurn ==
    /\ serving = "returned" => \A c \in Conns : task[c] = "none"
    /\ listener \in {"abort", "done"} => serving = "returned"

\* A task that is alive has its route, and the routes of a source are within its limit.
RoutesCounted ==
    /\ Alive \subseteq routes /\ \A r \in routes : task[r] # "none"
    /\ \A c \in Conns : Cardinality({r \in routes : Source(r) = Source(c)}) <= max_connections_per_source

H3Inv == TypeOK /\ PermitsAddUp /\ OnePlace /\ StopsInTurn /\ RoutesCounted

\* A connection takes a permit, gives one back, or neither.
LEMMA PermitMoves ==
    ASSUME H3Constants, NEW N \in Nat, NEW n \in Nat, NEW S \in SUBSET Conns, n + Cardinality(S) = N,
           NEW m, NEW T, NEW c,
           \/ T = S /\ m = n
           \/ T = S \cup {c} /\ c \notin S /\ m = n - 1 /\ n > 0
           \/ T = S \ {c} /\ c \in S /\ m = n + 1
    PROVE  m \in 0..N /\ m + Cardinality(T) = N
<1>1. IsFiniteSet(S) /\ Cardinality(S) \in Nat
    BY FS_Subset, FS_CardinalityType DEF H3Constants
<1>2. CASE T = S /\ m = n
    BY <1>1, <1>2
<1>3. CASE T = S \cup {c} /\ c \notin S /\ m = n - 1 /\ n > 0
    <2>1. Cardinality(T) = Cardinality(S) + 1
        BY <1>1, <1>3, FS_AddElement
    <2>. QED BY <1>1, <1>3, <2>1
<1>4. CASE T = S \ {c} /\ c \in S /\ m = n + 1
    <2>1. Cardinality(T) = Cardinality(S) - 1 /\ Cardinality(T) \in Nat
        BY <1>1, <1>4, FS_RemoveElement, FS_CardinalityType
    <2>. QED BY <1>1, <1>4, <2>1
<1>. QED BY <1>2, <1>3, <1>4

\* The routes of a source can be counted.
LEMMA RoutesFinite ==
    ASSUME H3Constants, NEW R \in SUBSET Conns, NEW c
    PROVE  /\ IsFiniteSet({r \in R : Source(r) = Source(c)})
           /\ Cardinality({r \in R : Source(r) = Source(c)}) \in Nat
<1>1. {r \in R : Source(r) = Source(c)} \in SUBSET Conns
    OBVIOUS
<1>. QED BY <1>1, FS_Subset, FS_CardinalityType DEF H3Constants

\* With fewer routes the limit still holds.
LEMMA FewerRoutes ==
    ASSUME H3Constants, NEW R \in SUBSET Conns, NEW Q \in SUBSET R, NEW c,
           Cardinality({r \in R : Source(r) = Source(c)}) <= max_connections_per_source
    PROVE  Cardinality({r \in Q : Source(r) = Source(c)}) <= max_connections_per_source
<1>1. {r \in Q : Source(r) = Source(c)} \in SUBSET {r \in R : Source(r) = Source(c)}
    OBVIOUS
<1>2. Cardinality({r \in Q : Source(r) = Source(c)}) <= Cardinality({r \in R : Source(r) = Source(c)})
    BY <1>1, RoutesFinite, FS_Subset
<1>3. Q \in SUBSET Conns
    OBVIOUS
<1>4. /\ Cardinality({r \in Q : Source(r) = Source(c)}) \in Nat
      /\ Cardinality({r \in R : Source(r) = Source(c)}) \in Nat /\ max_connections_per_source \in Nat
    BY <1>3, RoutesFinite DEF H3Constants
<1>. QED BY <1>2, <1>4

\* What a connection holds.
LEMMA Held ==
    ASSUME H3Inv, NEW c \in Conns
    PROVE  /\ c \in Holders <=> task[c] \in Unauthenticated \/ Handed(c) \/ session[c] = "first"
           /\ c \in Flowing <=> session[c] \in {"target", "relay"}
           /\ task[c] \in Unauthenticated => ~Handed(c) /\ session[c] = "none"
           /\ Handed(c) => session[c] = "none"
           /\ Handed(c) <=> accepted = <<c>>
BY DEF H3Inv, OnePlace, Holders, Flowing, HoldsAdmission, HoldsFlow, Handed

\* A session goes on or ends; it frees the permit with the first frame.
LEMMA SessionKeeps ==
    ASSUME H3Constants, H3Inv, NEW c \in Conns, NEW s \in {"hello", "open", "target", "relay", "done"},
           session[c] \in {"first", "hello", "open", "target", "relay"},
           session' = [session EXCEPT ![c] = s],
           admission' = admission + IF session[c] = "first" THEN 1 ELSE 0,
           \/ flows' = flows /\ (session[c] \in {"target", "relay"} <=> s \in {"target", "relay"})
           \/ flows' = flows + 1 /\ session[c] \in {"target", "relay"} /\ s \notin {"target", "relay"}
           \/ flows' = flows - 1 /\ flows > 0 /\ session[c] \notin {"target", "relay"} /\ s \in {"target", "relay"},
           UNCHANGED <<task, routes, accepted, live, serving>>, failed' \in BOOLEAN,
           listener' = listener \/ (listener = "run" /\ listener' = "driver")
    PROVE  H3Inv'
<1>1. TypeOK /\ PermitsAddUp /\ OnePlace /\ StopsInTurn /\ RoutesCounted
    BY DEF H3Inv
<1>2. session'[c] = s /\ \A d \in Conns : d # c => session'[d] = session[d]
    BY <1>1 DEF TypeOK
<1>3. task[c] \notin Unauthenticated /\ ~Handed(c)
    BY Held
<1>4. Holders' = IF session[c] = "first" THEN Holders \ {c} ELSE Holders
    BY <1>2, <1>3 DEF Holders, HoldsAdmission, Handed
<1>5. c \in Holders <=> session[c] = "first"
    BY <1>3, Held
<1>6. admission' \in 0..PreAuth /\ admission' + Cardinality(Holders') = PreAuth
    <2>1. /\ admission \in Nat /\ PreAuth \in Nat /\ Holders \in SUBSET Conns
          /\ admission + Cardinality(Holders) = PreAuth
        BY <1>1 DEF TypeOK, PermitsAddUp, Holders, H3Constants
    <2>2. \/ Holders' = Holders /\ admission' = admission
          \/ Holders' = Holders \ {c} /\ c \in Holders /\ admission' = admission + 1
        BY <1>4, <1>5, <2>1
    <2>. QED BY <2>1, <2>2, PermitMoves
<1>7. \/ Flowing' = Flowing /\ flows' = flows
      \/ Flowing' = Flowing \cup {c} /\ c \notin Flowing /\ flows' = flows - 1 /\ flows > 0
      \/ Flowing' = Flowing \ {c} /\ c \in Flowing /\ flows' = flows + 1
    BY <1>2 DEF Flowing, HoldsFlow
<1>8. flows' \in 0..FlowPermits /\ flows' + Cardinality(Flowing') = FlowPermits
    <2>1. /\ flows \in Nat /\ FlowPermits \in Nat /\ Flowing \in SUBSET Conns
          /\ flows + Cardinality(Flowing) = FlowPermits
        BY <1>1 DEF TypeOK, PermitsAddUp, Flowing, H3Constants
    <2>. QED BY <1>7, <2>1, PermitMoves
<1>9. TypeOK'
    BY <1>1, <1>6, <1>8 DEF TypeOK
<1>10. PermitsAddUp'
    BY <1>6, <1>8 DEF PermitsAddUp, Holders, Flowing
<1>11. OnePlace'
    BY <1>1, <1>2, <1>3 DEF OnePlace, Handed
<1>12. StopsInTurn' /\ RoutesCounted'
    BY <1>1 DEF StopsInTurn, RoutesCounted, Alive
<1>. QED BY <1>9, <1>10, <1>11, <1>12 DEF H3Inv

\* A task of serve goes on or ends; one that had not handed its connection over gives its
\* permit back.
LEMMA TaskKeeps ==
    ASSUME H3Constants, H3Inv, NEW c \in Conns, NEW s \in {"offering", "finished", "panicked"},
           task[c] \in {"handshake", "offering", "driver"}, s = "offering" => task[c] = "handshake",
           task' = [task EXCEPT ![c] = s], live' \in SUBSET Conns,
           admission' = admission + IF s # "offering" /\ task[c] \in Unauthenticated THEN 1 ELSE 0,
           UNCHANGED <<routes, accepted, session, flows, serving, listener, failed>>
    PROVE  H3Inv'
<1>1. TypeOK /\ PermitsAddUp /\ OnePlace /\ StopsInTurn /\ RoutesCounted
    BY DEF H3Inv
<1>2. task'[c] = s /\ \A d \in Conns : d # c => task'[d] = task[d]
    BY <1>1 DEF TypeOK
<1>3. /\ task[c] \in Unauthenticated => ~Handed(c) /\ session[c] = "none" /\ c \in Holders
    BY Held
<1>4. Holders' = IF s # "offering" /\ task[c] \in Unauthenticated THEN Holders \ {c} ELSE Holders
    BY <1>2, <1>3 DEF Holders, HoldsAdmission, Handed, Unauthenticated
<1>5. admission' \in 0..PreAuth /\ admission' + Cardinality(Holders') = PreAuth
    <2>1. /\ admission \in Nat /\ PreAuth \in Nat /\ Holders \in SUBSET Conns
          /\ admission + Cardinality(Holders) = PreAuth
        BY <1>1 DEF TypeOK, PermitsAddUp, Holders, H3Constants
    <2>2. \/ Holders' = Holders /\ admission' = admission
          \/ Holders' = Holders \ {c} /\ c \in Holders /\ admission' = admission + 1
        BY <1>3, <1>4, <2>1
    <2>. QED BY <2>1, <2>2, PermitMoves
<1>6. TypeOK'
    BY <1>1, <1>5 DEF TypeOK
<1>7. PermitsAddUp'
    BY <1>1, <1>5 DEF PermitsAddUp, Holders, HoldsFlow
<1>8. OnePlace'
    BY <1>1, <1>2 DEF OnePlace, Handed, Unauthenticated
<1>9. StopsInTurn'
    BY <1>1, <1>2 DEF StopsInTurn
<1>10. RoutesCounted'
    BY <1>1, <1>2 DEF RoutesCounted, Alive
<1>. QED BY <1>6, <1>7, <1>8, <1>9, <1>10 DEF H3Inv

\* A connection is admitted: a permit, a task and a route.
LEMMA InitialKeeps ==
    ASSUME H3Constants, H3Inv, NEW c \in Conns, Initial(c)
    PROVE  H3Inv'
<1>1. TypeOK /\ PermitsAddUp /\ OnePlace /\ StopsInTurn /\ RoutesCounted
    BY DEF H3Inv
<1>2. /\ serving = "run" /\ task[c] = "none" /\ session[c] = "none" /\ c \notin routes /\ accepted # <<c>>
      /\ Cardinality({r \in routes : Source(r) = Source(c)}) < max_connections_per_source
      /\ admission > 0 /\ task' = [task EXCEPT ![c] = "handshake"] /\ routes' = routes \cup {c}
      /\ admission' = admission - 1 /\ live' = live \cup {c}
      /\ UNCHANGED <<accepted, session, flows, serving, listener, failed>>
    BY DEF Initial
<1>3. task'[c] = "handshake" /\ \A d \in Conns : d # c => task'[d] = task[d]
    BY <1>1, <1>2 DEF TypeOK
<1>4. c \notin Holders /\ ~Handed(c)
    BY <1>2, Held DEF Unauthenticated
<1>5. Holders' = Holders \cup {c}
    BY <1>2, <1>3 DEF Holders, HoldsAdmission, Unauthenticated
<1>6. admission' \in 0..PreAuth /\ admission' + Cardinality(Holders') = PreAuth
    <2>1. /\ admission \in Nat /\ PreAuth \in Nat /\ Holders \in SUBSET Conns
          /\ admission + Cardinality(Holders) = PreAuth
        BY <1>1 DEF TypeOK, PermitsAddUp, Holders, H3Constants
    <2>. QED BY <1>2, <1>4, <1>5, <2>1, PermitMoves
<1>7. TypeOK'
    BY <1>1, <1>2, <1>6 DEF TypeOK
<1>8. PermitsAddUp'
    BY <1>1, <1>2, <1>6 DEF PermitsAddUp, Holders, HoldsFlow
<1>9. OnePlace' /\ StopsInTurn'
    BY <1>1, <1>2, <1>3, <1>4 DEF OnePlace, Handed, StopsInTurn
<1>10. ASSUME NEW d \in Conns
       PROVE  Cardinality({r \in routes' : Source(r) = Source(d)}) <= max_connections_per_source
    <2>. DEFINE R == {r \in routes : Source(r) = Source(d)}
    <2>1. routes \in SUBSET Conns /\ IsFiniteSet(R) /\ Cardinality(R) \in Nat
        BY <1>1, RoutesFinite DEF TypeOK
    <2>2. CASE Source(c) = Source(d)
        <3>1. {r \in routes' : Source(r) = Source(d)} = R \cup {c} /\ c \notin R
            BY <1>2, <2>2
        <3>2. Cardinality(R \cup {c}) = Cardinality(R) + 1
            BY <2>1, <3>1, FS_AddElement
        <3>3. Cardinality(R) < max_connections_per_source
            BY <1>2, <2>2
        <3>. QED BY <2>1, <3>1, <3>2, <3>3 DEF H3Constants
    <2>3. CASE Source(c) # Source(d)
        <3>1. {r \in routes' : Source(r) = Source(d)} = R
            BY <1>2, <2>3
        <3>. QED BY <1>1, <3>1 DEF RoutesCounted
    <2>. QED BY <2>2, <2>3
<1>11. RoutesCounted'
    <2>1. Alive' \subseteq routes' /\ \A r \in routes' : task'[r] # "none"
        BY <1>1, <1>2, <1>3 DEF RoutesCounted, Alive, TypeOK
    <2>. QED BY <1>10, <2>1 DEF RoutesCounted
<1>. QED BY <1>7, <1>8, <1>9, <1>11 DEF H3Inv

\* A connection is handed over, its permit with it.
LEMMA OfferKeeps ==
    ASSUME H3Constants, H3Inv, NEW c \in Conns, task[c] = "offering", accepted = <<>>, listener # "done",
           accepted' = <<c>>, task' = [task EXCEPT ![c] = "driver"],
           UNCHANGED <<routes, admission, session, flows, live, serving, listener, failed>>
    PROVE  H3Inv'
<1>1. TypeOK /\ PermitsAddUp /\ OnePlace /\ StopsInTurn /\ RoutesCounted
    BY DEF H3Inv
<1>2. task'[c] = "driver" /\ \A d \in Conns : d # c => task'[d] = task[d]
    BY <1>1 DEF TypeOK
<1>3. session[c] = "none" /\ \A d : ~Handed(d) /\ (Handed(d)' <=> d = c)
    BY <1>1 DEF OnePlace, Handed, Unauthenticated
<1>4. Holders' = Holders
    BY <1>2, <1>3 DEF Holders, HoldsAdmission, Handed, Unauthenticated
<1>5. TypeOK' /\ StopsInTurn'
    BY <1>1, <1>2 DEF TypeOK, StopsInTurn
<1>6. PermitsAddUp'
    BY <1>1, <1>4 DEF PermitsAddUp, Holders, HoldsFlow
<1>7. OnePlace'
    BY <1>1, <1>2, <1>3 DEF OnePlace, Unauthenticated
<1>8. RoutesCounted'
    BY <1>1, <1>2 DEF RoutesCounted, Alive
<1>. QED BY <1>5, <1>6, <1>7, <1>8 DEF H3Inv

\* A task that is over holds nothing; with it go all routes nobody reads.
LEMMA JoinKeeps ==
    ASSUME H3Constants, H3Inv, NEW R \in SUBSET routes, NEW D \in SUBSET Conns,
           \A c \in D : task[c] \notin {"handshake", "offering", "driver"}, Alive \subseteq R,
           \A r \in R : r \notin D, routes' = R,
           task' = [c \in Conns |-> IF c \in D THEN "none" ELSE task[c]],
           \/ serving' = serving
           \/ serving # "returned" /\ serving' = "stopping"
           \/ serving' = "returned" /\ \A c \in Conns : task'[c] = "none",
           UNCHANGED <<admission, accepted, session, flows, live, failed>>,
           \/ listener' = listener
           \/ listener = "run" /\ listener' = "driver"
           \/ listener' = "abort" /\ serving' = "returned"
    PROVE  H3Inv'
<1>1. TypeOK /\ PermitsAddUp /\ OnePlace /\ StopsInTurn /\ RoutesCounted
    BY DEF H3Inv
<1>2. ASSUME NEW c \in Conns
      PROVE  task'[c] = task[c] \/ (task'[c] = "none" /\ task[c] \notin {"handshake", "offering", "driver"})
    <2>1. task'[c] = IF c \in D THEN "none" ELSE task[c]
        OBVIOUS
    <2>2. c \in D => task[c] \notin {"handshake", "offering", "driver"}
        OBVIOUS
    <2>. QED BY <2>1, <2>2
<1>3. Holders' = Holders
    BY <1>2 DEF Holders, HoldsAdmission, Unauthenticated
<1>4. TypeOK'
    BY <1>1 DEF TypeOK
<1>5. PermitsAddUp'
    BY <1>1, <1>3 DEF PermitsAddUp, Holders, HoldsFlow
<1>6. OnePlace'
    BY <1>1, <1>2 DEF OnePlace, Handed, Unauthenticated
<1>7. StopsInTurn'
    BY <1>1, <1>2 DEF StopsInTurn
<1>8. RoutesCounted'
    <2>1. Alive' \subseteq routes' /\ \A r \in routes' : task'[r] # "none"
        BY <1>1 DEF RoutesCounted, Alive, TypeOK
    <2>2. ASSUME NEW c \in Conns
          PROVE  Cardinality({r \in R : Source(r) = Source(c)}) <= max_connections_per_source
        <3>1. /\ routes \in SUBSET Conns
              /\ Cardinality({r \in routes : Source(r) = Source(c)}) <= max_connections_per_source
            BY <1>1 DEF RoutesCounted, TypeOK
        <3>. QED BY <3>1, FewerRoutes
    <2>. QED BY <2>1, <2>2 DEF RoutesCounted
<1>. QED BY <1>4, <1>5, <1>6, <1>7, <1>8 DEF H3Inv

\* A connection is received: its permit goes to the session, or back.
LEMMA ReceiveKeeps ==
    ASSUME H3Constants, H3Inv, Receive
    PROVE  H3Inv'
<1>1. TypeOK /\ PermitsAddUp /\ OnePlace /\ StopsInTurn /\ RoutesCounted
    BY DEF H3Inv
<1>2. PICK c \in Conns : accepted = <<c>>
    BY <1>1 DEF Receive, OnePlace
<1>3. /\ Handed(c) /\ task[c] \notin Unauthenticated /\ session[c] = "none" /\ c \in Holders
      /\ \A d : Handed(d) <=> d = c
    <2>1. \A d : Handed(d) <=> d = c
        BY <1>2 DEF Handed
    <2>. QED BY <1>1, <2>1, Held DEF OnePlace
<1>4. /\ accepted' = <<>> /\ UNCHANGED <<task, routes, flows, live, serving, listener, failed>>
      /\ \/ session' = [session EXCEPT ![c] = "first"] /\ admission' = admission
         \/ session' = [session EXCEPT ![c] = "done"] /\ admission' = admission + 1
    BY <1>2 DEF Receive
<1>5. /\ \A d \in Conns : d # c => session'[d] = session[d]
      /\ session'[c] \in {"first", "done"} /\ \A d : ~Handed(d)'
    BY <1>1, <1>4 DEF TypeOK, Handed
<1>6. /\ Holders' = IF session'[c] = "first" THEN Holders ELSE Holders \ {c}
      /\ Flowing' = Flowing
    BY <1>3, <1>4, <1>5 DEF Holders, HoldsAdmission, Handed, Flowing, HoldsFlow
<1>7. admission' \in 0..PreAuth /\ admission' + Cardinality(Holders') = PreAuth
    <2>1. /\ admission \in Nat /\ PreAuth \in Nat /\ Holders \in SUBSET Conns
          /\ admission + Cardinality(Holders) = PreAuth
        BY <1>1 DEF TypeOK, PermitsAddUp, Holders, H3Constants
    <2>2. \/ Holders' = Holders /\ admission' = admission
          \/ Holders' = Holders \ {c} /\ c \in Holders /\ admission' = admission + 1
        BY <1>1, <1>3, <1>4, <1>6 DEF TypeOK
    <2>. QED BY <2>1, <2>2, PermitMoves
<1>8. TypeOK'
    BY <1>1, <1>4, <1>7 DEF TypeOK
<1>9. PermitsAddUp'
    BY <1>1, <1>4, <1>6, <1>7 DEF PermitsAddUp, Holders, Flowing
<1>10. OnePlace'
    BY <1>1, <1>3, <1>4, <1>5 DEF OnePlace
<1>11. StopsInTurn' /\ RoutesCounted'
    BY <1>1, <1>4 DEF StopsInTurn, RoutesCounted, Alive
<1>. QED BY <1>8, <1>9, <1>10, <1>11 DEF H3Inv

\* The end of the listener gives back what the sessions and the channel still hold.
LEMMA AbortKeeps ==
    ASSUME H3Constants, H3Inv, Abort
    PROVE  H3Inv'
<1>. DEFINE First == {c \in Conns : session[c] = "first"}
            InChannel == {c \in Conns : Handed(c)}
<1>1. TypeOK /\ PermitsAddUp /\ OnePlace /\ StopsInTurn /\ RoutesCounted
    BY DEF H3Inv
<1>2. /\ listener = "abort" /\ listener' = "done" /\ accepted' = <<>>
      /\ admission' = admission + Cardinality(First) + Len(accepted)
      /\ flows' = flows + Cardinality(Flowing)
      /\ session' = [c \in Conns |-> IF session[c] = "none" THEN "none" ELSE "done"]
      /\ UNCHANGED <<task, routes, live, serving, failed>>
    BY DEF Abort, Flowing
<1>3. \A c \in Conns : task[c] = "none"
    BY <1>1, <1>2 DEF StopsInTurn
<1>4. Holders = First \cup InChannel /\ First \cap InChannel = {}
    BY <1>1, <1>3 DEF Holders, HoldsAdmission, Handed, Unauthenticated, OnePlace
<1>5. IsFiniteSet(InChannel) /\ Cardinality(InChannel) = Len(accepted)
    <2>1. CASE accepted = <<>>
        <3>1. InChannel = {} /\ Len(accepted) = 0
            BY <2>1 DEF Handed
        <3>. QED BY <3>1, FS_EmptySet
    <2>2. ASSUME NEW c \in Conns, accepted = <<c>>
          PROVE  IsFiniteSet(InChannel) /\ Cardinality(InChannel) = Len(accepted)
        <3>1. InChannel = {c} /\ Len(accepted) = 1
            BY <2>2 DEF Handed
        <3>. QED BY <3>1, FS_Singleton
    <2>. QED BY <1>1, <2>1, <2>2 DEF OnePlace
<1>6. IsFiniteSet(First) /\ Cardinality(First) \in Nat /\ Cardinality(Flowing) \in Nat
    <2>1. First \in SUBSET Conns /\ Flowing \in SUBSET Conns
        BY DEF Flowing
    <2>. QED BY <2>1, FS_Subset, FS_CardinalityType DEF H3Constants
<1>7. Cardinality(Holders) = Cardinality(First) + Len(accepted)
    <2>1. Cardinality(First \cup InChannel)
            = Cardinality(First) + Cardinality(InChannel) - Cardinality(First \cap InChannel)
        BY <1>5, <1>6, FS_Union
    <2>2. Cardinality(First \cap InChannel) = 0
        BY <1>4, FS_EmptySet
    <2>3. Len(accepted) \in Nat
        BY <1>1 DEF OnePlace
    <2>. HIDE DEF First, InChannel
    <2>. QED BY <1>4, <1>5, <1>6, <2>1, <2>2, <2>3
<1>8. Holders' = {} /\ Flowing' = {}
    BY <1>2, <1>3 DEF Holders, HoldsAdmission, Unauthenticated, Flowing, HoldsFlow
<1>9. /\ admission' = PreAuth /\ flows' = FlowPermits /\ PreAuth \in Nat /\ FlowPermits \in Nat
    <2>1. /\ admission \in Nat /\ admission + Cardinality(Holders) = PreAuth
          /\ flows \in Nat /\ flows + Cardinality(Flowing) = FlowPermits
        BY <1>1 DEF TypeOK, PermitsAddUp, Holders, Flowing, H3Constants
    <2>2. Len(accepted) \in Nat
        BY <1>1 DEF OnePlace
    <2>3. admission' = PreAuth
        BY <1>2, <1>6, <1>7, <2>1, <2>2
    <2>. QED BY <1>2, <2>1, <2>3 DEF H3Constants
<1>10. TypeOK'
    BY <1>1, <1>2, <1>9 DEF TypeOK
<1>11. PermitsAddUp'
    <2>1. Cardinality({}) = 0
        BY FS_EmptySet
    <2>2. admission' + Cardinality(Holders') = PreAuth /\ flows' + Cardinality(Flowing') = FlowPermits
        BY <1>8, <1>9, <2>1
    <2>. QED BY <2>2 DEF PermitsAddUp, Holders, Flowing
<1>12. OnePlace'
    BY <1>2, <1>3 DEF OnePlace, Handed, Unauthenticated
<1>13. StopsInTurn' /\ RoutesCounted'
    BY <1>1, <1>2 DEF StopsInTurn, RoutesCounted, Alive
<1>. QED BY <1>10, <1>11, <1>12, <1>13 DEF H3Inv

\* Every step of the listener, of a setup, a driver or a session keeps the invariant.
LEMMA ConnKeeps ==
    ASSUME H3Constants, H3Inv, NEW c \in Conns,
           \/ Initial(c) \/ Handshake(c) \/ Offer(c) \/ DriverEnds(c) \/ TaskPanics(c) \/ SetupStops(c)
           \/ Authenticate(c) \/ ReadOpen(c) \/ OpenTarget(c) \/ TargetOpen(c)
           \/ RelayEnds(c) \/ TransportGone(c) \/ SessionPanics(c)
    PROVE  H3Inv'
<1>1. ASSUME NEW how \in {"finished", "panicked"}, Ends(c, how), task[c] \in {"handshake", "offering", "driver"}
      PROVE  H3Inv'
    <2>1. live' \in SUBSET Conns
        BY <1>1 DEF Ends, H3Inv, TypeOK
    <2>. QED BY <1>1, <2>1, TaskKeeps DEF Ends
<1>2. ASSUME SessionDone(c), session[c] \in {"first", "hello", "open", "target", "relay"}
      PROVE  H3Inv'
    <2>1. /\ session' = [session EXCEPT ![c] = "done"]
          /\ admission' = admission + IF session[c] = "first" THEN 1 ELSE 0
          /\ flows' = flows + IF session[c] \in {"target", "relay"} THEN 1 ELSE 0
          /\ UNCHANGED <<task, routes, accepted, live, serving, listener, failed>>
        BY <1>2 DEF SessionDone, HoldsFlow, Rest
    <2>2. flows \in Nat /\ failed' \in BOOLEAN
        BY <2>1 DEF H3Inv, TypeOK, H3Constants
    <2>3. CASE session[c] \in {"target", "relay"}
        <3>1. flows' = flows + 1
            BY <2>1, <2>3
        <3>. QED BY <1>2, <2>1, <2>2, <2>3, <3>1, SessionKeeps
    <2>4. CASE session[c] \notin {"target", "relay"}
        <3>1. flows' = flows
            BY <2>1, <2>2, <2>4
        <3>. QED BY <1>2, <2>1, <2>2, <2>4, <3>1, SessionKeeps
    <2>. QED BY <2>3, <2>4
<1>3. CASE Initial(c)
    BY <1>3, InitialKeeps
<1>4. CASE Handshake(c)
    <2>1. CASE Ends(c, "finished")
        BY <1>1, <1>4, <2>1 DEF Handshake
    <2>2. CASE /\ task' = [task EXCEPT ![c] = "offering"]
               /\ UNCHANGED <<routes, admission, accepted, session, flows, live, serving, listener, failed>>
        <3>1. live' \in SUBSET Conns /\ task[c] = "handshake"
            BY <1>4, <2>2 DEF H3Inv, TypeOK, Handshake
        <3>2. admission' = admission + IF "offering" # "offering" /\ task[c] \in Unauthenticated THEN 1 ELSE 0
            BY <2>2 DEF H3Inv, TypeOK, H3Constants
        <3>. QED BY <2>2, <3>1, <3>2, TaskKeeps
    <2>. QED BY <1>4, <2>1, <2>2 DEF Handshake
<1>5. CASE Offer(c)
    BY <1>1, <1>5, OfferKeeps DEF Offer
<1>6. CASE DriverEnds(c) \/ TaskPanics(c) \/ SetupStops(c)
    BY <1>1, <1>6 DEF DriverEnds, TaskPanics, SetupStops, Alive
<1>7. admission \in Nat /\ flows \in Nat /\ failed \in BOOLEAN
    BY DEF H3Inv, TypeOK, H3Constants
<1>8. CASE Authenticate(c)
    <2>1. CASE session' = [session EXCEPT ![c] = "hello"] /\ admission' = admission + 1 /\ UNCHANGED <<Rest, flows>>
        BY <1>7, <1>8, <2>1, SessionKeeps DEF Authenticate, Rest
    <2>. QED BY <1>2, <1>8, <2>1 DEF Authenticate
<1>9. CASE ReadOpen(c)
    <2>1. CASE session' = [session EXCEPT ![c] = "open"] /\ UNCHANGED <<Rest, admission, flows>>
        <3>1. /\ session[c] = "hello" /\ admission' = admission + IF session[c] = "first" THEN 1 ELSE 0
              /\ UNCHANGED <<task, routes, accepted, live, serving, listener>> /\ failed' \in BOOLEAN
            BY <1>7, <1>9, <2>1 DEF ReadOpen, Rest
        <3>. QED BY <2>1, <3>1, SessionKeeps
    <2>. QED BY <1>2, <1>9, <2>1 DEF ReadOpen
<1>10. CASE OpenTarget(c)
    <2>1. CASE /\ flows > 0 /\ flows' = flows - 1 /\ session' = [session EXCEPT ![c] = "target"]
               /\ UNCHANGED <<Rest, admission>>
        <3>1. /\ session[c] = "open" /\ admission' = admission + IF session[c] = "first" THEN 1 ELSE 0
              /\ UNCHANGED <<task, routes, accepted, live, serving, listener>> /\ failed' \in BOOLEAN
            BY <1>7, <1>10, <2>1 DEF OpenTarget, Rest
        <3>. QED BY <2>1, <3>1, SessionKeeps
    <2>. QED BY <1>2, <1>10, <2>1 DEF OpenTarget
<1>11. CASE TargetOpen(c)
    <2>1. CASE session' = [session EXCEPT ![c] = "relay"] /\ UNCHANGED <<Rest, admission, flows>>
        <3>1. /\ session[c] = "target" /\ admission' = admission + IF session[c] = "first" THEN 1 ELSE 0
              /\ UNCHANGED <<task, routes, accepted, live, serving, listener>> /\ failed' \in BOOLEAN
            BY <1>7, <1>11, <2>1 DEF TargetOpen, Rest
        <3>. QED BY <2>1, <3>1, SessionKeeps
    <2>. QED BY <1>2, <1>11, <2>1 DEF TargetOpen
<1>12. CASE RelayEnds(c) \/ TransportGone(c)
    BY <1>2, <1>12 DEF RelayEnds, TransportGone
<1>13. CASE SessionPanics(c)
    <2>1. /\ session[c] \in {"first", "hello", "open", "target", "relay"}
          /\ session' = [session EXCEPT ![c] = "done"]
          /\ admission' = admission + IF session[c] = "first" THEN 1 ELSE 0
          /\ flows' = flows + IF session[c] \in {"target", "relay"} THEN 1 ELSE 0
          /\ UNCHANGED <<task, routes, accepted, live, serving>>
          /\ failed' \in BOOLEAN /\ listener = "run" /\ listener' = "driver"
        BY <1>13 DEF SessionPanics, HoldsFlow
    <2>2. CASE session[c] \in {"target", "relay"}
        <3>1. flows' = flows + 1
            BY <2>1, <2>2
        <3>. QED BY <2>1, <2>2, <3>1, SessionKeeps
    <2>3. CASE session[c] \notin {"target", "relay"}
        <3>1. flows' = flows
            BY <1>7, <2>1, <2>3
        <3>. QED BY <2>1, <2>3, <3>1, SessionKeeps
    <2>. QED BY <2>2, <2>3
<1>. QED BY <1>3, <1>4, <1>5, <1>6, <1>8, <1>9, <1>10, <1>11, <1>12, <1>13

\* The routes that go with a task that is joined, and with all of them when serve returns.
LEMMA ServeKeeps ==
    ASSUME H3Constants, H3Inv,
           \/ \E c \in Conns : JoinNext(c)
           \/ ServeStops \/ ServeReturns \/ Shutdown \/ DriverReturned
    PROVE  H3Inv'
<1>1. /\ task \in [Conns -> {"none", "handshake", "offering", "driver", "finished", "panicked"}]
      /\ routes \subseteq Conns /\ Alive \subseteq routes
    BY DEF H3Inv, TypeOK, RoutesCounted
<1>2. ASSUME NEW c \in Conns, JoinNext(c)
      PROVE  H3Inv'
    <2>1. /\ task[c] \in {"finished", "panicked"} /\ routes' = (routes \ {c}) \cap Alive
          /\ task' = [d \in Conns |-> IF d \in {c} THEN "none" ELSE task[d]]
          /\ UNCHANGED <<admission, accepted, session, flows, live, serving, listener, failed>>
        BY <1>1, <1>2 DEF JoinNext
    <2>2. c \notin Alive
        BY <2>1 DEF Alive
    <2>3. /\ (routes \ {c}) \cap Alive \in SUBSET routes /\ Alive \subseteq (routes \ {c}) \cap Alive
          /\ {c} \in SUBSET Conns /\ \A d \in {c} : task[d] \notin {"handshake", "offering", "driver"}
          /\ \A r \in (routes \ {c}) \cap Alive : r \notin {c}
        BY <1>1, <2>1, <2>2
    <2>. QED BY <2>1, <2>3, JoinKeeps
<1>3. CASE ServeReturns
    <2>1. /\ \A c \in Conns : task[c] \in {"none", "finished", "panicked"}
          /\ serving' = "returned" /\ routes' = {}
          /\ task' = [c \in Conns |-> IF c \in Conns THEN "none" ELSE task[c]]
          /\ UNCHANGED <<admission, accepted, session, flows, live, listener, failed>>
        BY <1>1, <1>3 DEF ServeReturns, LiveTasks
    <2>2. Alive = {} /\ \A c \in Conns : task'[c] = "none"
        BY <2>1 DEF Alive
    <2>3. /\ {} \in SUBSET routes /\ Conns \in SUBSET Conns /\ \A r \in {} : r \notin Conns
          /\ \A c \in Conns : task[c] \notin {"handshake", "offering", "driver"}
        BY <2>1
    <2>. QED BY <2>1, <2>2, <2>3, JoinKeeps
<1>4. CASE ServeStops \/ Shutdown \/ DriverReturned
    <2>1. /\ UNCHANGED <<task, routes, admission, accepted, session, flows, live, failed>>
          /\ serving' = serving \/ (serving = "run" /\ serving' = "stopping")
          /\ \/ listener' = listener
             \/ listener = "run" /\ listener' = "driver"
             \/ listener' = "abort" /\ serving' = "returned"
        BY <1>4 DEF ServeStops, Shutdown, DriverReturned
    <2>2. task' = [c \in Conns |-> IF c \in {} THEN "none" ELSE task[c]]
        BY <1>1, <2>1
    <2>3. routes \in SUBSET routes /\ {} \in SUBSET Conns /\ Alive \subseteq routes /\ routes' = routes
        BY <1>1, <2>1
    <2>4. (\A d \in {} : task[d] \notin {"handshake", "offering", "driver"}) /\ (\A r \in routes : r \notin {})
        OBVIOUS
    <2>. QED BY <2>1, <2>2, <2>3, <2>4, JoinKeeps
<1>. QED BY <1>2, <1>3, <1>4

\* A session that was over is forgotten.
LEMMA AgainKeeps ==
    ASSUME H3Constants, H3Inv, NEW c \in Conns, Again(c)
    PROVE  H3Inv'
<1>1. TypeOK /\ PermitsAddUp /\ OnePlace /\ StopsInTurn /\ RoutesCounted
    BY DEF H3Inv
<1>2. /\ session[c] = "done" /\ session' = [session EXCEPT ![c] = "none"]
      /\ UNCHANGED <<task, routes, accepted, live, serving, listener, failed, admission, flows>>
    BY DEF Again, Rest
<1>3. session'[c] = "none" /\ \A d \in Conns : d # c => session'[d] = session[d]
    BY <1>1, <1>2 DEF TypeOK
<1>4. Holders' = Holders /\ Flowing' = Flowing
    BY <1>2, <1>3 DEF Holders, HoldsAdmission, Flowing, HoldsFlow
<1>5. TypeOK' /\ StopsInTurn' /\ RoutesCounted'
    BY <1>1, <1>2 DEF TypeOK, StopsInTurn, RoutesCounted, Alive
<1>6. PermitsAddUp'
    BY <1>1, <1>2, <1>4 DEF PermitsAddUp, Holders, Flowing
<1>7. OnePlace'
    BY <1>1, <1>2, <1>3 DEF OnePlace, Handed
<1>. QED BY <1>5, <1>6, <1>7 DEF H3Inv

\* The permits of a connection are in one place, serve and its listener end in turn, and
\* the routes of a source are within its limit, in every reachable state.
THEOREM H3Invariance == ASSUME H3Constants PROVE Spec => []H3Inv
<1>1. Init => H3Inv
    <2>. SUFFICES ASSUME Init PROVE H3Inv
        OBVIOUS
    <2>1. Holders = {} /\ Flowing = {} /\ Cardinality({}) = 0
        BY FS_EmptySet DEF Init, Holders, HoldsAdmission, Unauthenticated, Flowing, HoldsFlow
    <2>2. TypeOK
        <3>1. admission \in 0..PreAuth /\ flows \in 0..FlowPermits /\ Len(accepted) <= 1
            BY DEF Init, H3Constants
        <3>2. failed \in BOOLEAN
            BY DEF Init
        <3>. QED BY <3>1, <3>2 DEF Init, TypeOK
    <2>3. PermitsAddUp /\ OnePlace /\ StopsInTurn
        <3>1. admission + Cardinality(Holders) = PreAuth /\ flows + Cardinality(Flowing) = FlowPermits
            BY <2>1 DEF Init, H3Constants
        <3>2. OnePlace /\ StopsInTurn
            BY DEF Init, OnePlace, Handed, StopsInTurn
        <3>. QED BY <3>1, <3>2 DEF PermitsAddUp, Holders, Flowing
    <2>4. \A c \in Conns : {r \in {} : Source(r) = Source(c)} = {}
        OBVIOUS
    <2>5. RoutesCounted
        BY <2>1, <2>4 DEF Init, RoutesCounted, Alive, H3Constants
    <2>. QED BY <2>2, <2>3, <2>5 DEF H3Inv
<1>2. H3Inv /\ [Next]_vars => H3Inv'
    <2>1. ASSUME H3Inv, UNCHANGED vars PROVE H3Inv'
        <3>1. UNCHANGED <<task, routes, admission, accepted, session, flows, live, serving, listener, failed>>
            BY <2>1 DEF vars
        <3>2. TypeOK' /\ StopsInTurn' /\ RoutesCounted'
            BY <2>1, <3>1 DEF H3Inv, TypeOK, StopsInTurn, RoutesCounted, Alive
        <3>3. Holders' = Holders /\ Flowing' = Flowing
            BY <3>1 DEF Holders, HoldsAdmission, Flowing, HoldsFlow
        <3>4. PermitsAddUp' /\ OnePlace'
            BY <2>1, <3>1, <3>3 DEF H3Inv, PermitsAddUp, Holders, Flowing, OnePlace, Handed
        <3>. QED BY <3>2, <3>4 DEF H3Inv
    <2>. QED BY <2>1, ConnKeeps, ServeKeeps, ReceiveKeeps, AbortKeeps, AgainKeeps DEF Next, Progress, Done
<1>. QED BY <1>1, <1>2, PTL DEF Spec

\* The pre-authentication permits and the flows of the user add up whatever becomes of a
\* connection between serve, the channel and its session.
THEOREM H3PermitsAddUp == ASSUME H3Constants PROVE Spec => []PermitsAddUp
<1>1. H3Inv => PermitsAddUp
    BY DEF H3Inv
<1>. QED BY <1>1, H3Invariance, PTL

\* serve admits no more connections of a source than its limit, and leaves no route behind.
THEOREM H3SourceLimit == ASSUME H3Constants PROVE Spec => []SourceLimit
<1>1. H3Inv => SourceLimit
    <2>1. ASSUME H3Inv, NEW c \in Conns
          PROVE  Cardinality({d \in Alive : Source(d) = Source(c)}) <= max_connections_per_source
        <3>1. /\ routes \in SUBSET Conns /\ Alive \in SUBSET routes
              /\ Cardinality({r \in routes : Source(r) = Source(c)}) <= max_connections_per_source
            BY <2>1 DEF H3Inv, TypeOK, RoutesCounted
        <3>. QED BY <3>1, FewerRoutes
    <2>. QED BY <2>1 DEF SourceLimit, H3Inv, RoutesCounted
<1>. QED BY <1>1, H3Invariance, PTL
=============================================================================
