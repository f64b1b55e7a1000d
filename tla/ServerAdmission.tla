--------------------------- MODULE ServerAdmission ---------------------------
(***************************************************************************)
(* Admission of work on the server (crates/maverick-server/src/server.rs   *)
(* and auth_gate.rs): connections pass the global and the per-source limit *)
(* and take a pre-authentication permit; every request on an h2 connection *)
(* takes one too; fallback responses and user flows have permits of their  *)
(* own.  Connection tasks belong to serve's JoinSet, request tasks to the  *)
(* JoinSet of their connection: dropping a connection aborts its requests. *)
(*                                                                         *)
(* Conns and Streams are slots, reused when a task is gone.  Code between  *)
(* two awaits is one action, except where two threads meet inside it: the  *)
(* connection limit is an atomic counter and a mutex taken one by one.     *)
(***************************************************************************)
EXTENDS Integers, FiniteSets

CONSTANTS
    Conns, Streams, Sources,
    source,         \* the peer address of each connection
    owner,          \* the connection each request arrives on
    global_limit, per_source_limit,
    pre_auth_max_concurrent, fallback_max_concurrent,
    max_concurrent_flows,
    max_auth_failures_per_window, auth_failure_cache_max_entries,
    active_probe_resistance, ws_enabled

ASSUME AdmissionAssumption ==
    /\ IsFiniteSet(Conns) /\ IsFiniteSet(Streams) /\ IsFiniteSet(Sources)
    /\ \A c \in Conns : source[c] \in Sources
    /\ \A s \in Streams : owner[s] \in Conns
    /\ {global_limit, per_source_limit, pre_auth_max_concurrent, fallback_max_concurrent,
        max_concurrent_flows, max_auth_failures_per_window,
        auth_failure_cache_max_entries} \subseteq Nat

VARIABLES
    serving,        \* the accept loop of serve
    conn,           \* what each connection is doing
    stream,         \* what each request task is doing
    aborted,        \* request tasks that will only be dropped
    global_count, source_counts,           \* ConnectionLimitTracker
    pre_auth_admission, fallback_admission, flow_limit,   \* free permits
    windows         \* AuthFailureTracker: failures per source, -1 if absent

limits == <<global_count, source_counts>>
permits == <<pre_auth_admission, fallback_admission, flow_limit>>
tasks == <<conn, stream, aborted>>
admission == <<serving, tasks, limits, permits, windows>>

AtLeastOne(n) == IF n = 0 THEN 1 ELSE n

\* A connection's life.  "entering": counted globally, not yet per source;
\* "leave_global" and "leave_source": the two halves of the guard's drop.
ConnStates == {"none", "entering", "entered", "tls", "h2_handshake", "h2",
               "inline_fallback", "joining", "ws_handshake", "ws_first",
               "ws_closing", "ws_open", "ws_flow", "leave_global",
               "leave_source"}
StreamStates == {"none", "body", "first_frame", "rejected", "fallback",
                 "open_wait", "flow"}

\* The connections and requests that hold each kind of permit.
ConnPreAuth == {"tls", "h2_handshake", "h2", "inline_fallback", "joining",
                "ws_handshake", "ws_first", "ws_closing"}
StreamPreAuth == {"body", "first_frame", "rejected", "fallback"}

InConn(P) == {c \in Conns : conn[c] \in P}
InStream(P) == {s \in Streams : stream[s] \in P}

\* The requests of c that run (an aborted one belongs to a past connection).
StreamsOf(c) ==
    {s \in Streams : stream[s] # "none" /\ owner[s] = c /\ s \notin aborted}

AdmissionTypeOK ==
    /\ serving \in {"accepting", "draining", "stopped"}
    /\ conn \in [Conns -> ConnStates]
    /\ stream \in [Streams -> StreamStates]
    /\ aborted \in SUBSET Streams
    /\ global_count \in Nat /\ source_counts \in [Sources -> Nat]
    /\ pre_auth_admission \in 0..pre_auth_max_concurrent
    /\ fallback_admission \in 0..fallback_max_concurrent
    /\ flow_limit \in 0..AtLeastOne(max_concurrent_flows)
    /\ windows \in [Sources -> -1..max_auth_failures_per_window]
    /\ Cardinality({a \in Sources : windows[a] # -1})
            <= auth_failure_cache_max_entries

AdmissionInit ==
    /\ serving = "accepting"
    /\ conn = [c \in Conns |-> "none"]
    /\ stream = [s \in Streams |-> "none"]
    /\ aborted = {}
    /\ global_count = 0 /\ source_counts = [a \in Sources |-> 0]
    /\ pre_auth_admission = pre_auth_max_concurrent
    /\ fallback_admission = fallback_max_concurrent
    /\ flow_limit = AtLeastOne(max_concurrent_flows)
    /\ windows = [a \in Sources |-> -1]

ConnTo(c, state) == conn' = [conn EXCEPT ![c] = state]
StreamTo(s, state) == stream' = [stream EXCEPT ![s] = state]

-----------------------------------------------------------------------------
\* serve: the accept loop, try_connection_limit and try_pre_auth_admission

\* try_enter_global's compare-exchange; only the accept loop enters.
Accept(c) ==
    /\ serving = "accepting" /\ conn[c] = "none"
    /\ InConn({"entering", "entered"}) = {}
    /\ global_count < AtLeastOne(global_limit)
    /\ global_count' = global_count + 1
    /\ ConnTo(c, "entering")
    /\ UNCHANGED <<serving, stream, aborted, source_counts, permits, windows>>

\* Mutant: a per-source rejection keeps its place in the global count.
EnterSource_KeepsGlobal(c) ==
    /\ conn[c] = "entering"
    /\ LET a == source[c]
       IN  IF source_counts[a] >= AtLeastOne(per_source_limit)
           THEN ConnTo(c, "none") /\ UNCHANGED source_counts
           ELSE /\ source_counts' = [source_counts EXCEPT ![a] = @ + 1]
                /\ ConnTo(c, "entered")
    /\ UNCHANGED <<serving, stream, aborted, global_count, permits, windows>>

\* Mutant: the per-source comparison is off by one.
EnterSource_OffByOne(c) ==
    /\ conn[c] = "entering"
    /\ LET a == source[c]
       IN  IF source_counts[a] > AtLeastOne(per_source_limit)
           THEN /\ global_count' = global_count - 1 /\ ConnTo(c, "none")
                /\ UNCHANGED source_counts
           ELSE /\ source_counts' = [source_counts EXCEPT ![a] = @ + 1]
                /\ ConnTo(c, "entered") /\ UNCHANGED global_count
    /\ UNCHANGED <<serving, stream, aborted, permits, windows>>

\* try_enter's section under the source mutex.
EnterSource(c) ==
    /\ conn[c] = "entering"
    /\ LET a == source[c]
       IN  IF source_counts[a] >= AtLeastOne(per_source_limit)
           THEN /\ global_count' = global_count - 1 /\ ConnTo(c, "none")
                /\ UNCHANGED source_counts
           ELSE /\ source_counts' = [source_counts EXCEPT ![a] = @ + 1]
                /\ ConnTo(c, "entered") /\ UNCHANGED global_count
    /\ UNCHANGED <<serving, stream, aborted, permits, windows>>

AdmitConnection(c) ==
    /\ conn[c] = "entered"
    /\ IF pre_auth_admission > 0
       THEN /\ pre_auth_admission' = pre_auth_admission - 1
            /\ ConnTo(c, "tls")
       ELSE ConnTo(c, "leave_global") /\ UNCHANGED pre_auth_admission
    /\ UNCHANGED <<serving, stream, aborted, limits, fallback_admission,
                   flow_limit, windows>>

\* ConnectionLimitTracker::leave, on whichever thread drops the guard.
LeaveGlobal(c) ==
    /\ conn[c] = "leave_global"
    /\ global_count' = global_count - 1 /\ ConnTo(c, "leave_source")
    /\ UNCHANGED <<serving, stream, aborted, source_counts, permits, windows>>

LeaveSource(c) ==
    /\ conn[c] = "leave_source"
    /\ source_counts' = [source_counts EXCEPT ![source[c]] = @ - 1]
    /\ ConnTo(c, "none")
    /\ UNCHANGED <<serving, stream, aborted, global_count, permits, windows>>

\* The connection's future returns or is dropped: its permits go back, its
\* JoinSet aborts the requests that still run.
Returned(free, holds) == IF holds THEN free + 1 ELSE free

\* Mutant: request tasks are detached instead of owned by a JoinSet.
EndConn_Detached(c) ==
    /\ ConnTo(c, "leave_global")
    /\ pre_auth_admission' =
            Returned(pre_auth_admission, conn[c] \in ConnPreAuth)
    /\ fallback_admission' =
            Returned(fallback_admission, conn[c] = "inline_fallback")
    /\ flow_limit' = Returned(flow_limit, conn[c] = "ws_flow")
    /\ UNCHANGED <<serving, stream, aborted, limits, windows>>

EndConn(c) ==
    /\ ConnTo(c, "leave_global")
    /\ aborted' = aborted \cup StreamsOf(c)
    /\ pre_auth_admission' =
            Returned(pre_auth_admission, conn[c] \in ConnPreAuth)
    /\ fallback_admission' =
            Returned(fallback_admission, conn[c] = "inline_fallback")
    /\ flow_limit' = Returned(flow_limit, conn[c] = "ws_flow")
    /\ UNCHANGED <<serving, stream, limits, windows>>

-----------------------------------------------------------------------------
\* handle_tcp

HandshakeOk(c) ==
    /\ \/ conn[c] = "tls" /\ ConnTo(c, "h2_handshake")
       \/ conn[c] = "tls" /\ ws_enabled /\ ConnTo(c, "ws_handshake")
       \/ conn[c] = "h2_handshake" /\ ConnTo(c, "h2")
       \/ conn[c] = "ws_handshake" /\ ConnTo(c, "ws_first")
    /\ UNCHANGED <<serving, stream, aborted, limits, permits, windows>>

\* A handshake fails or its handshake_timeout_ms passes.
HandshakeFails(c) ==
    conn[c] \in {"tls", "h2_handshake", "ws_handshake"} /\ EndConn(c)

\* A request is accepted, with a pre-authentication permit of its own; it is
\* for the tunnel path or not.
AcceptStream(s) ==
    /\ conn[owner[s]] = "h2" /\ stream[s] = "none"
    /\ pre_auth_admission > 0
    /\ pre_auth_admission' = pre_auth_admission - 1
    /\ StreamTo(s, "first_frame") \/ StreamTo(s, "body")
    /\ UNCHANGED <<serving, conn, aborted, limits, fallback_admission,
                   flow_limit, windows>>

\* No permit for the request: with active probe resistance the accept loop
\* itself serves the fallback, if there is a permit for that.
InlineFallback(c) ==
    /\ conn[c] = "h2" /\ pre_auth_admission = 0
    /\ active_probe_resistance /\ fallback_admission > 0
    /\ fallback_admission' = fallback_admission - 1
    /\ ConnTo(c, "inline_fallback")
    /\ UNCHANGED <<serving, stream, aborted, limits, pre_auth_admission,
                   flow_limit, windows>>

InlineFallbackDone(c) ==
    /\ conn[c] = "inline_fallback"
    /\ fallback_admission' = fallback_admission + 1 /\ ConnTo(c, "h2")
    /\ UNCHANGED <<serving, stream, aborted, limits, pre_auth_admission,
                   flow_limit, windows>>

\* accept returns None, or idle_timeout passes with no active stream.
StopAccepting(c) ==
    /\ conn[c] = "h2" /\ ConnTo(c, "joining")
    /\ UNCHANGED <<serving, stream, aborted, limits, permits, windows>>

ConnIdle(c) == StreamsOf(c) = {} /\ StopAccepting(c)

ConnError(c) == conn[c] = "h2" /\ EndConn(c)

Joined(c) == conn[c] = "joining" /\ StreamsOf(c) = {} /\ EndConn(c)

-----------------------------------------------------------------------------
\* AuthFailureTracker::record_failure, under its mutex

TableFull(a) ==
    /\ windows[a] = -1
    /\ Cardinality({b \in Sources : windows[b] # -1})
            >= auth_failure_cache_max_entries
Failures(a) == IF windows[a] = -1 THEN 0 ELSE windows[a]
RateLimited(a) == TableFull(a) \/ Failures(a) >= max_auth_failures_per_window

\* Mutant: failures are counted past the limit.
record_failure_Unbounded(a) ==
    windows' = IF TableFull(a) THEN windows
               ELSE [windows EXCEPT ![a] = Failures(a) + 1]

record_failure(a) ==
    windows' = IF TableFull(a) THEN windows
               ELSE [windows EXCEPT ![a] =
                        IF RateLimited(a) THEN Failures(a) ELSE Failures(a) + 1]

\* A window has passed; prune_expired drops it before the next decision.
WindowElapses(a) ==
    /\ windows[a] # -1 /\ windows' = [windows EXCEPT ![a] = -1]
    /\ UNCHANGED <<serving, tasks, limits, permits>>

-----------------------------------------------------------------------------
\* handle_ws_tunnel

WsAuthenticated(c) ==
    /\ conn[c] = "ws_first" /\ ConnTo(c, "ws_open")
    /\ pre_auth_admission' = pre_auth_admission + 1
    /\ UNCHANGED <<serving, stream, aborted, limits, fallback_admission,
                   flow_limit, windows>>

\* No valid ClientHello, or the first-frame timeout: reject_ws_auth_failure.
WsRejected(c) ==
    /\ conn[c] = "ws_first" /\ ConnTo(c, "ws_closing")
    /\ record_failure(source[c])
    /\ UNCHANGED <<serving, stream, aborted, limits, permits>>

WsOpened(c) ==
    /\ conn[c] = "ws_open" /\ flow_limit > 0
    /\ flow_limit' = flow_limit - 1 /\ ConnTo(c, "ws_flow")
    /\ UNCHANGED <<serving, stream, aborted, limits, pre_auth_admission,
                   fallback_admission, windows>>

\* No open frame in time, no flow permit, or the flow is over.
WsEnds(c) == conn[c] \in {"ws_open", "ws_flow"} /\ EndConn(c)

WsClosed(c) == conn[c] = "ws_closing" /\ EndConn(c)

-----------------------------------------------------------------------------
\* handle_request and handle_tunnel

Running(s, state) == stream[s] = state /\ s \notin aborted

\* The task ends or is dropped, with every permit it holds.
ReleaseStream(s) ==
    /\ StreamTo(s, "none") /\ aborted' = aborted \ {s}
    /\ pre_auth_admission' =
            Returned(pre_auth_admission, stream[s] \in StreamPreAuth)
    /\ fallback_admission' =
            Returned(fallback_admission, stream[s] = "fallback")
    /\ flow_limit' = Returned(flow_limit, stream[s] = "flow")
    /\ UNCHANGED <<serving, conn, limits>>

EndStream(s) == ReleaseStream(s) /\ UNCHANGED windows

\* Mutant: the permit is kept for the life of the session.
Authenticated_KeepsPermit(s) ==
    /\ Running(s, "first_frame") /\ StreamTo(s, "open_wait")
    /\ UNCHANGED <<serving, conn, aborted, limits, permits, windows>>

\* A valid ClientHello: the permit goes back before ServerHello is sent.
Authenticated(s) ==
    /\ Running(s, "first_frame") /\ StreamTo(s, "open_wait")
    /\ pre_auth_admission' = pre_auth_admission + 1
    /\ UNCHANGED <<serving, conn, aborted, limits, fallback_admission,
                   flow_limit, windows>>

\* Mutant: the first frame is awaited without a timeout.
NotAuthenticated_NoTimeout(s) ==
    /\ FALSE /\ StreamTo(s, "rejected")
    /\ UNCHANGED <<serving, conn, aborted, limits, permits, windows>>

\* Anything else, or the first-frame timeout.
NotAuthenticated(s) ==
    /\ Running(s, "first_frame") /\ StreamTo(s, "rejected")
    /\ UNCHANGED <<serving, conn, aborted, limits, permits, windows>>

\* send_fallback_with_body, or send_fallback_overload without a permit.
SendFallback(s) ==
    IF fallback_admission > 0
    THEN /\ fallback_admission' = fallback_admission - 1
         /\ StreamTo(s, "fallback")
         /\ UNCHANGED <<serving, conn, aborted, limits, pre_auth_admission,
                        flow_limit>>
    ELSE ReleaseStream(s)

RejectToFallback(s) ==
    /\ Running(s, "rejected")
    /\ record_failure(source[owner[s]])
    /\ IF RateLimited(source[owner[s]]) /\ ~active_probe_resistance
       THEN ReleaseStream(s)
       ELSE SendFallback(s)

BodyCollected(s) == Running(s, "body") /\ SendFallback(s) /\ UNCHANGED windows

BodyFails(s) == Running(s, "body") /\ EndStream(s)

FallbackSent(s) == Running(s, "fallback") /\ EndStream(s)

FlowOpened(s) ==
    /\ Running(s, "open_wait") /\ flow_limit > 0
    /\ flow_limit' = flow_limit - 1 /\ StreamTo(s, "flow")
    /\ UNCHANGED <<serving, conn, aborted, limits, pre_auth_admission,
                   fallback_admission, windows>>

\* No open frame in time, or no flow permit.
FlowRefused(s) == Running(s, "open_wait") /\ EndStream(s)

FlowEnds(s) == Running(s, "flow") /\ EndStream(s)

\* The runtime drops the future of an aborted task.
DropAborted(s) == s \in aborted /\ EndStream(s)

-----------------------------------------------------------------------------
\* ServerHandle::shutdown: serve leaves its loop, aborts and joins its tasks

Shutdown ==
    /\ serving = "accepting" /\ InConn({"entering", "entered"}) = {}
    /\ serving' = "draining"
    /\ UNCHANGED <<tasks, limits, permits, windows>>

AbortConn(c) ==
    /\ serving = "draining"
    /\ conn[c] \notin {"none", "leave_global", "leave_source"}
    /\ EndConn(c)

\* Mutant: serve returns without joining the tasks it aborted.
ServeReturns_NoJoin ==
    /\ serving = "draining"
    /\ serving' = "stopped"
    /\ UNCHANGED <<tasks, limits, permits, windows>>

ServeReturns ==
    /\ serving = "draining" /\ InConn(ConnStates \ {"none"}) = {}
    /\ serving' = "stopped"
    /\ UNCHANGED <<tasks, limits, permits, windows>>

-----------------------------------------------------------------------------
\* What the server does by itself, given its timers: a connection's guards are
\* dropped, handshakes and first frames time out, fallback exchanges end.
ConnDue(c) ==
    \/ EnterSource(c) \/ AdmitConnection(c) \/ LeaveGlobal(c) \/ LeaveSource(c)
    \/ HandshakeFails(c) \/ InlineFallbackDone(c) \/ ConnIdle(c) \/ Joined(c)
    \/ WsRejected(c) \/ WsEnds(c) \/ AbortConn(c)
StreamDue(s) ==
    \/ NotAuthenticated(s) \/ RejectToFallback(s) \/ FallbackSent(s)
    \/ FlowRefused(s) \/ FlowEnds(s) \/ DropAborted(s)

\* What the peers do.
ConnEvent(c) ==
    \/ Accept(c) \/ HandshakeOk(c) \/ InlineFallback(c)
    \/ StopAccepting(c) \/ ConnError(c)
    \/ WsAuthenticated(c) \/ WsOpened(c) \/ WsClosed(c)
StreamEvent(s) ==
    \/ AcceptStream(s) \/ Authenticated(s)
    \/ BodyCollected(s) \/ BodyFails(s) \/ FlowOpened(s)

AdmissionNext ==
    \/ \E c \in Conns : ConnDue(c) \/ ConnEvent(c)
    \/ \E s \in Streams : StreamDue(s) \/ StreamEvent(s)
    \/ \E a \in Sources : WindowElapses(a)
    \/ Shutdown \/ ServeReturns

AdmissionSpec == AdmissionInit /\ [][AdmissionNext]_admission

-----------------------------------------------------------------------------
Guarded == ConnStates \ {"none", "entering", "leave_global", "leave_source"}
OfSource(a, P) == {c \in InConn(P) : source[c] = a}

\* ConnectionLimitTracker's two counters, updated one after the other by the
\* accept loop and by every task that ends, count the connections exactly: no
\* path through a rejection, a failed handshake or an abort loses or repeats
\* a decrement.
ConnectionsCounted ==
    /\ global_count =
        Cardinality(InConn(ConnStates \ {"none", "leave_source"}))
    /\ \A a \in Sources : source_counts[a] =
        Cardinality(OfSource(a, ConnStates \ {"none", "entering"}))

\* Never more guarded connections than the configured limits allow, in total
\* or from one address, even while others are half-way out.
ConnectionCaps ==
    /\ Cardinality(InConn(Guarded)) <= AtLeastOne(global_limit)
    /\ \A a \in Sources :
        Cardinality(OfSource(a, Guarded)) <= AtLeastOne(per_source_limit)

\* Every permit is free or held by exactly one task that is at a place where
\* the code owns it; ends, errors, timeouts and aborts return all of them.
PermitsExact ==
    /\ pre_auth_admission + Cardinality(InConn(ConnPreAuth))
            + Cardinality(InStream(StreamPreAuth)) = pre_auth_max_concurrent
    /\ fallback_admission + Cardinality(InConn({"inline_fallback"}))
            + Cardinality(InStream({"fallback"})) = fallback_max_concurrent
    /\ flow_limit + Cardinality(InConn({"ws_flow"}))
            + Cardinality(InStream({"flow"})) = AtLeastOne(max_concurrent_flows)

\* A request task that is not being dropped has a connection task that still
\* serves or joins it.
NoOrphanStream ==
    \A s \in Streams : stream[s] # "none" /\ s \notin aborted =>
        conn[owner[s]] \in {"h2", "inline_fallback", "joining"}

\* When ServerHandle::shutdown has returned there is no connection left to
\* count; request tasks may still exist, but only to be dropped.
StoppedIsEmpty ==
    serving = "stopped" =>
        /\ global_count = 0 /\ \A a \in Sources : source_counts[a] = 0
        /\ InStream(StreamStates \ {"none"}) \subseteq aborted

\* Admission is exact over every interleaving of the accept loop, the connection and
\* request tasks, aborts and shutdown: the counters of ConnectionLimitTracker and the
\* three semaphores count what is there, the caps hold, no request outlives its
\* connection, and a stopped server is empty.
AdmissionIsExact ==
    ConnectionsCounted /\ ConnectionCaps /\ PermitsExact /\ NoOrphanStream /\ StoppedIsEmpty

\* Shutdown completes, and every permit comes back.
ShutdownCompletes ==
    serving = "draining" ~>
        /\ serving = "stopped"
        /\ pre_auth_admission = pre_auth_max_concurrent
        /\ fallback_admission = fallback_max_concurrent
        /\ flow_limit = AtLeastOne(max_concurrent_flows)

\* A connection leaves its handshakes, and a request for the tunnel gives its
\* pre-authentication permit back, however its peer behaves.
PreAuthEnds ==
    /\ \A c \in Conns : conn[c] \in {"tls", "h2_handshake", "ws_handshake",
                                      "ws_first"}
            ~> conn[c] \in {"none", "h2", "joining", "ws_open", "ws_closing"}
    /\ \A s \in Streams :
        stream[s] = "first_frame" ~> stream[s] \notin StreamPreAuth

\* "advanced.pre_auth_max_concurrent limits concurrent unauthenticated handshake
\* and tunnel admission" (CONFIG.md): a connection whose requests are all
\* authenticated holds no such permit.
PreAuthIsUnauthenticated ==
    \A c \in InConn({"h2"}) :
        StreamsOf(c) = {} \/ StreamsOf(c) \cap InStream(StreamPreAuth) # {}
=============================================================================
