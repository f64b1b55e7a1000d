--------------------------- MODULE ClientLifecycle ---------------------------
(***************************************************************************)
(* The local client as a whole (crates/maverick-client/src/lib.rs): its    *)
(* listeners (SOCKS5 here, dns.rs, http_connect.rs), the packet runtime's  *)
(* connector (tun_runtime.rs), the flow limit they share, and the order in *)
(* which start_client builds them and ClientHandle::shutdown takes them    *)
(* down.                                                                   *)
(*                                                                         *)
(* A flow is a task of a listener, or a connection of the packet runtime,  *)
(* which is first a call of open_tcp and then a relay task of the          *)
(* connector.  The packet runtime is TunRuntime; here it is a caller that  *)
(* makes calls until its shutdown, which drops the ones under way.         *)
(***************************************************************************)
EXTENDS Integers, Sequences, FiniteSets, FiniteSetsExt

CONSTANTS
    Configured,         \* the listeners of the config, in the order they are bound
    Flows,              \* identities of flows
    max_concurrent_flows,
    max_tcp_flows       \* of the packet runtime, before it is clamped

VARIABLES
    phase,              \* of the client
    bound,              \* endpoints in use
    listener,           \* of each serve loop: absent, serving, leaving, ok or err
    flow,               \* where each flow is
    available,          \* permits of flow_limit
    runtime,            \* the packet runtime: absent, running, stopped
    cancelled,          \* the connector's token
    closed,             \* the tracker no longer admits waiting for more
    relay,              \* what a relay did to its end of the duplex
    stream,             \* what the packet side of the duplex has read: open, eof, reset
    result              \* of start_client or shutdown

vars == <<phase, bound, listener, flow, available, runtime, cancelled, closed, relay,
          stream, result>>

Listeners == {Configured[i] : i \in DOMAIN Configured}
NoFlow == [of |-> "none", at |-> "none"]
FlowState == [of : Listeners, at : {"task", "panicked", "aborted"}]
             \cup [of : {"tun"}, at : {"opening", "relay", "failed", "done", "cut"}]
             \cup {NoFlow}

\* The server's frames on which a relay shuts its write half down: TcpFin and
\* CloseFlow, or Error and, over WebSocket, TcpReset.
TerminalFrames == {"end", "error"}
Untouched == [shut |-> "no", dropped |-> "no"]

TypeOK ==
    /\ phase \in {"binding", "running", "runtime", "connector", "pool", "joining", "ended"}
    /\ bound \subseteq Listeners
    /\ listener \in [Listeners -> {"absent", "serving", "leaving", "ok", "err"}]
    /\ flow \in [Flows -> FlowState] /\ available \in 0..max_concurrent_flows
    /\ runtime \in {"absent", "running", "stopped"} /\ cancelled \in BOOLEAN
    /\ closed \in BOOLEAN /\ stream \in [Flows -> {"none", "open", "eof", "reset"}]
    /\ relay \in [Flows -> [shut : {"no"} \cup TerminalFrames,
                           dropped : {"no", "done", "failed", "cut"}]]
    /\ result \in {"none", "ok", "err"}

Init ==
    /\ phase = "binding" /\ bound = {} /\ listener = [l \in Listeners |-> "absent"]
    /\ flow = [f \in Flows |-> NoFlow] /\ available = max_concurrent_flows
    /\ runtime = "absent" /\ cancelled = FALSE /\ closed = FALSE
    /\ relay = [f \in Flows |-> Untouched]
    /\ stream = [f \in Flows |-> "none"] /\ result = "none"

-----------------------------------------------------------------------------
(* start_client.                                                            *)

duplex == <<relay, stream>>
Rest == <<flow, available, runtime, cancelled, closed, duplex>>
NextToBind == Configured[Cardinality(bound) + 1]

\* Mutant: a listener serves from the moment it is bound.
BindListener_Spawns ==
    /\ phase = "binding" /\ bound # Listeners
    /\ \/ /\ bound' = bound \cup {NextToBind}
          /\ listener' = [listener EXCEPT ![NextToBind] = "serving"] /\ UNCHANGED <<phase, result>>
       \/ bound' = {l \in bound : listener[l] = "serving"} /\ phase' = "ended" /\ result' = "err"
          /\ UNCHANGED listener
    /\ UNCHANGED Rest

\* Every endpoint is bound before a task is spawned; a failure drops the others.
BindListener ==
    /\ phase = "binding" /\ bound # Listeners
    /\ \/ bound' = bound \cup {NextToBind} /\ UNCHANGED <<phase, result>>
       \/ bound' = {} /\ phase' = "ended" /\ result' = "err"
    /\ UNCHANGED <<Rest, listener>>

SpawnListeners ==
    /\ phase = "binding" /\ bound = Listeners /\ phase' = "running"
    /\ listener' = [l \in Listeners |-> "serving"]
    /\ UNCHANGED <<Rest, bound, result>>

\* start_tun_runtime makes the connector and the runtime that calls it.
start_tun_runtime ==
    /\ phase = "running" /\ runtime = "absent" /\ runtime' = "running"
    /\ UNCHANGED <<phase, bound, listener, flow, available, cancelled, closed, duplex, result>>

-----------------------------------------------------------------------------
(* serve_socks, serve_dns_with_pool and serve_http_connect_with_pool.       *)

Control == <<phase, runtime, cancelled, closed, result>>
Holds(f) == flow[f] # NoFlow
TasksOf(l) == {f \in Flows : flow[f].of = l}

\* A connection or query that finds no permit is dropped.
Accept(l, f) ==
    /\ l \in Listeners /\ listener[l] = "serving" /\ ~Holds(f) /\ available > 0
    /\ flow' = [flow EXCEPT ![f] = [of |-> l, at |-> "task"]] /\ available' = available - 1
    /\ UNCHANGED <<Control, bound, listener, duplex>>

serve_socks(f) == Accept("socks", f)
serve_dns(f) == Accept("dns", f)
serve_http_connect(f) == Accept("http", f)

\* Mutant: the permit is not given back.
TaskEnds_Leaks(f) ==
    /\ flow[f].at \in {"task", "aborted"} /\ flow' = [flow EXCEPT ![f] = NoFlow]
    /\ available' = IF flow[f].at = "aborted" THEN available ELSE available + 1
    /\ UNCHANGED <<Control, bound, listener, duplex>>

\* The task is over, with its permit.
TaskEnds(f) ==
    /\ flow[f].at \in {"task", "aborted"}
    /\ flow' = [flow EXCEPT ![f] = NoFlow] /\ available' = available + 1
    /\ UNCHANGED <<Control, bound, listener, duplex>>

\* Mutant: the result of the task gives the permit back a second time.
TaskPanics_Twice(f) ==
    /\ flow[f].at = "task" /\ flow' = [flow EXCEPT ![f].at = "panicked"]
    /\ available' = available + 2
    /\ UNCHANGED <<Control, bound, listener, duplex>>

\* The task panics: the permit is dropped, the JoinSet has the error.
TaskPanics(f) ==
    /\ flow[f].at = "task" /\ flow' = [flow EXCEPT ![f].at = "panicked"]
    /\ available' = available + 1
    /\ UNCHANGED <<Control, bound, listener, duplex>>

\* The loop's tasks are aborted, by abort_all or when the JoinSet is dropped; a
\* result nobody joins is dropped with it.
Aborted(l) == [f \in Flows |-> IF f \notin TasksOf(l) THEN flow[f]
                               ELSE IF flow[f].at = "panicked" THEN NoFlow
                               ELSE [flow[f] EXCEPT !.at = "aborted"]]

\* joined? : the loop ends on the first task that panicked.
JoinFails(l) ==
    /\ listener[l] \in {"serving", "leaving"}
    /\ \E f \in TasksOf(l) : flow[f].at = "panicked"
    /\ listener' = [listener EXCEPT ![l] = "err"] /\ bound' = bound \ {l}
    /\ flow' = Aborted(l)
    /\ UNCHANGED <<Control, available, duplex>>

\* Mutant: the tasks are awaited without being aborted.
Stops_NoAbort(l) ==
    /\ listener[l] = "serving" /\ phase \notin {"binding", "running"}
    /\ listener' = [listener EXCEPT ![l] = "leaving"]
    /\ UNCHANGED <<Control, bound, flow, available, duplex>>

\* The shutdown signal, then abort_all.
Stops(l) ==
    /\ listener[l] = "serving" /\ phase \notin {"binding", "running"}
    /\ listener' = [listener EXCEPT ![l] = "leaving"]
    /\ flow' = [f \in Flows |-> IF f \in TasksOf(l) /\ flow[f].at = "task"
                                THEN [flow[f] EXCEPT !.at = "aborted"] ELSE flow[f]]
    /\ UNCHANGED <<Control, bound, available, duplex>>

Joined(l) ==
    /\ listener[l] = "leaving" /\ TasksOf(l) = {}
    /\ listener' = [listener EXCEPT ![l] = "ok"] /\ bound' = bound \ {l}
    /\ UNCHANGED <<Control, flow, available, duplex>>

-----------------------------------------------------------------------------
(* MaverickTunConnector.                                                    *)

\* The runtime's limit is at most the client's; the connector is sized by it.
max_tcp_tasks == Min({max_tcp_flows, max_concurrent_flows})
Entries == {f \in Flows : flow[f].at = "opening" \/ stream[f] # "none"}
\* A ConnectorTaskGuard lives as long as the relay's task.
active_tasks == Cardinality({f \in Flows : flow[f].at \in {"relay", "failed", "done", "cut"}})

\* open_tcp, with try_flow_permit first; a UDP association or a DNS query holds
\* its permit in the same way for as long as its call or its flow lives.
open_tcp(f) ==
    /\ runtime = "running" /\ ~Holds(f) /\ available > 0 /\ Cardinality(Entries) < max_tcp_tasks
    /\ stream[f] = "none"
    /\ flow' = [flow EXCEPT ![f] = [of |-> "tun", at |-> "opening"]]
    /\ available' = available - 1
    /\ UNCHANGED <<Control, bound, listener, duplex>>

Calls == {f \in Flows : flow[f].at = "opening"}

\* The tunnel is open: the relay task is spawned with the permit.
Opened(f) ==
    /\ flow[f].at = "opening" /\ flow' = [flow EXCEPT ![f].at = "relay"]
    /\ stream' = [stream EXCEPT ![f] = "open"]
    /\ UNCHANGED <<Control, bound, listener, available, relay>>

\* The tunnel fails, or a cancellation wins.
OpenFails(f) ==
    /\ flow[f].at = "opening" /\ flow' = [flow EXCEPT ![f] = NoFlow]
    /\ available' = available + 1
    /\ UNCHANGED <<Control, bound, listener, duplex>>

\* A terminal frame of the server: the relay shuts its write half down at once, and
\* returns later, when it has read the trailers or its uploads are over.
RelayShuts(f) ==
    /\ flow[f].at = "relay" /\ stream[f] # "none" /\ relay[f].shut = "no"
    /\ \E t \in TerminalFrames : relay' = [relay EXCEPT ![f].shut = t]
    /\ UNCHANGED <<Control, bound, listener, flow, available, stream>>

\* The relay returns; relay_failed is set unless it returned Graceful, which it
\* does not after an Error.
RelayEnds(f) ==
    /\ flow[f].at = "relay"
    /\ \E how \in {"done", "failed"} :
        /\ how = "done" => relay[f].shut # "error"
        /\ flow' = [flow EXCEPT ![f].at = how]
    /\ UNCHANGED <<Control, bound, listener, available, duplex>>

\* The connector's token or the flow's own is cancelled.
RelayCancelled(f) ==
    /\ flow[f].at = "relay" /\ (cancelled \/ stream[f] = "none")
    /\ flow' = [flow EXCEPT ![f].at = "cut"]
    /\ UNCHANGED <<Control, bound, listener, available, duplex>>

\* The relay's end of the duplex is dropped and the task is over.
TaskDone(f) ==
    /\ flow[f].at \in {"done", "failed", "cut"}
    /\ flow' = [flow EXCEPT ![f] = NoFlow] /\ available' = available + 1
    /\ relay' = IF stream[f] = "none" THEN relay ELSE [relay EXCEPT ![f].dropped = flow[f].at]
    /\ UNCHANGED <<Control, bound, listener, stream>>

relay_failed(f) == flow[f].at = "failed" \/ relay[f].dropped = "failed"
AtEnd(f) == stream[f] = "open" /\ relay[f] # Untouched

\* Mutant: the end of the duplex looks the same however the relay ended.
poll_read_NoFlag(f) ==
    /\ AtEnd(f) /\ stream' = [stream EXCEPT ![f] = "eof"]
    /\ UNCHANGED <<Control, bound, listener, flow, available, relay>>

\* The packet side reads the end of the duplex, as an error when relay_failed is
\* set by then.
poll_read(f) ==
    /\ AtEnd(f)
    /\ stream' = [stream EXCEPT ![f] = IF relay_failed(f) THEN "reset" ELSE "eof"]
    /\ UNCHANGED <<Control, bound, listener, flow, available, relay>>

\* The packet runtime forgets the flow, and cancels it: it has read the end of the
\* stream, or its app's connection is gone.
FlowRemoved(f) ==
    /\ stream[f] # "none" /\ stream' = [stream EXCEPT ![f] = "none"]
    /\ relay' = [relay EXCEPT ![f] = Untouched]
    /\ UNCHANGED <<Control, bound, listener, flow, available>>

-----------------------------------------------------------------------------
(* ClientHandle::shutdown.                                                  *)

Unbound == <<bound, listener>>

\* Mutant: the connector's relays are cancelled before the packet runtime stops.
shutdown_CancelsFirst ==
    /\ phase = "running" /\ phase' = "runtime" /\ cancelled' = TRUE
    /\ UNCHANGED <<Unbound, flow, available, runtime, closed, duplex, result>>

\* Every listener is told, then the packet runtime is shut down.
shutdown ==
    /\ phase = "running" /\ phase' = "runtime"
    /\ UNCHANGED <<Unbound, flow, available, runtime, cancelled, closed, duplex, result>>

\* runtime.shutdown returns, perhaps with a failure, once its tasks are gone, and their calls with them.
ShutdownRuntime ==
    /\ phase = "runtime" /\ phase' = "connector"
    /\ runtime' = IF runtime = "running" THEN "stopped" ELSE runtime
    /\ flow' = [f \in Flows |-> IF f \in Calls THEN NoFlow ELSE flow[f]]
    /\ available' = available + Cardinality(Calls)
    /\ stream' = [f \in Flows |-> "none"] /\ relay' = [f \in Flows |-> Untouched]
    /\ result' \in {result} \cup {"err" : r \in {runtime} \cap {"running"}}
    /\ UNCHANGED <<Unbound, cancelled, closed>>

\* connector.shutdown cancels the relays, closes the tracker ...
CancelConnector ==
    /\ phase = "connector" /\ ~closed /\ cancelled' = TRUE /\ closed' = TRUE
    /\ UNCHANGED <<Unbound, phase, flow, available, runtime, duplex, result>>

\* ... and waits for them, as long as shutdown_timeout.
AwaitConnector ==
    /\ phase = "connector" /\ closed /\ phase' = "pool"
    /\ \/ TasksOf("tun") = {} /\ UNCHANGED result
       \/ TasksOf("tun") # {} /\ result' = "err"
    /\ UNCHANGED <<Unbound, flow, available, runtime, cancelled, closed, duplex>>

\* tunnel_pool.shutdown
ShutdownPool ==
    /\ phase = "pool" /\ phase' = "joining"
    /\ UNCHANGED <<Unbound, flow, available, runtime, cancelled, closed, duplex, result>>

\* Mutant: only the last listener's result counts.
JoinListeners_Last ==
    /\ phase = "joining" /\ \A l \in Listeners : listener[l] \in {"ok", "err"}
    /\ phase' = "ended"
    /\ result' = IF result = "err" \/ listener[Configured[Len(Configured)]] = "err"
                 THEN "err" ELSE "ok"
    /\ UNCHANGED <<Unbound, flow, available, runtime, cancelled, closed, duplex>>

\* Every listener is joined; the first error is the result.
JoinListeners ==
    /\ phase = "joining" /\ \A l \in Listeners : listener[l] \in {"ok", "err"}
    /\ phase' = "ended"
    /\ result' = IF result = "err" \/ \E l \in Listeners : listener[l] = "err"
                 THEN "err" ELSE "ok"
    /\ UNCHANGED <<Unbound, flow, available, runtime, cancelled, closed, duplex>>

Ended == phase = "ended" /\ UNCHANGED vars

Progress ==
    \/ ShutdownRuntime \/ CancelConnector \/ AwaitConnector \/ ShutdownPool \/ JoinListeners
    \/ \E l \in Listeners : JoinFails(l) \/ Stops(l) \/ Joined(l)
    \/ \E f \in Flows : flow[f].at = "aborted" /\ TaskEnds(f)

Next ==
    \/ BindListener \/ SpawnListeners \/ start_tun_runtime \/ shutdown \/ Progress \/ Ended
    \/ \E f \in Flows : serve_socks(f) \/ serve_dns(f) \/ serve_http_connect(f)
    \/ \E f \in Flows : \/ TaskEnds(f) \/ TaskPanics(f) \/ open_tcp(f) \/ Opened(f)
                        \/ OpenFails(f) \/ RelayShuts(f) \/ RelayEnds(f)
                        \/ RelayCancelled(f) \/ TaskDone(f) \/ poll_read(f) \/ FlowRemoved(f)

Spec == Init /\ [][Next]_vars

-----------------------------------------------------------------------------

\* The permits of flow_limit and the flows that hold one add up, across the
\* listeners, the connector, panics, aborts and the futures the packet runtime
\* drops; a leak would wear the client out over a day.
PermitsAddUp ==
    available + Cardinality({f \in Flows : Holds(f) /\ flow[f].at # "panicked"})
        = max_concurrent_flows

\* A client that did not start holds no endpoint and runs nothing.
FailedStartLeavesNothing ==
    phase = "ended" /\ ~closed =>
        bound = {} /\ \A l \in Listeners : listener[l] = "absent"

\* When shutdown says it is done, nothing of the client is left: no endpoint, no
\* task of a listener and no relay; and it does not say so if a listener had
\* died of a panicking connection before.
OkMeansGone ==
    phase = "ended" /\ result = "ok" =>
        /\ bound = {} /\ \A f \in Flows : flow[f] = NoFlow
        /\ available = max_concurrent_flows
        /\ \A l \in Listeners : listener[l] = "ok"

\* While the packet runtime runs, its side of a TCP flow reads an orderly end of
\* the stream only when the relay returned Graceful or the server announced an end
\* by a terminal frame.  A relay that fails without one (connection lost, send
\* stalled, stream reset) and one that the shutdown cuts off are not passed to the
\* app as a FIN.  An Error frame may be: it shuts the duplex before relay_failed is
\* set, and which of the two the packet side meets is a race.
EndOfStreamIsAnnounced ==
    [][\A f \in Flows :
         stream[f] = "open" /\ stream'[f] = "eof" =>
             relay[f].shut # "no" \/ relay[f].dropped = "done"]_vars

\* shutdown returns: it waits for listeners that end, and for the connector no
\* longer than its timeout.
ShutdownReturned == phase \in {"binding", "running", "ended"}
=============================================================================
