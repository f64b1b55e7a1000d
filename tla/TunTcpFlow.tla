----------------------------- MODULE TunTcpFlow -----------------------------
(***************************************************************************)
(* The TCP flows of one address tuple in the packet runtime                *)
(* (crates/maverick-tun/src/runtime.rs): the entry the actor keeps for the *)
(* key, the engine's socket, the worker task of each connection and the    *)
(* queue of events from the workers to the actor.                          *)
(*                                                                         *)
(* Events carry the key of a flow and nothing that tells one connection of *)
(* the key from the next.  Packets and events reach the actor through two  *)
(* channels it takes from in any order.  A chunk of a stream is its        *)
(* number; the engine is smoltcp, external, seen through its socket.       *)
(***************************************************************************)
EXTENDS Integers, Sequences

CONSTANTS
    MaxFlows,                   \* connections made with the tuple, one after another
    MaxChunks,                  \* chunks each side of a connection may send
    tcp_channel_depth, event_queue_depth

VARIABLES
    entry,                      \* tcp.get(key), with its socket
    worker,                     \* the tcp_worker of each connection
    events,                     \* the event queue
    opened_flows,               \* connections so far
    delivered,                  \* chunks put into the socket of each connection
    app_sent, remote_sent,      \* chunks sent by the app and the remote so far
    written                     \* chunks written to the remote

vars == <<entry, worker, events, opened_flows, delivered, app_sent, remote_sent, written>>

FlowIds == 1..MaxFlows
None == [flow |-> 0]
NoData == 0
Present == entry # None

\* recv_queue, app FIN received, close() called, state Closed
Socket == [rx : 0..MaxChunks, fin : BOOLEAN, closed : BOOLEAN, dead : BOOLEAN]
Chunks == [flow : FlowIds, n : 1..MaxChunks]
TcpEntry == [flow : FlowIds, opened : BOOLEAN, local_fin_sent : BOOLEAN,
             worker_done : BOOLEAN, pending_remote : Chunks \cup {None}, socket : Socket]
LocalFin == 0
TcpCommand == 1..MaxChunks \cup {LocalFin}
EngineEvent == [type : {"TcpOpened", "TcpRemoteFin"}, flow : FlowIds]
               \cup [type : {"TcpData"}, flow : FlowIds, n : 1..MaxChunks]
               \cup [type : {"TcpDone"}, flow : FlowIds, failed : BOOLEAN]

\* local and remote: where the two directions of relay_tcp_flow are.
Worker == [phase : {"none", "opening", "refused", "opened", "relaying", "leaving", "gone"},
           local : {"recv", "write", "shutdown", "done"},
           remote : {"read", "send", "wait", "fin", "done"},
           commands : Seq(TcpCommand), data : 0..MaxChunks, connected : BOOLEAN, cancel : BOOLEAN,
           accepted : {"none", "yes", "dropped"}, failed : BOOLEAN]

NewSocket == [rx |-> 0, fin |-> FALSE, closed |-> FALSE, dead |-> FALSE]
NewEntry(f) == [flow |-> f, opened |-> FALSE, local_fin_sent |-> FALSE,
                worker_done |-> FALSE, pending_remote |-> None, socket |-> NewSocket]
NoWorker == [phase |-> "none", local |-> "recv", remote |-> "read", commands |-> <<>>,
             data |-> NoData, connected |-> TRUE, cancel |-> FALSE, accepted |-> "none", failed |-> FALSE]

TypeOK ==
    /\ entry \in TcpEntry \cup {None}
    /\ worker \in [FlowIds -> Worker]
    /\ events \in Seq(EngineEvent) /\ Len(events) <= event_queue_depth
    /\ opened_flows \in 0..MaxFlows
    /\ delivered \in [FlowIds -> Seq(Chunks)]
    /\ app_sent \in [FlowIds -> 0..MaxChunks] /\ remote_sent \in [FlowIds -> 0..MaxChunks]
    /\ written \in [FlowIds -> Seq(TcpCommand)]

Init ==
    /\ entry = None /\ events = <<>> /\ opened_flows = 0
    /\ worker = [f \in FlowIds |-> NoWorker]
    /\ delivered = [f \in FlowIds |-> <<>>]
    /\ app_sent = [f \in FlowIds |-> 0] /\ remote_sent = [f \in FlowIds |-> 0]
    /\ written = [f \in FlowIds |-> <<>>]

-----------------------------------------------------------------------------
(* The actor.  Each step of it is a packet, an event or a tick, then        *)
(* drive_tcp over what that left: d is the entry, the workers and what the  *)
(* socket has taken so far.                                                 *)

Dropped(w, e) == IF e.pending_remote = None THEN w
                 ELSE [w EXCEPT ![e.pending_remote.flow].accepted = "dropped"]

\* Mutant: the chunk stays pending once the socket has it.
DrivePending_Keeps(d, room) ==
    LET e == d.entry IN
    IF e.pending_remote # None /\ room /\ ~e.socket.closed /\ ~e.socket.dead
    THEN [d EXCEPT !.worker[e.pending_remote.flow].accepted = "yes",
                   !.delivered[e.flow] = Append(@, e.pending_remote)]
    ELSE d

\* The socket takes the pending chunk, all of it, when it has room.
DrivePending(d, room) ==
    LET e == d.entry IN
    IF e.pending_remote # None /\ room /\ ~e.socket.closed /\ ~e.socket.dead
    THEN [entry |-> [e EXCEPT !.pending_remote = None],
          worker |-> [d.worker EXCEPT ![e.pending_remote.flow].accepted = "yes"],
          delivered |-> [d.delivered EXCEPT ![e.flow] = Append(@, e.pending_remote)]]
    ELSE d

Capacity(w) == Len(w.commands) < tcp_channel_depth

DriveRecv(d) ==
    LET e == d.entry  w == d.worker[e.flow]
        n == app_sent'[e.flow] - e.socket.rx + 1
    IN  CASE ~(e.opened /\ e.socket.rx > 0 /\ ~e.socket.dead /\ Capacity(w)) -> d
          [] OTHER -> [d EXCEPT
                !.entry.socket.rx = @ - 1,
                !.entry.socket.dead = (w.phase = "gone"),
                !.worker[e.flow].commands = IF w.phase = "gone" THEN @ ELSE Append(@, n)]

\* Mutant: the FIN is passed on while data of the app is still in the socket.
DriveFin_Early(d) ==
    LET e == d.entry  w == d.worker[e.flow] IN
    IF /\ e.opened /\ ~e.local_fin_sent /\ e.socket.fin /\ ~e.socket.dead
       /\ Capacity(w) /\ w.phase # "gone"
    THEN [d EXCEPT !.entry.local_fin_sent = TRUE,
                   !.worker[e.flow].commands = Append(@, LocalFin)]
    ELSE d

DriveFin(d) ==
    LET e == d.entry  w == d.worker[e.flow] IN
    IF /\ e.opened /\ ~e.local_fin_sent
       /\ e.socket.fin /\ ~e.socket.closed /\ ~e.socket.dead /\ e.socket.rx = 0
       /\ Capacity(w) /\ w.phase # "gone"
    THEN [d EXCEPT !.entry.local_fin_sent = TRUE,
                   !.worker[e.flow].commands = Append(@, LocalFin)]
    ELSE d

IsActive(s) == ~(s.dead \/ (s.fin /\ s.closed))

DriveRemove(d) ==
    LET e == d.entry IN
    IF e.socket.dead \/ (e.worker_done /\ e.pending_remote = None /\ ~IsActive(e.socket))
    THEN [d EXCEPT !.entry = None,
                   !.worker = Dropped([@ EXCEPT ![e.flow].cancel = TRUE,
                                                ![e.flow].connected = FALSE], e)]
    ELSE d

Drive(e, w) ==
    /\ \E room \in BOOLEAN :
         LET d == [entry |-> e, worker |-> w, delivered |-> delivered]
             r == IF e = None THEN d
                  ELSE DriveRemove(DriveFin(DriveRecv(DrivePending(d, room))))
         IN  entry' = r.entry /\ worker' = r.worker /\ delivered' = r.delivered
    /\ UNCHANGED <<remote_sent, written>>

\* A SYN of the app: start_tcp_worker, when the key has no entry.
handle_syn ==
    /\ ~Present /\ opened_flows < MaxFlows
    /\ opened_flows' = opened_flows + 1
    /\ UNCHANGED <<events, app_sent>>
    /\ Drive(NewEntry(opened_flows'), [worker EXCEPT ![opened_flows'].phase = "opening"])

\* Data, FIN or RST of the app, or the engine's own timeout.
handle_segment ==
    /\ Present /\ UNCHANGED <<events, opened_flows>>
    /\ LET f == entry.flow  s == entry.socket IN
       \/ /\ ~s.fin /\ ~s.dead /\ app_sent[f] < MaxChunks
          /\ app_sent' = [app_sent EXCEPT ![f] = @ + 1]
          /\ Drive([entry EXCEPT !.socket.rx = @ + 1], worker)
       \/ /\ ~s.fin /\ ~s.dead /\ UNCHANGED app_sent
          /\ Drive([entry EXCEPT !.socket.fin = TRUE], worker)
       \/ UNCHANGED app_sent /\ Drive([entry EXCEPT !.socket.dead = TRUE], worker)

tick == Present /\ UNCHANGED <<events, opened_flows, app_sent>> /\ Drive(entry, worker)

TcpOpened(e) == Drive(IF Present THEN [entry EXCEPT !.opened = TRUE] ELSE None, worker)

\* Mutant: a chunk is acknowledged when it becomes pending.
TcpData_AcceptsEarly(e) ==
    IF Present /\ entry.pending_remote = None
    THEN Drive([entry EXCEPT !.pending_remote = [flow |-> e.flow, n |-> e.n]],
               [worker EXCEPT ![e.flow].accepted = "yes"])
    ELSE Drive(entry, [worker EXCEPT ![e.flow].accepted = "dropped"])

\* A chunk that finds no entry, or one still pending, is dropped with its sender.
TcpData(e) ==
    IF Present /\ entry.pending_remote = None
    THEN Drive([entry EXCEPT !.pending_remote = [flow |-> e.flow, n |-> e.n]], worker)
    ELSE Drive(entry, [worker EXCEPT ![e.flow].accepted = "dropped"])

TcpRemoteFin(e) ==
    Drive(IF Present THEN [entry EXCEPT !.socket.closed = TRUE] ELSE None, worker)

\* Mutant: a failed worker leaves the socket open.
TcpDone_NoAbort(e) ==
    Drive(IF Present THEN [entry EXCEPT !.worker_done = TRUE] ELSE None, worker)

TcpDone(e) ==
    Drive(IF Present THEN [entry EXCEPT !.worker_done = TRUE,
                                        !.socket.dead = @ \/ e.failed] ELSE None, worker)

handle_event ==
    /\ events # <<>> /\ events' = Tail(events)
    /\ UNCHANGED <<opened_flows, app_sent>>
    /\ LET e == Head(events) IN
       CASE e.type = "TcpOpened" -> TcpOpened(e)
         [] e.type = "TcpData" -> TcpData(e)
         [] e.type = "TcpRemoteFin" -> TcpRemoteFin(e)
         [] e.type = "TcpDone" -> TcpDone(e)

-----------------------------------------------------------------------------
(* tcp_worker and the two directions of relay_tcp_flow.                     *)

actor == <<entry, opened_flows, delivered, app_sent>>
Set(f, w) == worker' = [worker EXCEPT ![f] = w]
Room == Len(events) < event_queue_depth
\* Mutant: the event queue has no bound.
Send_Unbounded(e) == events' = Append(events, e)

Send(e) == Room /\ events' = Append(events, e)

\* connector.open_tcp answers, fails or times out, or the worker is cancelled.
Opening(f) ==
    LET w == worker[f] IN
    /\ w.phase = "opening"
    /\ \/ \E p \in {"refused", "opened"} : Set(f, [w EXCEPT !.phase = p])
       \/ w.cancel /\ Set(f, [w EXCEPT !.phase = "gone"])
    /\ UNCHANGED <<actor, events, remote_sent, written>>

ReportOpen(f) ==
    LET w == worker[f] IN
    /\ \/ w.phase = "refused" /\ Send([type |-> "TcpDone", flow |-> f, failed |-> TRUE])
          /\ Set(f, [w EXCEPT !.phase = "gone"])
       \/ w.phase = "opened" /\ Send([type |-> "TcpOpened", flow |-> f])
          /\ Set(f, [w EXCEPT !.phase = "relaying"])
    /\ UNCHANGED <<actor, remote_sent, written>>

Relaying(f) == worker[f].phase = "relaying"
Leave(w, failed) == [w EXCEPT !.phase = "leaving", !.failed = failed]

\* relay_tcp_local_to_remote: a closed command channel shuts the remote down
\* like a FIN; an error of the remote fails the flow.
LocalRecv(f) ==
    LET w == worker[f] IN
    /\ Relaying(f) /\ w.local = "recv"
    /\ IF w.commands # <<>>
       THEN LET fin == Head(w.commands) = LocalFin IN
            Set(f, [w EXCEPT !.commands = Tail(@),
                             !.local = IF fin THEN "shutdown" ELSE "write",
                             !.data = IF fin THEN NoData ELSE Head(w.commands)])
       ELSE ~w.connected /\ Set(f, [w EXCEPT !.local = "shutdown"])
    /\ UNCHANGED <<actor, events, remote_sent, written>>

LocalWrite(f) ==
    LET w == worker[f] IN
    /\ Relaying(f) /\ w.local = "write"
    /\ \/ /\ written' = [written EXCEPT ![f] = Append(@, w.data)]
          /\ Set(f, [w EXCEPT !.local = "recv", !.data = NoData])
       \/ Set(f, Leave(w, TRUE)) /\ UNCHANGED written
    /\ UNCHANGED <<actor, events, remote_sent>>

LocalShutdown(f) ==
    LET w == worker[f] IN
    /\ Relaying(f) /\ w.local = "shutdown"
    /\ \/ /\ written' = [written EXCEPT ![f] = Append(@, LocalFin)]
          /\ Set(f, [w EXCEPT !.local = "done"])
       \/ Set(f, Leave(w, TRUE)) /\ UNCHANGED written
    /\ UNCHANGED <<actor, events, remote_sent>>

\* relay_tcp_remote_to_local: a chunk, the end of the stream or an error.
RemoteRead(f) ==
    LET w == worker[f] IN
    /\ Relaying(f) /\ w.remote = "read"
    /\ \/ /\ remote_sent[f] < MaxChunks
          /\ remote_sent' = [remote_sent EXCEPT ![f] = @ + 1]
          /\ Set(f, [w EXCEPT !.remote = "send"])
       \/ Set(f, [w EXCEPT !.remote = "fin"]) /\ UNCHANGED remote_sent
       \/ Set(f, Leave(w, TRUE)) /\ UNCHANGED remote_sent
    /\ UNCHANGED <<actor, events, written>>

RemoteSend(f) ==
    LET w == worker[f] IN
    /\ Relaying(f)
    /\ \/ /\ w.remote = "send"
          /\ Send([type |-> "TcpData", flow |-> f, n |-> remote_sent[f]])
          /\ Set(f, [w EXCEPT !.remote = "wait", !.accepted = "none"])
       \/ /\ w.remote = "fin" /\ Send([type |-> "TcpRemoteFin", flow |-> f])
          /\ Set(f, [w EXCEPT !.remote = "done"])
    /\ UNCHANGED <<actor, remote_sent, written>>

RemoteAccepted(f) ==
    LET w == worker[f] IN
    /\ Relaying(f) /\ w.remote = "wait"
    /\ \/ w.accepted = "yes" /\ Set(f, [w EXCEPT !.remote = "read"])
       \/ w.accepted = "dropped" /\ Set(f, Leave(w, TRUE))
    /\ UNCHANGED <<actor, events, remote_sent, written>>

\* Both directions are done, the worker is cancelled, or nothing moved for
\* idle_timeout.
RelayEnds(f) ==
    LET w == worker[f] IN
    /\ Relaying(f)
    /\ \/ w.local = "done" /\ w.remote = "done" /\ Set(f, Leave(w, FALSE))
       \/ w.cancel /\ Set(f, Leave(w, FALSE))
    /\ UNCHANGED <<actor, events, remote_sent, written>>

IdleTimeout(f) ==
    /\ Relaying(f) /\ Set(f, Leave(worker[f], TRUE))
    /\ UNCHANGED <<actor, events, remote_sent, written>>

ReportDone(f) ==
    LET w == worker[f] IN
    /\ w.phase = "leaving"
    /\ Send([type |-> "TcpDone", flow |-> f, failed |-> w.failed /\ ~w.cancel])
    /\ Set(f, [w EXCEPT !.phase = "gone"])
    /\ UNCHANGED <<actor, remote_sent, written>>

WorkerStep(f) ==
    \/ Opening(f) \/ ReportOpen(f) \/ LocalRecv(f) \/ LocalWrite(f) \/ LocalShutdown(f)
    \/ RemoteRead(f) \/ RemoteSend(f) \/ RemoteAccepted(f)
    \/ RelayEnds(f) \/ IdleTimeout(f) \/ ReportDone(f)

Next ==
    \/ handle_syn \/ handle_segment \/ handle_event \/ tick
    \/ \E f \in FlowIds : WorkerStep(f)

Spec == Init /\ [][Next]_vars

-----------------------------------------------------------------------------

\* The socket of a connection takes the chunks its own remote sent, each once
\* and in order: relay_tcp_remote_to_local sends one chunk and waits until the
\* actor has it before it reads the next, across two tasks, the event queue
\* and the pending_remote of the entry.  (For the first connection of a tuple:
\* an event left behind by one is applied to the next, see the README.)
ExactDelivery ==
    \A f \in FlowIds : \A i \in 1..Len(delivered[f]) : delivered[f][i] = [flow |-> f, n |-> i]

\* The app is told that the stream ended, by close(), only when it has been
\* given all of it: TcpRemoteFin follows the last chunk through the same queue.
FinIsWhole ==
    Present /\ entry.socket.closed => Len(delivered[entry.flow]) = remote_sent[entry.flow]

\* While a flow has its entry, the remote is shut down only behind every chunk
\* the app sent: LocalFin is queued once the socket is empty and the commands
\* are taken in order.
UploadIsWhole ==
    \A f \in FlowIds :
        Present /\ entry.flow = f /\ worker[f].local = "done" =>
            written[f] = [i \in 1..app_sent[f] + 1 |->
                            IF i <= app_sent[f] THEN i ELSE LocalFin]

\* Every connection is released, its entry and its worker: a worker that fails
\* or idles reports TcpDone, which aborts the socket, and the removal of the
\* entry cancels a worker that is still there.
FlowsReleased == ~Present /\ \A f \in FlowIds : worker[f].phase \in {"none", "gone"}
=============================================================================
