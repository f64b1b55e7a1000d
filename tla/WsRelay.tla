------------------------------ MODULE WsRelay ------------------------------
(***************************************************************************)
(* The WebSocket relay: on each end one loop that selects between its own  *)
(* socket, the tunnel and an idle timer, and that awaits the branch it     *)
(* took to its end before it selects again.  The local application and the *)
(* target write numbered chunks and may be slow readers; the two           *)
(* directions of the connection hold a bounded number of messages.         *)
(***************************************************************************)
EXTENDS Integers, Sequences, SequencesExt

CONSTANTS Chunks,     \* how many chunks the application and the target may write
          PipeCap,    \* messages each direction of the connection holds
          SocketCap,  \* chunks the application's or the target's socket holds unread
          MaxPings    \* pings of the edge in front of the server

VARIABLES client,   \* [pc, frame, eof]: "select", "send", "write", or how it ended
          server,   \* likewise; eof is the client's local_eof, the server's client_eof
          up, down, \* messages in transit, client to server and back
          app,      \* the local application: chunks wrote and taken, fin, unread, read
          target,   \* the same of the target, and shut when it has been told the end
          pings

vars == <<client, server, up, down, app, target, pings>>

Data(n) == [type |-> "TcpData", n |-> n]
Fin     == [type |-> "TcpFin", n |-> 0]
Ping    == [type |-> "ping", n |-> 0]
Pong    == [type |-> "pong", n |-> 0]

Ended(why) == [pc |-> why, frame |-> Fin, eof |-> TRUE]
Running(s) == s.pc \in {"select", "send", "write"}

Init ==
    /\ client = [pc |-> "select", frame |-> Fin, eof |-> FALSE] /\ server = client
    /\ up = << >> /\ down = << >> /\ pings = 0
    /\ app = [wrote |-> 0, taken |-> 0, fin |-> FALSE, unread |-> << >>, read |-> << >>, shut |-> FALSE]
    /\ target = app

\* What an outside peer may do on its own: write, end its side, read.
Written(p) == (IF p.wrote < Chunks /\ ~p.fin THEN {[p EXCEPT !.wrote = @ + 1]} ELSE {})
              \cup (IF p.fin THEN {} ELSE {[p EXCEPT !.fin = TRUE]})
Consumed(p) == [p EXCEPT !.read = Append(@, Head(p.unread)), !.unread = Tail(@)]

AppWrites    == app' \in Written(app) /\ UNCHANGED <<client, server, up, down, target, pings>>
TargetWrites == target' \in Written(target) /\ UNCHANGED <<client, server, up, down, app, pings>>
AppReads     == app.unread # << >> /\ app' = Consumed(app) /\ UNCHANGED <<client, server, up, down, target, pings>>
TargetReads  == target.unread # << >> /\ target' = Consumed(target) /\ UNCHANGED <<client, server, up, down, app, pings>>

EdgePings ==
    /\ pings < MaxPings /\ Len(up) < PipeCap /\ Running(client)
    /\ pings' = pings + 1
    /\ up' = Append(up, Ping)
    /\ UNCHANGED <<client, server, down, app, target>>

\* An end that returns drops its socket; if it leaves messages unread, the reset may
\* take away what it had sent.
DropClient == up' = up \/ (down # << >> /\ up' = << >>)
DropServer(sent) == down' = sent \/ (up # << >> /\ down' = << >>)

HasInput(p) == p.taken < p.wrote \/ p.fin
NextInput(p) == IF p.taken < p.wrote THEN Data(p.taken + 1) ELSE Fin
Taken(p) == IF p.taken < p.wrote THEN [p EXCEPT !.taken = @ + 1] ELSE p

-----------------------------------------------------------------------------
\* Mutant: what was read is left in the buffer for the next turn.
local_read_Again ==
    /\ client.pc = "select" /\ ~client.eof /\ HasInput(app)
    /\ client' = [client EXCEPT !.pc = "send", !.frame = NextInput(app)]
    /\ UNCHANGED <<server, up, down, app, target, pings>>

\* relay_stream_and_tunnel.  The local socket is readable: its frame is sent, and
\* nothing else is looked at meanwhile.
local_read ==
    /\ client.pc = "select" /\ ~client.eof /\ HasInput(app)
    /\ client' = [client EXCEPT !.pc = "send", !.frame = NextInput(app)]
    /\ app' = Taken(app)
    /\ UNCHANGED <<server, up, down, target, pings>>

\* Mutant: a send into a connection that is gone waits for room as well.
send_frame_Waits ==
    /\ client.pc = "send" /\ Len(up) < PipeCap
    /\ up' = Append(up, client.frame)
    /\ client' = [client EXCEPT !.pc = "select", !.eof = client.frame = Fin]
    /\ UNCHANGED <<server, down, app, target, pings>>

\* ClientTunnel::send_frame on the WebSocket: it waits for room, without a timeout,
\* and fails once the connection is known to be gone.
send_frame ==
    /\ client.pc = "send"
    /\ \/ /\ Len(up) < PipeCap
          /\ up' = Append(up, client.frame)
          /\ client' = [client EXCEPT !.pc = "select", !.eof = client.frame = Fin]
       \/ /\ ~Running(server)
          /\ client' = Ended("error")
          /\ DropClient
    /\ UNCHANGED <<server, down, app, target, pings>>

\* handle_remote_frame: the end of the download ends the whole relay.
handle_remote_frame(f) ==
    CASE f.type = "TcpFin"  -> Ended("fin")
      [] f.type = "TcpData" -> [client EXCEPT !.pc = "write", !.frame = f]
      [] f.type = "pong"    -> client

\* The tunnel is readable: a frame, or the reset of a connection the server left.
remote_frame ==
    /\ client.pc = "select"
    /\ \/ /\ down # << >>
          /\ client' = handle_remote_frame(Head(down))
          /\ down' = Tail(down)
          /\ IF Running(client') THEN UNCHANGED up ELSE up' = up \/ (Tail(down) # << >> /\ up' = << >>)
       \/ /\ down = << >> /\ ~Running(server)
          /\ client' = Ended("error")
          /\ UNCHANGED <<up, down>>
    /\ UNCHANGED <<server, app, target, pings>>

\* write_all_with_idle_timeout to the local socket.
write_all ==
    /\ client.pc = "write" /\ Len(app.unread) < SocketCap
    /\ app' = [app EXCEPT !.unread = Append(@, client.frame.n)]
    /\ client' = [client EXCEPT !.pc = "select"]
    /\ UNCHANGED <<server, up, down, target, pings>>

\* The timer of the select, when no branch is ready, and the timer of the write.
client_idle ==
    /\ \/ client.pc = "select" /\ (client.eof \/ ~HasInput(app)) /\ down = << >> /\ Running(server)
       \/ client.pc = "write" /\ Len(app.unread) = SocketCap
    /\ client' = Ended(IF client.pc = "select" THEN "idle" ELSE "error")
    /\ DropClient
    /\ UNCHANGED <<server, down, app, target, pings>>

-----------------------------------------------------------------------------
\* Mutant: the end of the target overtakes what it wrote before.
target_read_Early ==
    /\ server.pc = "select" /\ HasInput(target)
    /\ server' = [server EXCEPT !.pc = "send", !.frame = IF target.fin THEN Fin ELSE NextInput(target)]
    /\ target' = Taken(target)
    /\ UNCHANGED <<client, up, down, app, pings>>

\* relay_ws_target_and_tunnel: the target is readable, before or after client_eof.
target_read ==
    /\ server.pc = "select" /\ HasInput(target)
    /\ server' = [server EXCEPT !.pc = "send", !.frame = NextInput(target)]
    /\ target' = Taken(target)
    /\ UNCHANGED <<client, up, down, app, pings>>

\* ws_send_frame_with_policy, and the pong: it waits for room, without a timeout.
\* After the TcpFin the loop breaks, whatever the client still has to say.
ws_send_frame_with_policy ==
    /\ server.pc = "send"
    /\ \/ /\ Len(down) < PipeCap
          /\ IF server.frame = Fin
             THEN server' = Ended("fin") /\ DropServer(Append(down, Fin))
             ELSE server' = [server EXCEPT !.pc = "select"] /\ down' = Append(down, server.frame)
       \/ /\ ~Running(client)
          /\ server' = Ended("error")
          /\ DropServer(down)
    /\ UNCHANGED <<client, up, app, target, pings>>

\* ws_stream.next(), looked at only while client_eof is not set.  A connection the
\* client left shows as an error, or as a close of the edge and then as the end.
tunnel_frame ==
    /\ server.pc = "select" /\ ~server.eof
    /\ \/ /\ up # << >>
          /\ LET m == Head(up) IN
               /\ server' = CASE m.type = "ping"    -> [server EXCEPT !.pc = "send", !.frame = Pong]
                              [] m.type = "TcpData" -> [server EXCEPT !.pc = "write", !.frame = m]
                              [] m.type = "TcpFin"  -> [server EXCEPT !.eof = TRUE]
               /\ target' = [target EXCEPT !.shut = m.type = "TcpFin"]
          /\ up' = Tail(up)
       \/ /\ up = << >> /\ ~Running(client)
          /\ \/ server' = Ended("error") /\ UNCHANGED target
             \/ server' = [server EXCEPT !.eof = TRUE] /\ target' = [target EXCEPT !.shut = TRUE]
          /\ UNCHANGED up
    /\ UNCHANGED <<client, down, app, pings>>

\* target_write.write_all, without a timeout.
target_write ==
    /\ server.pc = "write" /\ Len(target.unread) < SocketCap
    /\ target' = [target EXCEPT !.unread = Append(@, server.frame.n)]
    /\ server' = [server EXCEPT !.pc = "select"]
    /\ UNCHANGED <<client, up, down, app, pings>>

\* Mutant: the loop after client_eof has no timer.
server_idle_Open ==
    /\ server.pc = "select" /\ ~HasInput(target)
    /\ ~server.eof /\ up = << >> /\ Running(client)
    /\ server' = Ended("idle")
    /\ DropServer(down)
    /\ UNCHANGED <<client, up, app, target, pings>>

server_idle ==
    /\ server.pc = "select" /\ ~HasInput(target)
    /\ server.eof \/ (up = << >> /\ Running(client))
    /\ server' = Ended("idle")
    /\ DropServer(down)
    /\ UNCHANGED <<client, up, app, target, pings>>

-----------------------------------------------------------------------------
Client == local_read \/ send_frame \/ remote_frame \/ write_all \/ client_idle
Server == target_read \/ ws_send_frame_with_policy \/ tunnel_frame \/ target_write \/ server_idle

Next == Client \/ Server \/ AppWrites \/ TargetWrites \/ AppReads \/ TargetReads \/ EdgePings

Spec == Init /\ [][Next]_vars

-----------------------------------------------------------------------------
Delivered(p) == p.read \o p.unread
UpTo(n) == [i \in 1 .. n |-> i]

\* Each side receives the chunks of the other in order, without a gap or a repetition,
\* however the loops wait for one another and whenever one of them ends.
DeliveredInOrder ==
    /\ Delivered(app) = UpTo(Len(Delivered(app)))
    /\ Delivered(target) = UpTo(Len(Delivered(target)))

\* An end is announced only after everything before it has been handed over: a relay
\* that ended with the target's FIN has the whole download in the local socket, and a
\* target told the end while the client is still there has the whole upload.
FinIsComplete ==
    /\ client.pc = "fin" => target.fin /\ Delivered(app) = UpTo(target.wrote)
    /\ (target.shut /\ Running(client)) => app.fin /\ Delivered(target) = UpTo(app.wrote)

\* Both sends wait on a full direction that only the other, waiting one would empty.
BothBlocked ==
    client.pc = "send" /\ server.pc = "send" /\ Len(up) = PipeCap /\ Len(down) = PipeCap

\* advanced.idle_timeout_secs ends the relay of a flow on which nothing moves any more
\* (what the application and the target write is finite).
RelayEnded == ~Running(client) /\ ~Running(server)

\* The one thing that keeps a quiet relay from ending is that both ends are caught in
\* their sends at once.
EndedOrBothBlocked == RelayEnded \/ BothBlocked
=============================================================================
