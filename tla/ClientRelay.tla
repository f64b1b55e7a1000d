----------------------------- MODULE ClientRelay -----------------------------
(***************************************************************************)
(* The client's half of one TCP flow over HTTP/2: handle_local_connect,    *)
(* open_tcp_on_tunnel and relay_h2 (crates/maverick-client/src/session.rs) *)
(* with the senders and receivers of crates/maverick-client/src/tunnel.rs. *)
(*                                                                         *)
(* relay_h2 polls an upload and a download future in one task and watches  *)
(* both with an idle timer; each future is a small state machine here.     *)
(***************************************************************************)
EXTENDS TunnelStream

CONSTANT InitialData   \* the local request came with bytes for the target

VARIABLES
    c_state,    \* where handle_local_connect is
    reply,      \* what the local application was told
    upload,     \* the upload future
    out,        \* pieces of the frame being sent
    out_last,   \* out carries END_STREAM
    download,   \* the download future
    c_buf,      \* pieces received of a frame not yet complete
    d_write,    \* the chunk being written to the local socket, if any
    local_fin,  \* local_write was shut down: the application reads an end
    close       \* how the relay returned

client == <<c_state, reply, upload, out, out_last, download, c_buf, d_write,
            local_fin, close>>

ClientStates == {"opening", "open_failed", "initial", "relay", "closing",
                 "done"}
RelayClose == {"Graceful", "Reset"}
ClientResults == RelayClose \cup {"none", "idle", "H2SendStalled", "error"}

ClientTypeOK ==
    /\ c_state \in ClientStates /\ close \in ClientResults
    /\ reply \in {"none", "success", "failure"}
    /\ upload \in {"reading", "sending", "done"}
    /\ download \in {"reading", "writing", "finishing", "done"}
    /\ out \in Seq(Items) /\ Len(out) <= 2 * Pieces
    /\ c_buf \in Seq(Items) /\ Len(c_buf) < Pieces
    /\ d_write \in {<<>>} \cup {<<i>> : i \in 1..MaxChunks}
    /\ {local_fin, out_last} \subseteq BOOLEAN

\* open_tcp_on_tunnel has just been called on a fresh tunnel.
ClientInit ==
    /\ c_state = "opening" /\ reply = "none" /\ close = "none"
    /\ upload = "sending" /\ out = WithPadding(Control("OpenTcp"))
    /\ out_last = FALSE
    /\ download = "reading" /\ c_buf = <<>> /\ d_write = <<>>
    /\ local_fin = FALSE

\* The tunnel is dropped: h2 resets the stream unless both directions ended.
ClientReturns(result, read_all) ==
    /\ c_state' = "done" /\ close' = result
    /\ reply' = IF reply = "none" THEN "failure" ELSE reply
    /\ out' = <<>> /\ c_buf' = <<>> /\ d_write' = <<>> /\ out_last' = FALSE
    /\ up' = IF upload = "done" /\ read_all THEN up ELSE Put(up, <<RST>>)
    /\ UNCHANGED <<upload, download, local_fin, lost, sockets>>

ClientFails(result) == ClientReturns(result, FALSE) /\ UNCHANGED down

Enqueue(f, last) ==
    /\ out' = WithPadding(f) /\ out_last' = last /\ upload' = "sending"

-----------------------------------------------------------------------------
\* H2Sender::send_frame

ClientSendPiece ==
    /\ out # <<>> /\ HasCapacity(up)
    /\ out' = Tail(out)
    /\ LET sent == Put(up, <<Head(out)>>)
       IN  IF Len(out) > 1
           THEN up' = sent /\ UNCHANGED <<upload, c_state>>
           ELSE /\ up' = IF out_last THEN Put(sent, <<END>>) ELSE sent
                /\ upload' = IF out_last THEN "done" ELSE "reading"
                /\ c_state' = IF c_state = "initial" THEN "relay" ELSE c_state
    /\ UNCHANGED <<down, lost, sockets, reply, out_last, download, c_buf,
                   d_write, local_fin, close>>

ClientSendFails == out # <<>> /\ ResetSeen(down) /\ ClientFails("error")

ClientSendStalls ==
    out # <<>> /\ ~HasCapacity(up) /\ ClientFails("H2SendStalled")

-----------------------------------------------------------------------------
\* read_next_h2_frame and finish_h2_response

ClientReading ==
    \/ c_state = "opening" /\ out = <<>>
    \/ c_state = "relay" /\ download = "reading"
Finishing ==
    \/ c_state \in {"open_failed", "closing"}
    \/ c_state = "relay" /\ download = "finishing"

ClientReceivePiece ==
    /\ ClientReading \/ Finishing
    /\ down # <<>> /\ IsPiece(Head(down))
    /\ ~WholeFrame(c_buf, down) \/ Head(down).frame.type = "Padding"
    /\ c_buf' = IF WholeFrame(c_buf, down) THEN <<>> ELSE Received(c_buf, down)
    /\ down' = Tail(down)
    /\ UNCHANGED <<up, lost, sockets, c_state, reply, upload, out, out_last,
                   download, d_write, local_fin, close>>

\* A whole frame of one of the types T is decoded.
ClientDecodes(T) ==
    /\ down # <<>> /\ WholeFrame(c_buf, down) /\ Head(down).frame.type \in T
    /\ down' = Tail(down)

\* Mutant: a reset passes for the end of the response.
ClientReceiveReset_Graceful ==
    /\ ClientReading /\ down # <<>> /\ Head(down) = RST
    /\ down' = Tail(down) /\ ClientReturns("Graceful", FALSE)

ClientReceiveReset ==
    /\ ClientReading /\ down # <<>> /\ Head(down) = RST
    /\ down' = Tail(down) /\ ClientReturns("error", FALSE)

\* A clean end of the response body where a frame was expected.
ClientReceiveEnd ==
    /\ ClientReading /\ down # <<>> /\ Head(down) \in {TRAILERS, END}
    /\ down' = Tail(down)
    /\ ClientReturns(IF c_state = "relay" THEN "Graceful" ELSE "error", TRUE)

\* The body ends where a frame would begin.
CleanEnd == down # <<>> /\ Head(down) \in {TRAILERS, END} /\ c_buf = <<>>

FinishResponse ==
    /\ Finishing /\ CleanEnd
    /\ down' = Tail(down)
    /\ CASE c_state = "relay" ->
              /\ download' = "done"
              /\ UNCHANGED <<up, lost, sockets, c_state, reply, upload, out,
                             out_last, c_buf, d_write, local_fin, close>>
         [] c_state = "closing" -> ClientReturns(close, TRUE)
         [] OTHER -> ClientReturns("error", TRUE)

\* Anything but padding and a clean end after the terminal frame.
FinishFails ==
    /\ Finishing /\ down # <<>> /\ ~CleanEnd
    /\ Head(down).frame.type # "Padding"
    /\ IsPiece(Head(down)) => WholeFrame(c_buf, down)
    /\ down' = Tail(down) /\ ClientReturns("error", FALSE)

FinishTimeout == Finishing /\ ClientFails("error")

-----------------------------------------------------------------------------
\* open_tcp_on_tunnel and handle_local_connect

Opened ==
    /\ c_state = "opening" /\ ClientReading /\ ClientDecodes({"WindowUpdate"})
    /\ reply' = "success" /\ c_buf' = <<>>
    /\ IF InitialData
       THEN /\ read' = [read EXCEPT !["local"] = @ + 1]
            /\ Enqueue(Data(read["local"] + 1), FALSE) /\ c_state' = "initial"
       ELSE c_state' = "relay" /\ UNCHANGED <<read, out, out_last, upload>>
    /\ UNCHANGED <<up, lost, eof, got, apps, download, d_write, local_fin,
                   close>>

OpenRejected ==
    /\ c_state = "opening" /\ ClientReading /\ ClientDecodes({"Error", "CloseFlow"})
    /\ c_state' = "open_failed" /\ c_buf' = <<>>
    /\ UNCHANGED <<up, lost, sockets, reply, upload, out, out_last, download,
                   d_write, local_fin, close>>

-----------------------------------------------------------------------------
\* relay_h2

ReadLocal ==
    /\ c_state = "relay" /\ upload = "reading"
    /\ \/ /\ HasData("local")
          /\ read' = [read EXCEPT !["local"] = @ + 1]
          /\ Enqueue(Data(read["local"] + 1), FALSE)
          /\ UNCHANGED eof
       \/ /\ AtEof("local")
          /\ eof' = [eof EXCEPT !["local"] = TRUE]
          /\ Enqueue(Control("TcpFin"), TRUE)
          /\ UNCHANGED read
    /\ UNCHANGED <<stream, got, apps, c_state, reply, download, c_buf,
                   d_write, local_fin, close>>

LocalReadFails ==
    /\ c_state = "relay" /\ upload = "reading" /\ "local" \in apps.breaks
    /\ ClientFails("error")

ClientReceiveData ==
    /\ c_state = "relay" /\ ClientReading /\ ClientDecodes({"TcpData"})
    /\ d_write' = <<Head(down).frame.n>> /\ download' = "writing"
    /\ c_buf' = <<>>
    /\ UNCHANGED <<up, lost, sockets, c_state, reply, upload, out, out_last,
                   local_fin, close>>

WriteLocal ==
    /\ c_state = "relay" /\ download = "writing" /\ CanWrite("local")
    /\ got' = [got EXCEPT !["local"] = @ \o d_write]
    /\ d_write' = <<>> /\ download' = "reading"
    /\ UNCHANGED <<stream, read, eof, apps, c_state, reply, upload, out,
                   out_last, c_buf, local_fin, close>>

LocalWriteFails ==
    /\ c_state = "relay" /\ download = "writing" /\ "local" \in apps.breaks
    /\ ClientFails("error")

LocalWriteTimeout ==
    /\ c_state = "relay" /\ download = "writing" /\ ~CanWrite("local")
    /\ ClientFails("error")

\* Mutant: a response FIN ends the relay, as it does over WebSocket.
ClientReceiveFin_EndsRelay ==
    /\ c_state = "relay" /\ ClientReading /\ ClientDecodes({"TcpFin"})
    /\ ClientReturns("Graceful", FALSE)

\* A response FIN closes downloads only: the upload goes on.
ClientReceiveFin ==
    /\ c_state = "relay" /\ ClientReading /\ ClientDecodes({"TcpFin"})
    /\ \/ /\ local_fin' = TRUE /\ download' = "finishing" /\ c_buf' = <<>>
          /\ UNCHANGED <<up, lost, sockets, c_state, reply, upload, out,
                         out_last, d_write, close>>
       \/ "local" \in apps.breaks /\ ClientReturns("error", FALSE)

\* A full close drops the upload, then shows the application an end, and only
\* then waits for the trailers.
StopUploadAndShut ==
    /\ c_state' = "closing" /\ local_fin' = TRUE
    /\ out' = <<>> /\ out_last' = FALSE

ClientReceiveClose ==
    /\ c_state = "relay" /\ ClientReading
    /\ ClientDecodes({"CloseFlow", "Error"})
    /\ StopUploadAndShut
    /\ close' = IF Head(down).frame.type = "CloseFlow" THEN "Graceful"
                ELSE "Reset"
    /\ c_buf' = <<>>
    /\ UNCHANGED <<up, lost, sockets, reply, upload, download, d_write>>

\* TcpReset, or any frame that does not answer OpenTcp.
ClientReceiveTcpReset ==
    /\ ClientReading
    /\ ClientDecodes(IF c_state = "relay" THEN {"TcpReset"}
                     ELSE {"TcpReset", "TcpData", "TcpFin"})
    /\ ClientReturns(IF c_state = "relay" THEN "Reset" ELSE "error", FALSE)

BothDone ==
    /\ c_state = "relay" /\ upload = "done" /\ download = "done"
    /\ ClientReturns("Graceful", TRUE) /\ UNCHANGED down

\* The idle watch; a stalled send, write or finish reports itself first.
ClientIdle ==
    /\ c_state = "relay" /\ upload # "sending"
    /\ download \in {"reading", "done"}
    /\ ClientFails("idle")

-----------------------------------------------------------------------------
ClientProgress ==
    \/ ClientSendPiece \/ ClientSendFails
    \/ ClientReceivePiece \/ ClientReceiveReset \/ ClientReceiveEnd
    \/ FinishResponse \/ FinishFails
    \/ Opened \/ OpenRejected
    \/ ReadLocal \/ LocalReadFails
    \/ ClientReceiveData \/ WriteLocal \/ LocalWriteFails
    \/ ClientReceiveFin \/ ClientReceiveClose \/ ClientReceiveTcpReset
    \/ BothDone

ClientTimers ==
    \/ ClientSendStalls \/ FinishTimeout \/ LocalWriteTimeout \/ ClientIdle

\* Another client program ends its uploads with a frame of its own choice, or
\* ends the request without one.
OtherClientEnds(t) ==
    /\ c_state = "relay" /\ upload = "reading"
    /\ IF t = "END"
       THEN /\ up' = Put(up, <<END>>) /\ upload' = "done"
            /\ UNCHANGED <<out, out_last>>
       ELSE Enqueue(Control(t), TRUE) /\ UNCHANGED up
    /\ UNCHANGED <<down, lost, sockets, c_state, reply, download, c_buf,
                   d_write, local_fin, close>>
=============================================================================
