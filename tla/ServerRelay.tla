----------------------------- MODULE ServerRelay -----------------------------
(***************************************************************************)
(* The server's half of one TCP flow: handle_tunnel from the frame that    *)
(* opens the flow (crates/maverick-server/src/server.rs) and the relay     *)
(* loop relay_halves_and_tunnel (crates/maverick-server/src/relay.rs).     *)
(*                                                                         *)
(* The loop is one tokio::select!: each of its branches is an action, the  *)
(* branch's `if` is the guard.  When a branch wins, the futures of the     *)
(* others are dropped; what they had already moved out of the h2 stream    *)
(* survives only because it is in recv_buf.                                *)
(***************************************************************************)
EXTENDS TunnelStream

VARIABLES
    s_state,               \* where handle_tunnel is
    recv_buf,              \* pieces received of a frame not yet complete
    pending_send,          \* pieces of the frame being sent
    end_stream,            \* pending_send ends with trailers
    pending_target_write,  \* the chunk being written to the target, if any
    client_eof,
    target_fin,            \* target_write was shut down
    target_eof,
    response_ended,
    s_result               \* how the handler returned

server == <<s_state, recv_buf, pending_send, end_stream, pending_target_write,
            client_eof, target_fin, target_eof, response_ended, s_result>>

ServerStates == {"open_wait", "connecting", "announce", "reject", "relay",
                 "done"}
ServerResults == {"none", "ok", "idle", "H2SendStall", "error"}

ServerTypeOK ==
    /\ s_state \in ServerStates /\ s_result \in ServerResults
    /\ recv_buf \in Seq(Items) /\ Len(recv_buf) < Pieces
    /\ pending_send \in Seq(Items) /\ Len(pending_send) <= 2 * Pieces
    /\ pending_target_write \in {<<>>} \cup {<<i>> : i \in 1..MaxChunks}
    /\ {end_stream, client_eof, target_fin, target_eof, response_ended} \subseteq BOOLEAN

ServerInit ==
    /\ s_state = "open_wait"
    /\ recv_buf = <<>> /\ pending_send = <<>> /\ end_stream = FALSE
    /\ pending_target_write = <<>>
    /\ client_eof = FALSE /\ target_fin = FALSE /\ target_eof = FALSE
    /\ response_ended = FALSE
    /\ s_result = "none"

\* The handler returns and drops both halves of the h2 stream, which h2 turns
\* into a reset unless both directions were ended; the target socket closes.
ServerReturns(result, ended) ==
    /\ s_state' = "done" /\ s_result' = result
    /\ recv_buf' = <<>> /\ pending_send' = <<>> /\ pending_target_write' = <<>>
    /\ end_stream' = FALSE
    /\ response_ended' = ended
    /\ UNCHANGED <<client_eof, target_eof>>

Dropped(ch, ended) == IF ended /\ client_eof THEN ch ELSE Put(ch, <<RST>>)

Fails(result) ==
    /\ ServerReturns(result, response_ended)
    /\ down' = Dropped(down, response_ended)
    /\ UNCHANGED <<sockets, lost, target_fin>>

-----------------------------------------------------------------------------
\* handle_tunnel up to the relay

Prepare(f, last) == pending_send' = WithPadding(f) /\ end_stream' = last

\* Mutant: the tunnel is read while a chunk waits for the target.
Reading_DuringWrite ==
    \/ s_state = "open_wait"
    \/ s_state = "relay" /\ ~client_eof

\* The read future polls the stream only in these states of the handler.
Reading ==
    \/ s_state = "open_wait"
    \/ s_state = "relay" /\ ~client_eof /\ pending_target_write = <<>>

\* Part of a frame, or a Padding frame: read_next_frame_impl keeps looping.
ReceivePiece ==
    /\ Reading /\ up # <<>> /\ IsPiece(Head(up))
    /\ ~WholeFrame(recv_buf, up) \/ Head(up).frame.type = "Padding"
    /\ recv_buf' = IF WholeFrame(recv_buf, up) THEN <<>>
                   ELSE Received(recv_buf, up)
    /\ up' = Tail(up)
    /\ UNCHANGED <<down, lost, sockets, s_state, pending_send, end_stream,
                   pending_target_write, client_eof, target_fin, target_eof,
                   response_ended, s_result>>

\* Mutant: decoding leaves the frame in recv_buf.
Decoded_Keeps(t) ==
    /\ up # <<>> /\ WholeFrame(recv_buf, up) /\ Head(up).frame.type = t
    /\ up' = Tail(up) /\ recv_buf' = Received(recv_buf, up)

\* A whole frame of type t is decoded and taken out of recv_buf.
Decoded(t) ==
    /\ up # <<>> /\ WholeFrame(recv_buf, up) /\ Head(up).frame.type = t
    /\ up' = Tail(up) /\ recv_buf' = <<>>

ReceiveOpen ==
    /\ s_state = "open_wait" /\ Decoded("OpenTcp")
    /\ s_state' = "connecting"
    /\ UNCHANGED <<down, lost, sockets, pending_send, end_stream,
                   pending_target_write, client_eof, target_fin, target_eof,
                   response_ended, s_result>>

Reject ==
    /\ s_state' = "reject" /\ Prepare(Control("Error"), TRUE)
    /\ UNCHANGED <<down, lost, sockets, pending_target_write, client_eof, target_fin,
                   target_eof, response_ended, s_result>>

\* The stream ended, or handshake_timeout_ms passed, before an open frame.
OpenMissing ==
    /\ s_state = "open_wait"
    /\ up # <<>> /\ Head(up) = END
    /\ up' = Tail(up) /\ UNCHANGED recv_buf
    /\ Reject

OpenTimeout ==
    /\ s_state = "open_wait" /\ Reject /\ UNCHANGED <<up, recv_buf>>

\* No flow permit, or open_target failed or timed out.
TargetConnectFailed ==
    /\ s_state = "connecting" /\ Reject /\ UNCHANGED <<up, recv_buf>>

TargetConnected ==
    /\ s_state = "connecting"
    /\ s_state' = "announce" /\ Prepare(Control("WindowUpdate"), FALSE)
    /\ UNCHANGED <<stream, sockets, recv_buf, pending_target_write,
                   client_eof, target_fin, target_eof, response_ended, s_result>>

\* send_frame, or the relay's capacity branch: one piece is handed to h2; the
\* last piece of a terminal frame is followed by the trailers.
SendPiece ==
    /\ pending_send # <<>> /\ HasCapacity(down)
    /\ LET last == Len(pending_send) = 1
           sent == Put(down, <<Head(pending_send)>>)
       IN  IF ~last
           THEN /\ down' = sent /\ pending_send' = Tail(pending_send)
                /\ UNCHANGED <<s_state, recv_buf, end_stream, s_result,
                               pending_target_write, client_eof, target_eof,
                               response_ended>>
           ELSE IF s_state = "reject"
           THEN /\ down' = Dropped(Put(sent, <<TRAILERS>>), TRUE)
                /\ ServerReturns("ok", TRUE)
           ELSE /\ down' = IF end_stream THEN Put(sent, <<TRAILERS>>) ELSE sent
                /\ response_ended' = end_stream
                /\ pending_send' = <<>> /\ s_state' = "relay"
                /\ UNCHANGED <<recv_buf, end_stream, pending_target_write,
                               client_eof, target_eof, s_result>>
    /\ UNCHANGED <<up, lost, sockets, target_fin>>

\* The client reset the stream: waiting for capacity fails.
SendFails == pending_send # <<>> /\ ResetSeen(up) /\ Fails("error") /\ UNCHANGED up

-----------------------------------------------------------------------------
\* relay_halves_and_tunnel

\* loop { if client_eof && response_ended { break } ... }
RelayEnds ==
    /\ s_state = "relay" /\ client_eof /\ response_ended
    /\ Fails("ok") /\ UNCHANGED up

Running == s_state = "relay" /\ ~(client_eof /\ response_ended)

\* Bytes of the target become a TcpData frame, its end of file a TcpFin.
TakeFromTarget ==
    /\ \/ /\ HasData("target")
          /\ read' = [read EXCEPT !["target"] = @ + 1]
          /\ Prepare(Data(read["target"] + 1), FALSE)
          /\ UNCHANGED <<eof, target_eof>>
       \/ /\ AtEof("target")
          /\ eof' = [eof EXCEPT !["target"] = TRUE] /\ target_eof' = TRUE
          /\ Prepare(Control("TcpFin"), TRUE)
          /\ UNCHANGED read
    /\ UNCHANGED <<stream, got, apps, s_state, pending_target_write,
                   client_eof, target_fin, response_ended, s_result>>

\* Mutant: what a dropped tunnel read had received is lost with its future.
ReadTarget_LosesBuffer ==
    /\ Running /\ pending_send = <<>> /\ ~target_eof
    /\ TakeFromTarget /\ recv_buf' = <<>>

\* Mutant: the target is not read while a chunk waits for it.
ReadTarget_HalfDuplex ==
    /\ Running /\ pending_send = <<>> /\ ~target_eof
    /\ pending_target_write = <<>>
    /\ TakeFromTarget /\ UNCHANGED recv_buf

ReadTarget ==
    /\ Running /\ pending_send = <<>> /\ ~target_eof
    /\ TakeFromTarget /\ UNCHANGED recv_buf

TargetReadFails ==
    /\ Running /\ pending_send = <<>> /\ ~target_eof
    /\ "target" \in apps.breaks
    /\ Fails("error") /\ UNCHANGED up

\* The pending write to the target completes.
WriteTarget ==
    /\ Running /\ pending_target_write # <<>> /\ CanWrite("target")
    /\ got' = [got EXCEPT !["target"] = @ \o pending_target_write]
    /\ pending_target_write' = <<>>
    /\ UNCHANGED <<stream, read, eof, apps, s_state, recv_buf, pending_send,
                   end_stream, client_eof, target_fin, target_eof, response_ended,
                   s_result>>

TargetWriteFails ==
    /\ Running /\ pending_target_write # <<>> /\ "target" \in apps.breaks
    /\ Fails("error") /\ UNCHANGED up

ReceiveData ==
    /\ Running /\ Reading /\ Decoded("TcpData")
    /\ pending_target_write' = <<Head(up).frame.n>>
    /\ UNCHANGED <<down, lost, sockets, s_state, pending_send, end_stream,
                   client_eof, target_fin, target_eof, response_ended, s_result>>

ReceiveFin ==
    /\ Running /\ Reading /\ (Decoded("TcpFin") \/ Decoded("CloseFlow"))
    /\ target_fin' = TRUE /\ client_eof' = TRUE
    /\ UNCHANGED <<down, lost, sockets, s_state, pending_send, end_stream,
                   pending_target_write, target_eof, response_ended, s_result>>

\* TcpReset, or the request ended without a terminal frame: an abrupt end.  The
\* target is shown an end, the response is left open so that h2 resets the
\* stream.
ReceiveAbruptEnd ==
    /\ Running /\ Reading /\ up # <<>>
    /\ \/ WholeFrame(recv_buf, up) /\ Head(up).frame.type = "TcpReset"
       \/ Head(up) = END
    /\ target_fin' = TRUE
    /\ ServerReturns("ok", response_ended)
    /\ up' = Tail(up) /\ down' = Dropped(down, response_ended)
    /\ UNCHANGED <<sockets, lost>>

ReceiveReset ==
    /\ Reading /\ up # <<>> /\ Head(up) = RST
    /\ up' = Tail(up) /\ Fails("error")

\* Mutant: an idle flow completes its response.
IdleTimeout_Trailers ==
    /\ Running /\ pending_target_write = <<>>
    /\ ServerReturns("idle", TRUE) /\ down' = Put(down, <<TRAILERS>>)
    /\ UNCHANGED <<sockets, lost, up, target_fin>>

\* The timers: the loop's own (disarmed during a target write), the one of the
\* target write, and the one of a send outside the loop.
IdleTimeout ==
    /\ Running /\ pending_target_write = <<>>
    /\ Fails(IF pending_send # <<>> THEN "H2SendStall" ELSE "idle")
    /\ UNCHANGED up

TargetWriteTimeout ==
    /\ Running /\ pending_target_write # <<>> /\ ~CanWrite("target")
    /\ Fails("error") /\ UNCHANGED up

SendStalls ==
    /\ s_state \in {"announce", "reject"} /\ ~HasCapacity(down)
    /\ Fails("H2SendStall") /\ UNCHANGED up

-----------------------------------------------------------------------------
ServerProgress ==
    \/ ReceivePiece \/ ReceiveOpen \/ OpenMissing
    \/ TargetConnected \/ TargetConnectFailed
    \/ SendPiece \/ SendFails \/ RelayEnds
    \/ ReadTarget \/ TargetReadFails \/ WriteTarget \/ TargetWriteFails
    \/ ReceiveData \/ ReceiveFin \/ ReceiveAbruptEnd \/ ReceiveReset

ServerTimers ==
    \/ OpenTimeout \/ IdleTimeout \/ TargetWriteTimeout \/ SendStalls

\* Another server program ends the flow with a frame of its own choice,
\* or the response without one.
OtherServerEnds(t) ==
    /\ Running /\ pending_send = <<>> /\ ~target_eof
    /\ target_eof' = TRUE
    /\ IF t = "TRAILERS"
       THEN /\ down' = Put(down, <<TRAILERS>>) /\ response_ended' = TRUE
            /\ UNCHANGED <<pending_send, end_stream>>
       ELSE Prepare(Control(t), TRUE) /\ UNCHANGED <<down, response_ended>>
    /\ UNCHANGED <<up, lost, sockets, s_state, recv_buf,
                   pending_target_write, client_eof, target_fin, s_result>>
=============================================================================
