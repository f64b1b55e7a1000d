------------------------------ MODULE MCRelay -------------------------------
(***************************************************************************)
(* The tunnels, for TLC: a TCP flow over HTTP/2 (TunnelRelay), HTTP/3      *)
(* (H3Relay) and WebSocket (WsRelay), the shaping of what a sender puts on *)
(* the wire (Shaping), and how the other end reads it (NoiseSession,       *)
(* FrameStream).  A behaviour runs one part, chosen at the start, while    *)
(* the others rest in an initial state.                                    *)
(***************************************************************************)
EXTENDS TunnelRelay

CONSTANT Parts   \* the parts this run is about

VARIABLE part

-----------------------------------------------------------------------------
(* TunnelRelay: the instance of the configuration; one whose peer is        *)
(* another program, with padding and initial data; and one whose timers     *)
(* fire on a silent flow only.                                              *)

Behaviours(R, C, B) == [reads : R, closes : C, breaks : B]
\* Every application may close or break at any time; it reads or it stalls.
AnyApps == Behaviours({{}, Ends}, {Ends}, {Ends})
\* Applications that never break, in every mix of reading and closing.
SoundApps == Behaviours(SUBSET Ends, SUBSET Ends, {{}})

Foreign == INSTANCE TunnelRelay WITH
    PadsFrames <- TRUE, InitialData <- TRUE, CanLose <- FALSE,
    OtherClientFrames <- {"CloseFlow", "TcpReset", "END"},
    OtherServerFrames <- {"CloseFlow", "TcpReset", "Error", "TRAILERS"}
Quiet == INSTANCE TunnelRelay WITH
    EagerTimeouts <- FALSE, CanLose <- FALSE, MaxChunks <- 2, SocketBuffer <- 1

-----------------------------------------------------------------------------
(* H3Relay: chunks both ways with every fault; without faults; and a long   *)
(* download that may be given up.                                           *)

TwoUp == [client |-> 2, server |-> 1]
TwoDown == [client |-> 1, server |-> 2]
Download == [client |-> 0, server |-> 2]

VARIABLES quic_sent, quic_got, quic_relay, quic_out, quic_inb, quic_drv, quic_wire, quic_rbuf,
          quic_unacked, quic_conn
quic == <<quic_sent, quic_got, quic_relay, quic_out, quic_inb, quic_drv, quic_wire, quic_rbuf,
          quic_unacked, quic_conn>>
Quic == INSTANCE H3Relay WITH
    sent <- quic_sent, got <- quic_got, relay <- quic_relay, out <- quic_out, inb <- quic_inb,
    drv <- quic_drv, wire <- quic_wire, rbuf <- quic_rbuf, unacked <- quic_unacked,
    conn <- quic_conn, N <- TwoDown, Window <- 2, Faults <- {"lost", "idle", "stop", "reject"}
QuicEnds == INSTANCE H3Relay WITH
    sent <- quic_sent, got <- quic_got, relay <- quic_relay, out <- quic_out, inb <- quic_inb,
    drv <- quic_drv, wire <- quic_wire, rbuf <- quic_rbuf, unacked <- quic_unacked,
    conn <- quic_conn, N <- TwoDown, Window <- 2, Faults <- {}
QuicCancel == INSTANCE H3Relay WITH
    sent <- quic_sent, got <- quic_got, relay <- quic_relay, out <- quic_out, inb <- quic_inb,
    drv <- quic_drv, wire <- quic_wire, rbuf <- quic_rbuf, unacked <- quic_unacked,
    conn <- quic_conn, N <- Download, Window <- 1, Faults <- {"idle"}
QuicLoss == INSTANCE H3Relay WITH
    sent <- quic_sent, got <- quic_got, relay <- quic_relay, out <- quic_out, inb <- quic_inb,
    drv <- quic_drv, wire <- quic_wire, rbuf <- quic_rbuf, unacked <- quic_unacked,
    conn <- quic_conn, N <- TwoUp, Window <- 2, Faults <- {"lost"}

-----------------------------------------------------------------------------
(* WsRelay: directions that hold one message, and directions with room for  *)
(* everything that is ever sent.                                            *)

VARIABLES ws_client, ws_server, ws_up, ws_down, ws_app, ws_target, ws_pings
ws == <<ws_client, ws_server, ws_up, ws_down, ws_app, ws_target, ws_pings>>
Ws == INSTANCE WsRelay WITH
    client <- ws_client, server <- ws_server, up <- ws_up, down <- ws_down, app <- ws_app,
    target <- ws_target, pings <- ws_pings, Chunks <- 2, PipeCap <- 1, SocketCap <- 1,
    MaxPings <- 1
WsRoom == INSTANCE WsRelay WITH
    client <- ws_client, server <- ws_server, up <- ws_up, down <- ws_down, app <- ws_app,
    target <- ws_target, pings <- ws_pings, Chunks <- 1, PipeCap <- 5, SocketCap <- 1,
    MaxPings <- 1

-----------------------------------------------------------------------------
(* Shaping: client and server senders on every carrier, with shaping off,   *)
(* in stable mode, and with budgets that are generous, zero, or too small   *)
(* to batch.                                                                *)

Base == [enabled |-> TRUE, max_padding |-> 8, ratio |-> 50, max_delay_ms |-> 20, max_batch |-> 40,
         cover_traffic |-> TRUE, approved |-> TRUE, window_ms |-> 1000]
Shapings ==
    {Base, [Base EXCEPT !.enabled = FALSE, !.cover_traffic = FALSE], [Base EXCEPT !.max_delay_ms = 0],
     [Base EXCEPT !.ratio = 0], [Base EXCEPT !.cover_traffic = FALSE, !.approved = FALSE],
     [Base EXCEPT !.max_batch = 15], [Base EXCEPT !.max_padding = 100, !.ratio = 100]}
Of(role, carriers, shapings) ==
    {[role |-> role, carrier |-> c, mode |-> m, shaping |-> s] :
        c \in carriers, m \in {"stable", "auto", "private"}, s \in shapings}
ClientSetups == Of("client", {"h2", "ws"}, Shapings)

\* The server has no batcher: the shapings that differ for it only in their delay
\* or batch cap are left out.
ServerSetups ==
    Of("server", {"h2"}, {Base, [Base EXCEPT !.max_padding = 100, !.ratio = 100]})
        \cup Of("server", {"ws"}, {Base})
HoldingSetups == Of("client", {"h2"}, {Base, [Base EXCEPT !.max_delay_ms = 0]})

VARIABLES shape_setup, shape_batcher, shape_tx, shape_offered, shape_wire, shape_waits,
          shape_metrics, shape_scrape
shape == <<shape_setup, shape_batcher, shape_tx, shape_offered, shape_wire, shape_waits,
           shape_metrics, shape_scrape>>
Sender == INSTANCE Shaping WITH
    setup <- shape_setup, batcher <- shape_batcher, tx <- shape_tx, offered <- shape_offered,
    wire <- shape_wire, waits <- shape_waits, metrics <- shape_metrics, scrape <- shape_scrape,
    Setups <- ClientSetups, Lengths <- {0, 3, 30},
    Types <- {"TcpData", "TcpFin", "Error", "UdpPacket"}, MaxFrameSize <- 64, MaxFrames <- 2
ServerSender == INSTANCE Shaping WITH
    setup <- shape_setup, batcher <- shape_batcher, tx <- shape_tx, offered <- shape_offered,
    wire <- shape_wire, waits <- shape_waits, metrics <- shape_metrics, scrape <- shape_scrape,
    Setups <- ServerSetups, Lengths <- {0, 3, 30}, Types <- {"TcpData", "TcpFin"},
    MaxFrameSize <- 64, MaxFrames <- 2
Holding == INSTANCE Shaping WITH
    setup <- shape_setup, batcher <- shape_batcher, tx <- shape_tx, offered <- shape_offered,
    wire <- shape_wire, waits <- shape_waits, metrics <- shape_metrics, scrape <- shape_scrape,
    Setups <- HoldingSetups, Lengths <- {0, 30}, Types <- {"TcpData", "TcpFin"},
    MaxFrameSize <- 64, MaxFrames <- 2

-----------------------------------------------------------------------------
(* FrameStream: streams of up to two frames: data at and beyond the         *)
(* receiver's limit, an empty FIN, padding, and a frame type only a newer   *)
(* peer knows.  Its codec: every kind of address, with and without data;    *)
(* every cut of every encoding, and short strings over the bytes the        *)
(* decoders branch on.                                                      *)

WireFrame(type, flow, payload) == [type |-> type, flags |-> 0, flow_id |-> flow, payload |-> payload]
WireFrames ==
    {WireFrame(4, 1, <<9, 8, 7>>), WireFrame(4, 1, <<1, 2, 3, 4>>), WireFrame(5, 2, << >>),
     WireFrame(16, 0, <<0, 0>>), WireFrame(17, 1, <<5>>)}
SmallFrames == {WireFrame(1, 0, <<6, 6>>), WireFrame(16, 0, <<0>>)}

Targets ==
    {[type |-> "domain", host |-> <<97>>], [type |-> "domain", host |-> <<97, 46, 98>>],
     [type |-> "ipv4", octets |-> <<10, 0, 0, 1>>],
     [type |-> "ipv6", octets |-> [i \in 1 .. 16 |-> IF i = 16 THEN 1 ELSE 0]]}
Values ==
    {[as |-> a, value |-> [target |-> t, port |-> p, data |-> d]] :
        a \in {"OpenTcp", "SocksUdp"}, t \in Targets, p \in {0, 1, 443}, d \in {<< >>, <<0>>, <<1, 3>>}}
    \cup {[as |-> "OpenUdp", value |-> n] : n \in {0, 30000}}
    \cup {[as |-> "ErrorCode", value |-> n] : n \in 1 .. 5}
Noise == UNION {[1 .. n -> {0, 1, 3}] : n \in 0 .. 5}

VARIABLES frame_carrier, frame_sent, frame_transit, frame_buf, frame_got, frame_capture,
          frame_pongs, frame_lost, frame_status
framed == <<frame_carrier, frame_sent, frame_transit, frame_buf, frame_got, frame_capture,
            frame_pongs, frame_lost, frame_status>>
Reader == INSTANCE FrameStream WITH
    carrier <- frame_carrier, sent <- frame_sent, transit <- frame_transit, buf <- frame_buf,
    got <- frame_got, capture <- frame_capture, pongs <- frame_pongs, lost <- frame_lost,
    status <- frame_status, Frames <- WireFrames, MaxSent <- 2, SenderMax <- 4, ReceiverMax <- 3,
    CaptureMax <- 30, Carriers <- {"h2", "noise", "ws", "ws_relay"}
Capture == INSTANCE FrameStream WITH
    carrier <- frame_carrier, sent <- frame_sent, transit <- frame_transit, buf <- frame_buf,
    got <- frame_got, capture <- frame_capture, pongs <- frame_pongs, lost <- frame_lost,
    status <- frame_status, Frames <- SmallFrames, MaxSent <- 2, SenderMax <- 4, ReceiverMax <- 3,
    CaptureMax <- 30, Carriers <- {"h2_capture"}

VARIABLE input   \* what reaches a payload decoder

-----------------------------------------------------------------------------
(* NoiseSession: two contexts, two keys and limits at the edge of what      *)
(* validate accepts; and two frames each way with two faults.               *)

VARIABLES noise_config, noise_hs, noise_path, noise_wrote, noise_read, noise_nonce, noise_faults
noise == <<noise_config, noise_hs, noise_path, noise_wrote, noise_read, noise_nonce, noise_faults>>
Handshake == INSTANCE NoiseSession WITH
    config <- noise_config, hs <- noise_hs, path <- noise_path, wrote <- noise_wrote,
    read <- noise_read, nonce <- noise_nonce, faults <- noise_faults,
    Contexts <- {"h2", "cloudflare_ws"}, Keys <- {"k1", "k2"}, Sizes <- {0, 2, 65505, 65506},
    Lengths <- {1, 65505, 65506}, MaxFrames <- 1, MaxFaults <- 1
NoiseFrames == INSTANCE NoiseSession WITH
    config <- noise_config, hs <- noise_hs, path <- noise_path, wrote <- noise_wrote,
    read <- noise_read, nonce <- noise_nonce, faults <- noise_faults, Contexts <- {"h2"},
    Keys <- {"k1"}, Sizes <- {2, 9}, Lengths <- {1, 3}, MaxFrames <- 2, MaxFaults <- 2

-----------------------------------------------------------------------------
RelayInit ==
    /\ part \in Parts
    /\ StreamInit /\ ServerInit /\ ClientInit
    /\ apps \in (IF part \in {"relay", "foreign", "quiet"} THEN AppBehaviours ELSE {CHOOSE a \in AppBehaviours : TRUE})
    /\ Quic!Init /\ Ws!Init
    /\ CASE part = "sender" -> Sender!Init
         [] part = "server_sender" -> ServerSender!Init
         [] OTHER -> Holding!Init /\ (part # "holding" => shape_setup = CHOOSE s \in HoldingSetups : TRUE)
    /\ IF part = "capture" THEN Capture!Init ELSE Reader!Init
    /\ part \notin {"reader", "capture"} => frame_carrier = "h2" /\ frame_sent = << >>
    /\ input \in IF part = "codec" THEN Reader!DecoderInputs(Values, Noise) ELSE {[as |-> "OpenUdp", bytes |-> << >>]}
    /\ IF part = "handshake" THEN Handshake!Init ELSE NoiseFrames!Init
    /\ part \notin {"handshake", "noise_frames"} => \A e \in {"initiator", "responder"} :
           noise_config[e].max_frame_size = 2 /\ noise_config[e].expected = << >>

FlowStep ==
    /\ part \in {"relay", "foreign", "quiet"}
    /\ UNCHANGED <<part, quic, ws, shape, framed, input, noise>>
    /\ \/ part = "relay" /\ Next
       \/ part = "foreign" /\ Foreign!Next
       \/ part = "quiet" /\ Quiet!Next
QuicStep ==
    /\ part \in {"quic", "quic_ends", "quic_cancel", "quic_loss"}
    /\ UNCHANGED <<part, vars, ws, shape, framed, input, noise>>
    /\ \/ part = "quic" /\ Quic!Next
       \/ part = "quic_ends" /\ QuicEnds!Next
       \/ part = "quic_cancel" /\ QuicCancel!Next
       \/ part = "quic_loss" /\ QuicLoss!Next
WsStep ==
    /\ part \in {"ws", "ws_room"} /\ UNCHANGED <<part, vars, quic, shape, framed, input, noise>>
    /\ \/ part = "ws" /\ Ws!Next
       \/ part = "ws_room" /\ WsRoom!Next
ShapeStep ==
    /\ part \in {"sender", "server_sender", "holding"}
    /\ UNCHANGED <<part, vars, quic, ws, framed, input, noise>>
    /\ \/ part = "sender" /\ Sender!Next
       \/ part = "server_sender" /\ ServerSender!Next
       \/ part = "holding" /\ Holding!Next
FrameStep ==
    /\ part \in {"reader", "capture"} /\ UNCHANGED <<part, vars, quic, ws, shape, input, noise>>
    /\ \/ part = "reader" /\ Reader!Next
       \/ part = "capture" /\ Capture!Next
NoiseStep ==
    /\ part \in {"handshake", "noise_frames"}
    /\ UNCHANGED <<part, vars, quic, ws, shape, framed, input>>
    /\ \/ part = "handshake" /\ Handshake!Next
       \/ part = "noise_frames" /\ NoiseFrames!Next

\* The parts that may come to rest; the flows over HTTP/2 and HTTP/3 are never stuck.
Rest ==
    /\ part \in {"ws", "ws_room", "sender", "server_sender", "holding", "reader", "capture", "codec",
                 "handshake", "noise_frames"}
    /\ UNCHANGED <<part, vars, quic, ws, shape, framed, input, noise>>

RelayNext == FlowStep \/ QuicStep \/ WsStep \/ ShapeStep \/ FrameStep \/ NoiseStep \/ Rest
RelaySpec == RelayInit /\ [][RelayNext]_<<part, vars, quic, ws, shape, framed, input, noise>>

\* Both tasks of a flow are scheduled, select! polls its ready branches in random
\* order, and tokio's timers fire.
FlowFairness ==
    /\ WF_vars(part = "relay" /\ SendPiece /\ UNCHANGED client)
    /\ WF_vars(part = "relay" /\ ServerProgress /\ UNCHANGED <<client, down>>)
    /\ WF_vars(part = "relay" /\ Server) /\ WF_vars(part = "relay" /\ Client)
    /\ WF_vars(part = "relay" /\ Timeout)
    /\ WF_vars(part = "quiet" /\ Quiet!SendPiece /\ UNCHANGED client)
    /\ WF_vars(part = "quiet" /\ Quiet!ServerProgress /\ UNCHANGED <<client, down>>)
    /\ WF_vars(part = "quiet" /\ Quiet!Server) /\ WF_vars(part = "quiet" /\ Quiet!Client)
    /\ WF_vars(part = "quiet" /\ Quiet!Timeout)

\* select! takes every branch that stays ready.
QuicEndsFairness == \A s \in {"client", "server"} :
    /\ WF_quic(part = "quic_ends" /\ QuicEnds!RecvOutbound(s))
    /\ WF_quic(part = "quic_ends" /\ QuicEnds!DeliverInbound(s))
    /\ WF_quic(part = "quic_ends" /\ QuicEnds!InboundClosed(s))
    /\ WF_quic(part = "quic_ends" /\ QuicEnds!RecvData(s)) /\ WF_quic(part = "quic_ends" /\ QuicEnds!RecvAck(s))
    /\ WF_quic(part = "quic_ends" /\ QuicEnds!RecvClose(s)) /\ WF_quic(part = "quic_ends" /\ QuicEnds!Relaying(s))
QuicCancelFairness == \A s \in {"client", "server"} :
    /\ WF_quic(part = "quic_cancel" /\ QuicCancel!RecvOutbound(s))
    /\ WF_quic(part = "quic_cancel" /\ QuicCancel!DeliverInbound(s))
    /\ WF_quic(part = "quic_cancel" /\ QuicCancel!InboundClosed(s))
    /\ WF_quic(part = "quic_cancel" /\ QuicCancel!RecvData(s)) /\ WF_quic(part = "quic_cancel" /\ QuicCancel!RecvAck(s))
    /\ WF_quic(part = "quic_cancel" /\ QuicCancel!RecvClose(s)) /\ WF_quic(part = "quic_cancel" /\ QuicCancel!Relaying(s))
QuicLossFairness == \A s \in {"client", "server"} :
    /\ WF_quic(part = "quic_loss" /\ QuicLoss!RecvOutbound(s))
    /\ WF_quic(part = "quic_loss" /\ QuicLoss!DeliverInbound(s))
    /\ WF_quic(part = "quic_loss" /\ QuicLoss!InboundClosed(s))
    /\ WF_quic(part = "quic_loss" /\ QuicLoss!RecvData(s)) /\ WF_quic(part = "quic_loss" /\ QuicLoss!RecvAck(s))
    /\ WF_quic(part = "quic_loss" /\ QuicLoss!RecvClose(s)) /\ WF_quic(part = "quic_loss" /\ QuicLoss!Relaying(s))

\* The endpoints of a QUIC flow send and take what there is; an application and a
\* target behind a WebSocket keep reading.
PeersFairness ==
    /\ \A s \in {"client", "server"} :
        /\ WF_quic(part = "quic_ends" /\ QuicEnds!ReadEndpoint(s)) /\ WF_quic(part = "quic_ends" /\ QuicEnds!WriteEndpoint(s))
        /\ WF_quic(part = "quic_cancel" /\ QuicCancel!ReadEndpoint(s))
        /\ WF_quic(part = "quic_cancel" /\ QuicCancel!WriteEndpoint(s))
    /\ WF_ws(part \in {"ws", "ws_room"} /\ Ws!AppReads) /\ WF_ws(part \in {"ws", "ws_room"} /\ Ws!TargetReads)

WsFairness ==
    /\ WF_ws(part = "ws" /\ Ws!Client) /\ WF_ws(part = "ws" /\ Ws!Server)
    /\ WF_ws(part = "ws_room" /\ WsRoom!Client) /\ WF_ws(part = "ws_room" /\ WsRoom!Server)

\* Timers fire and the executor polls the sender; nothing makes a send begin.
ShapeFairness ==
    /\ WF_shape(part = "holding" /\ Holding!Wake) /\ WF_shape(part = "holding" /\ Holding!Write)
    /\ WF_shape(part = "holding" /\ Holding!Written)

FlowFairSpec == RelaySpec /\ FlowFairness
CarrierFairSpec ==
    RelaySpec /\ QuicEndsFairness /\ QuicCancelFairness /\ PeersFairness /\ WsFairness /\ ShapeFairness
LossSpec == RelaySpec /\ QuicLossFairness

-----------------------------------------------------------------------------
\* A flow over HTTP/2 is faithful at every step of the two relays, whatever breaks
\* and whichever program is at the other end: pieces stay whole frames, trailers and
\* a graceful end mean that everything arrived.  Between two relays of this program
\* every end that is passed on was read from a socket.
FlowIsFaithful ==
    /\ part = "relay" => TypeOK /\ FramesAligned /\ TrailersMeanComplete /\ GracefulIsComplete /\ EndsAreRead
    /\ part = "foreign" => Foreign!TypeOK /\ FramesAligned /\ Foreign!TrailersMeanComplete /\ Foreign!GracefulIsComplete
    /\ part = "quiet" => EndsAreRead /\ FramesAligned /\ Quiet!TrailersMeanComplete /\ Quiet!GracefulIsComplete

\* The other two carriers deliver the same: what an endpoint gets is the beginning of
\* what the other sent, and an announced end comes after all of it, through QUIC's
\* buffers, closes and resets, and through the strictly alternating WebSocket loops.
CarriersDeliver ==
    /\ part = "quic" => Quic!TypeOK /\ Quic!GracefulIsComplete /\ Quic!InOrder
    /\ part = "ws" => Ws!DeliveredInOrder /\ Ws!FinIsComplete

\* What one end encodes the other decodes, however it is shaped and the carrier cuts it.
\* Shaped payload is written in order, once and completely, with the end mark last, held
\* no longer than the bound and counted as it was written.  Frames come out as sent or are
\* refused for a reason of their own, the buffer is bounded, the capture for the fallback
\* is the request, payload decoders accept canonical bytes only, and a Noise transport is
\* agreed on by both and delivers in order.
WireIsFaithful ==
    /\ part \in {"sender", "server_sender"} =>
           /\ Sender!PayloadInOrder /\ Sender!ReturnedIsWritten /\ Sender!EndMarkIsLast
           /\ Sender!WithinBudget /\ Sender!HeldBriefly /\ Sender!StableIsPlain
    /\ part = "server_sender" => ServerSender!CountersFollowWire
    /\ part = "reader" => /\ Reader!DecodesWhatWasSent /\ Reader!NothingWithheld
                          /\ Reader!OnlyRefusableFails /\ Reader!BufferBounded
    /\ part = "capture" => Capture!CaptureIsTheRequest
    /\ part = "codec" => Reader!EncodedIsDecoded(Values, input) /\ Reader!AcceptedIsCanonical(input)
    /\ part \in {"handshake", "noise_frames"} =>
           Handshake!TransportsAgree /\ Handshake!MessageFits /\ Handshake!ReadInOrder

\* Both relays of an HTTP/2 flow return whatever their peers do; on a flow that is not
\* silent a half-close gets through past a stalled direction, and a clean close ends
\* without error and without a timer.
FlowsEnd ==
    []<>(CASE part = "relay" -> AllDone
           [] part = "quiet" -> Quiet!HalfCloseArrived /\ Quiet!CleanCloseWasGraceful
           [] OTHER -> TRUE)

\* Over QUIC the tail of a stream arrives although the other driver closes when it is
\* done, both drivers leave, and a cancelled download ends the server's relay; over
\* WebSocket the relays end unless both are caught in their sends; and a frame held
\* back by the batcher is flushed.
CarriersEnd ==
    []<>(CASE part = "quic_ends" -> QuicEnds!TailArrived /\ QuicEnds!DriversLeft
           [] part = "quic_cancel" -> QuicCancel!CancelReachedServer
           [] part = "ws" -> Ws!EndedOrBothBlocked
           [] part = "ws_room" -> WsRoom!RelayEnded
           [] part = "holding" -> Holding!NoneIsHeld
           [] OTHER -> TRUE)

\* A server relay that waits for target data notices the loss of the transport, also
\* while an upload is blocked on a write to the target, without any idle timer.
TransportLossIsSeen == part = "quic_loss" => QuicLoss!TransportLossIsSeen
=============================================================================
