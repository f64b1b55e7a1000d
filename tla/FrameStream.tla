---------------------------- MODULE FrameStream -----------------------------
(***************************************************************************)
(* The frame codec and the envelopes that carry frames as bytes: plain     *)
(* frames in WebSocket messages, one frame per gRPC message, one encrypted *)
(* frame per Noise message.  A byte is 0..255; multi-byte integers are     *)
(* big-endian and below 2^16 here.                                         *)
(***************************************************************************)
EXTENDS Integers, Sequences, SequencesExt

FRAME_HEADER_LEN == 14
GRPC_MESSAGE_HEADER_LEN == 5

BE2(n) == <<n \div 256, n % 256>>
BE4(n) == <<0, 0>> \o BE2(n)
BE8(n) == BE4(0) \o BE4(n)

\* get_u16, get_u32 and get_u64 of the bytes of s from position i.
Get2(s, i) == s[i] * 256 + s[i + 1]
Get4(s, i) == IF s[i] # 0 \/ s[i + 1] # 0 THEN 65536 ELSE Get2(s, i + 2)
Get8(s, i) == Get4(s, i + 4)

From(s, i) == SubSeq(s, i, Len(s))

\* FrameType::try_from knows 0x01..0x10.
FrameTypes == 1 .. 16
PaddingType == 16

\* Results: a frame with what is left of the buffer, nothing yet, or an error.
None       == [kind |-> "none"]
Failed(e)  == [kind |-> "error", error |-> e]
Got(f, r)  == [kind |-> "frame", frame |-> f, rest |-> r]

encode(f, max) ==
    IF Len(f.payload) > max THEN Failed("FrameTooLarge")
    ELSE Got(<<f.type, f.flags>> \o BE8(f.flow_id) \o BE4(Len(f.payload)) \o f.payload, << >>)

\* Mutant: a payload of exactly the limit is refused.
decode_from_Limit(buf, max) ==
    IF Len(buf) < FRAME_HEADER_LEN THEN None
    ELSE IF Get4(buf, 11) >= max THEN Failed("FrameTooLarge")
    ELSE IF Len(buf) < FRAME_HEADER_LEN + Get4(buf, 11) THEN None
    ELSE IF buf[1] \notin FrameTypes THEN Failed("UnknownFrameType")
    ELSE Got([type |-> buf[1], flags |-> buf[2], flow_id |-> Get8(buf, 3),
              payload |-> SubSeq(buf, 15, 14 + Get4(buf, 11))], From(buf, 15 + Get4(buf, 11)))

\* Mutant: the last byte of the payload is left in the buffer.
decode_from_Cut(buf, max) ==
    IF Len(buf) < FRAME_HEADER_LEN THEN None
    ELSE IF Get4(buf, 11) > max THEN Failed("FrameTooLarge")
    ELSE IF Len(buf) < FRAME_HEADER_LEN + Get4(buf, 11) THEN None
    ELSE IF buf[1] \notin FrameTypes THEN Failed("UnknownFrameType")
    ELSE Got([type |-> buf[1], flags |-> buf[2], flow_id |-> Get8(buf, 3),
              payload |-> SubSeq(buf, 15, 13 + Get4(buf, 11))], From(buf, 15 + Get4(buf, 11)))

\* Frame::decode_from: the limit is applied as soon as the header is there, the
\* type only once the frame is complete.
decode_from(buf, max) ==
    IF Len(buf) < FRAME_HEADER_LEN THEN None
    ELSE IF Get4(buf, 11) > max THEN Failed("FrameTooLarge")
    ELSE IF Len(buf) < FRAME_HEADER_LEN + Get4(buf, 11) THEN None
    ELSE IF buf[1] \notin FrameTypes THEN Failed("UnknownFrameType")
    ELSE Got([type |-> buf[1], flags |-> buf[2], flow_id |-> Get8(buf, 3),
              payload |-> SubSeq(buf, 15, 14 + Get4(buf, 11))], From(buf, 15 + Get4(buf, 11)))

encode_grpc_message(bytes) == <<0>> \o BE4(Len(bytes)) \o bytes

\* Mutant: the limit is applied once the message has been collected.
decode_grpc_frame_from_Late(buf, max) ==
    IF Len(buf) < GRPC_MESSAGE_HEADER_LEN THEN None
    ELSE IF buf[1] # 0 THEN Failed("compressed")
    ELSE LET length == Get4(buf, 2) IN
         IF Len(buf) < GRPC_MESSAGE_HEADER_LEN + length THEN None
         ELSE IF length > FRAME_HEADER_LEN + max THEN Failed("FrameTooLarge")
         ELSE
              LET inner == decode_from(SubSeq(buf, 6, 5 + length), max) IN
              CASE inner.kind = "error" -> inner
                [] inner.kind = "none"  -> Failed("incomplete")
                [] inner.kind = "frame" -> IF inner.rest # << >> THEN Failed("trailing")
                                           ELSE Got(inner.frame, From(buf, 6 + length))

\* decode_grpc_frame_from: exactly one frame fills an uncompressed message.
decode_grpc_frame_from(buf, max) ==
    IF Len(buf) < GRPC_MESSAGE_HEADER_LEN THEN None
    ELSE IF buf[1] # 0 THEN Failed("compressed")
    ELSE LET length == Get4(buf, 2) IN
         IF length > FRAME_HEADER_LEN + max THEN Failed("FrameTooLarge")
         ELSE IF Len(buf) < GRPC_MESSAGE_HEADER_LEN + length THEN None
         ELSE \* the message is taken off the buffer before it is looked into
              LET inner == decode_from(SubSeq(buf, 6, 5 + length), max) IN
              CASE inner.kind = "error" -> inner
                [] inner.kind = "none"  -> Failed("incomplete")
                [] inner.kind = "frame" -> IF inner.rest # << >> THEN Failed("trailing")
                                           ELSE Got(inner.frame, From(buf, 6 + length))

\* The Noise envelope: a two-byte length, the encrypted frame and its tag.  The tag
\* is sixteen bytes of no interest; encryption is the identity on the bytes here.
MAX_NOISE_MESSAGE_SIZE == 65535
NOISE_TRANSPORT_TAG_SIZE == 16

encode_noise_message(bytes) ==
    IF Len(bytes) > MAX_NOISE_MESSAGE_SIZE THEN Failed("FrameTooLarge")
    ELSE Got(BE2(Len(bytes)) \o bytes, << >>)

\* Mutant: a message that ends exactly at the end of the buffer is left there.
decode_noise_message_from_Exact(buf) ==
    IF Len(buf) < 2 \/ Len(buf) <= 2 + Get2(buf, 1) THEN None
    ELSE Got(SubSeq(buf, 3, 2 + Get2(buf, 1)), From(buf, 3 + Get2(buf, 1)))

decode_noise_message_from(buf) ==
    IF Len(buf) < 2 \/ Len(buf) < 2 + Get2(buf, 1) THEN None
    ELSE Got(SubSeq(buf, 3, 2 + Get2(buf, 1)), From(buf, 3 + Get2(buf, 1)))

encrypt_frame(f, max) ==
    LET plain == encode(f, max) IN
    IF plain.kind = "error" THEN plain
    ELSE encode_noise_message(plain.frame \o [i \in 1 .. NOISE_TRANSPORT_TAG_SIZE |-> 0])

decrypt_next_frame(buf, max) ==
    LET m == decode_noise_message_from(buf) IN
    IF m.kind = "none" THEN None
    ELSE LET inner == decode_from(SubSeq(m.frame, 1, Len(m.frame) - NOISE_TRANSPORT_TAG_SIZE), max) IN
         CASE inner.kind = "error" -> inner
           [] inner.kind = "none"  -> Failed("truncated")
           [] inner.kind = "frame" -> IF inner.rest # << >> THEN Failed("trailing")
                                      ELSE Got(inner.frame, m.rest)

-----------------------------------------------------------------------------
(* The payloads of the frames that open a flow, and of SOCKS UDP datagrams. *)

Ok(v)      == [kind |-> "ok", value |-> v]
Bad(why)   == [kind |-> "error", error |-> why]

\* OpenTcpPayload::encode.
OpenTcp_encode(v) ==
    (CASE v.target.type = "domain" -> <<3>> \o BE2(Len(v.target.host)) \o v.target.host
       [] v.target.type = "ipv4"   -> <<1>> \o v.target.octets
       [] v.target.type = "ipv6"   -> <<4>> \o v.target.octets)
    \o BE2(v.port) \o BE4(Len(v.data)) \o v.data

\* The address of OpenTcpPayload::decode: the target and the bytes after it.
decode_target(s) ==
    IF s = << >> THEN Bad("missing address type")
    ELSE CASE s[1] = 1 -> IF Len(s) < 5 THEN Bad("truncated ipv4 address")
                          ELSE Ok(<<[type |-> "ipv4", octets |-> SubSeq(s, 2, 5)], From(s, 6)>>)
           [] s[1] = 3 -> IF Len(s) < 3 THEN Bad("missing domain length")
                          ELSE IF Get2(s, 2) = 0 \/ Len(s) < 3 + Get2(s, 2) THEN Bad("truncated domain")
                          ELSE Ok(<<[type |-> "domain", host |-> SubSeq(s, 4, 3 + Get2(s, 2))],
                                    From(s, 4 + Get2(s, 2))>>)
           [] s[1] = 4 -> IF Len(s) < 17 THEN Bad("truncated ipv6 address")
                          ELSE Ok(<<[type |-> "ipv6", octets |-> SubSeq(s, 2, 17)], From(s, 18)>>)
           [] OTHER    -> Bad("unknown address type")

\* Mutant: bytes after the initial data are ignored.
OpenTcp_decode_Trailing(s) ==
    LET t == decode_target(s) IN
    IF t.kind = "error" THEN t
    ELSE LET tail == t.value[2] IN
         IF Len(tail) < 6 \/ Len(tail) - 6 < Get4(tail, 3) THEN Bad("truncated initial data")
         ELSE Ok([target |-> t.value[1], port |-> Get2(tail, 1), data |-> SubSeq(tail, 7, 6 + Get4(tail, 3))])

\* Mutant: a request without initial data counts as truncated.
OpenTcp_decode_NoData(s) ==
    LET t == decode_target(s) IN
    IF t.kind = "error" THEN t
    ELSE LET tail == t.value[2] IN
         IF Len(tail) < 7 \/ Len(tail) - 6 # Get4(tail, 3) THEN Bad("truncated initial data")
         ELSE Ok([target |-> t.value[1], port |-> Get2(tail, 1), data |-> From(tail, 7)])

\* OpenTcpPayload::decode.
OpenTcp_decode(s) ==
    LET t == decode_target(s) IN
    IF t.kind = "error" THEN t
    ELSE LET tail == t.value[2] IN
         IF Len(tail) < 6 THEN Bad("truncated open tcp payload")
         ELSE IF Len(tail) - 6 < Get4(tail, 3) THEN Bad("truncated initial data")
         ELSE IF Len(tail) - 6 > Get4(tail, 3) THEN Bad("open tcp trailing bytes")
         ELSE Ok([target |-> t.value[1], port |-> Get2(tail, 1), data |-> From(tail, 7)])

\* OpenUdpPayload: exactly eight bytes.
OpenUdp_encode(ms) == BE8(ms)
OpenUdp_decode(s) == IF Len(s) # 8 THEN Bad("invalid open udp payload") ELSE Ok(Get8(s, 1))

\* ErrorCode: exactly two bytes, 1..5.
ErrorCode_encode(code) == BE2(code)
ErrorCode_decode(s) ==
    IF Len(s) # 2 THEN Bad("invalid error code payload")
    ELSE IF Get2(s, 1) \in 1 .. 5 THEN Ok(Get2(s, 1)) ELSE Bad("unknown error code")

\* SOCKS UDP datagrams: two reserved bytes, no fragments, a domain with a one-byte length.
encode_udp_response(v) ==
    <<0, 0, 0>>
    \o (CASE v.target.type = "domain" -> <<3, Len(v.target.host)>> \o v.target.host
         [] v.target.type = "ipv4"   -> <<1>> \o v.target.octets
         [] v.target.type = "ipv6"   -> <<4>> \o v.target.octets)
    \o BE2(v.port) \o v.data

decode_udp_request(s) ==
    LET After(target, n) ==
            IF Len(s) < n + 1 THEN Bad("missing UDP port")
            ELSE Ok([target |-> target, port |-> Get2(s, n), data |-> From(s, n + 2)])
    IN IF Len(s) < 4 THEN Bad("SOCKS UDP packet too short")
       ELSE IF Get2(s, 1) # 0 \/ s[3] # 0 THEN Bad("fragmented SOCKS UDP packets are not supported")
       ELSE CASE s[4] = 1 -> IF Len(s) < 8 THEN Bad("truncated UDP IPv4 address")
                             ELSE After([type |-> "ipv4", octets |-> SubSeq(s, 5, 8)], 9)
              [] s[4] = 3 -> IF Len(s) < 5 THEN Bad("missing UDP domain length")
                             ELSE IF s[5] = 0 \/ Len(s) < 5 + s[5] THEN Bad("truncated UDP domain")
                             ELSE After([type |-> "domain", host |-> SubSeq(s, 6, 5 + s[5])], 6 + s[5])
              [] s[4] = 4 -> IF Len(s) < 20 THEN Bad("truncated UDP IPv6 address")
                             ELSE After([type |-> "ipv6", octets |-> SubSeq(s, 5, 20)], 21)
              [] OTHER    -> Bad("unsupported UDP address type")

encoded(v) ==
    CASE v.as = "OpenTcp"   -> OpenTcp_encode(v.value)
      [] v.as = "OpenUdp"   -> OpenUdp_encode(v.value)
      [] v.as = "ErrorCode" -> ErrorCode_encode(v.value)
      [] v.as = "SocksUdp"  -> encode_udp_response(v.value)

decoded(as, s) ==
    CASE as = "OpenTcp"   -> OpenTcp_decode(s)
      [] as = "OpenUdp"   -> OpenUdp_decode(s)
      [] as = "ErrorCode" -> ErrorCode_decode(s)
      [] as = "SocksUdp"  -> decode_udp_request(s)

\* What reaches a decoder: an encoding, one cut short, one with a byte too many, or
\* bytes of another origin.
DecoderInputs(values, foreign) ==
    UNION {{[as |-> v.as, bytes |-> SubSeq(encoded(v), 1, n)] : n \in 0 .. Len(encoded(v))} : v \in values}
    \cup {[as |-> v.as, bytes |-> Append(encoded(v), b)] : v \in values, b \in {0, 1}}
    \cup {[as |-> a, bytes |-> s] : a \in {"OpenTcp", "OpenUdp", "ErrorCode", "SocksUdp"}, s \in foreign}

\* What one end encodes the other decodes to the same value.
EncodedIsDecoded(values, input) ==
    \A v \in values :
        input = [as |-> v.as, bytes |-> encoded(v)] => decoded(v.as, input.bytes) = Ok(v.value)

\* Only canonical bytes are accepted: an accepted value encodes back to the very
\* bytes it came from, so two ends never read one request differently.
AcceptedIsCanonical(input) ==
    LET result == decoded(input.as, input.bytes) IN
    result.kind = "ok" => encoded([as |-> input.as, value |-> result.value]) = input.bytes

-----------------------------------------------------------------------------
(***************************************************************************)
(* The read loops that turn what a carrier delivers back into frames:      *)
(* gRPC DATA on HTTP/2 and Noise messages, cut anywhere; binary WebSocket  *)
(* messages, with pings and a close, through a buffer in the handshake;    *)
(* and the server's WebSocket relay, which decodes message by message.     *)
(* The server's first read also keeps the raw bytes for the fallback.      *)
(***************************************************************************)

CONSTANTS Frames,       \* frames the peer may send
          MaxSent,      \* how many it sends
          SenderMax,    \* the frame size the sender goes by
          ReceiverMax,  \* the frame size the receiver goes by
          CaptureMax,   \* max_capture_size of the first read
          Carriers      \* subset of {"h2", "h2_capture", "noise", "ws", "ws_relay"}

VARIABLES carrier, sent,
          transit,  \* what the carrier has not delivered: bytes, or messages
          buf, got,
          capture,  \* the raw request body kept for the fallback
          pongs,    \* pings answered
          lost,     \* the peer went away with bytes in transit
          status    \* "reading", "ended" (Ok(None)) or the error

vars == <<carrier, sent, transit, buf, got, capture, pongs, lost, status>>

IsBytes(c) == c \in {"h2", "h2_capture", "noise"}

Encoded(f) == encode(f, SenderMax).frame

Binary(f) == [kind |-> "binary", bytes |-> Encoded(f)]
Ping      == [kind |-> "ping", bytes |-> << >>]
Close     == [kind |-> "close", bytes |-> << >>]

StreamOf(c, frames) ==
    IF c = "noise"
    THEN FoldLeft(LAMBDA out, f : out \o encrypt_frame(f, SenderMax).frame, << >>, frames)
    ELSE IF IsBytes(c)
    THEN FoldLeft(LAMBDA out, f : out \o encode_grpc_message(Encoded(f)), << >>, frames)
    ELSE FoldLeft(LAMBDA out, f : out \o <<Ping, Binary(f)>>, << >>, frames) \o <<Close>>

Init ==
    /\ carrier \in Carriers
    /\ sent \in UNION {[1 .. n -> Frames] : n \in 0 .. MaxSent}
    /\ transit = StreamOf(carrier, sent)
    /\ buf = << >> /\ got = << >> /\ capture = << >> /\ pongs = 0 /\ lost = FALSE /\ status = "reading"

Decoded ==
    CASE carrier = "noise"                -> decrypt_next_frame(buf, ReceiverMax)
      [] carrier \in {"h2", "h2_capture"} -> decode_grpc_frame_from(buf, ReceiverMax)
      [] carrier \in {"ws", "ws_relay"}   -> decode_from(buf, ReceiverMax)

Skipping(f) == IF f.type = PaddingType THEN got ELSE Append(got, f)

\* A complete frame is in the buffer; padding is passed over.
Deliver ==
    /\ status = "reading" /\ Decoded.kind = "frame"
    /\ got' = Skipping(Decoded.frame)
    /\ buf' = Decoded.rest
    /\ UNCHANGED <<carrier, sent, transit, capture, pongs, lost, status>>

Refuse ==
    /\ status = "reading" /\ Decoded.kind = "error"
    /\ status' = Decoded.error
    /\ UNCHANGED <<carrier, sent, transit, buf, got, capture, pongs, lost>>

Waiting == status = "reading" /\ Decoded.kind = "none"

\* Mutant: the capture keeps only what the decoder was still missing.
ReceiveData_Partial(n) ==
    /\ IsBytes(carrier) /\ Waiting /\ n <= Len(transit)
    /\ buf' = buf \o SubSeq(transit, 1, n)
    /\ capture' = IF carrier = "h2_capture" THEN buf' ELSE << >>
    /\ transit' = From(transit, n + 1)
    /\ UNCHANGED <<carrier, sent, got, pongs, lost, status>>

\* read_next_frame_impl: the next DATA chunk, any cut of the stream.
ReceiveData(n) ==
    /\ IsBytes(carrier) /\ Waiting /\ n <= Len(transit)
    /\ IF carrier = "h2_capture" /\ n > CaptureMax - Len(capture)
       THEN /\ status' = "captured tunnel request body exceeded size limit"
            /\ UNCHANGED <<buf, capture>>
       ELSE /\ buf' = buf \o SubSeq(transit, 1, n)
            /\ capture' = IF carrier = "h2_capture" THEN capture \o SubSeq(transit, 1, n) ELSE << >>
            /\ UNCHANGED status
    /\ transit' = From(transit, n + 1)
    /\ UNCHANGED <<carrier, sent, got, pongs, lost>>

\* ws_read_next_frame and read_next_ws_frame: the next message.
ReceiveMessage ==
    /\ carrier = "ws" /\ Waiting /\ transit # << >>
    /\ LET m == Head(transit) IN
         /\ buf' = IF m.kind = "binary" THEN buf \o m.bytes ELSE buf
         /\ pongs' = IF m.kind = "ping" THEN pongs + 1 ELSE pongs
         /\ status' = IF m.kind = "close" THEN "ended" ELSE status
    /\ transit' = Tail(transit)
    /\ UNCHANGED <<carrier, sent, got, capture, lost>>

\* frame_from_ws_message, in the relay loop: one frame a message, no buffer; a
\* message that is not binary, or a frame that is not complete, gives nothing.
RelayMessage ==
    /\ carrier = "ws_relay" /\ status = "reading" /\ transit # << >>
    /\ LET m == Head(transit)
           d == IF m.kind = "binary" THEN decode_from(m.bytes, ReceiverMax) ELSE None
       IN /\ got' = IF d.kind = "frame" THEN Skipping(d.frame) ELSE got
          /\ pongs' = IF m.kind = "ping" THEN pongs + 1 ELSE pongs
          /\ status' = IF d.kind = "error" THEN d.error ELSE status
    /\ transit' = Tail(transit)
    /\ UNCHANGED <<carrier, sent, buf, capture, lost>>

\* data() or next() yields None.
End ==
    /\ Waiting /\ transit = << >>
    /\ status' = "ended"
    /\ UNCHANGED <<carrier, sent, transit, buf, got, capture, pongs, lost>>

\* The peer goes away: what it sent and is still in transit is lost.
PeerCloses ==
    /\ status = "reading" /\ transit # << >>
    /\ transit' = << >>
    /\ lost' = TRUE
    /\ UNCHANGED <<carrier, sent, buf, got, capture, pongs, status>>

Next == Deliver \/ Refuse \/ (\E n \in 1 .. Len(transit) : ReceiveData(n)) \/ ReceiveMessage
        \/ RelayMessage \/ End \/ PeerCloses

Spec == Init /\ [][Next]_vars

-----------------------------------------------------------------------------
VisibleIn(frames) == SelectSeq(frames, LAMBDA f : f.type # PaddingType)
Visible == VisibleIn(sent)

Refusable(f) == Len(f.payload) > ReceiverMax \/ f.type \notin FrameTypes

\* However the carrier cuts the bytes and wherever the peer goes away, the frames
\* handed to the relay are the first ones the peer sent, in order and unchanged.
DecodesWhatWasSent == IsPrefix(got, Visible)

\* The reader asks the carrier for more only when it has to: with nothing in
\* transit and nothing lost, every frame has been handed over and no byte is left.
NothingWithheld ==
    (status = "ended" /\ ~lost) => got = Visible /\ buf = << >>

\* A read fails only on a frame that the receiver cannot take, never because of how
\* its bytes arrived.
OnlyRefusableFails ==
    status \notin {"reading", "ended", "captured tunnel request body exceeded size limit"} =>
        \E i \in DOMAIN sent : Refusable(sent[i]) /\ got = VisibleIn(SubSeq(sent, 1, i - 1))

\* The buffer never holds more than one frame of the receiver's size while it waits
\* for more: a length beyond the limit is refused from the header alone.  (A Noise
\* message is collected up to its 16-bit length before it is decrypted.)
BufferBounded ==
    (Waiting /\ carrier # "noise") => Len(buf) < GRPC_MESSAGE_HEADER_LEN + FRAME_HEADER_LEN + ReceiverMax

\* The body kept for the fallback is the request from its first byte, whatever the
\* decoder has already consumed, and stays within its limit.
CaptureIsTheRequest ==
    carrier = "h2_capture" =>
        /\ IsPrefix(capture, StreamOf(carrier, sent))
        /\ Len(capture) <= CaptureMax
        /\ (transit # << >> /\ status = "reading") => capture \o transit = StreamOf(carrier, sent)
=============================================================================
