------------------------------- MODULE Shaping -------------------------------
(***************************************************************************)
(* Traffic shaping on the sending side of a tunnel: padding, cover frames, *)
(* the client's batcher and its timed flush, the order in which frames     *)
(* reach the carrier, and the server's padding counters with the operator  *)
(* who reads them over the metrics listener.                               *)
(*                                                                         *)
(* One sender, client or server, on one carrier.  A frame is its type and  *)
(* its payload length; the overhead ratio is in percent.  The sender is    *)
(* exclusive (&mut self), so a send runs from push to the last write       *)
(* before the next one starts, unless it fails or its future is dropped.   *)
(***************************************************************************)
EXTENDS Integers, Sequences, SequencesExt, FiniteSets

CONSTANTS Setups,        \* [role, carrier, mode, shaping] the sender may be built with
          Lengths,       \* payload lengths of the frames offered
          Types,         \* the frame types offered
          MaxFrameSize,  \* negotiated frame size
          MaxFrames      \* bound on the number of frames offered

VARIABLES setup,    \* the configuration in force
          batcher,  \* RuntimeBatcher: [pending, pending_bytes]
          tx,       \* the send in progress: [pc, ready, end, out, wait]
          offered,  \* history: frames given to send_frame
          wire,     \* history: what the carrier accepted
          waits,    \* history: how long each payload frame was held back
          metrics,  \* the four counters
          scrape    \* json_snapshot in progress: the counters loaded so far

vars == <<setup, batcher, tx, offered, wire, waits, metrics, scrape>>

FRAME_HEADER_LEN == 14

Least(a, b) == IF a < b THEN a ELSE b

ShapingBounds(c) ==
    [max_padding |-> c.max_padding, ratio |-> c.ratio, max_delay_ms |-> c.max_delay_ms,
     max_batch |-> c.max_batch]

-----------------------------------------------------------------------------
\* Padding.

overhead_cap(b, len) == IF b.ratio <= 0 THEN 0 ELSE (len * b.ratio) \div 100

\* Mutant: stable mode is padded as auto is.
RuntimePadding_Stable(mode, c) ==
    [enabled |-> c.enabled, kind |-> IF mode = "stable" THEN "auto" ELSE mode,
     bounds |-> ShapingBounds(c)]

\* RuntimePadding::from_config: off when shaping is off and in stable mode.
RuntimePadding(mode, c) ==
    IF ~c.enabled \/ mode = "stable"
    THEN [enabled |-> FALSE, kind |-> "none", bounds |-> ShapingBounds(c)]
    ELSE [enabled |-> TRUE, kind |-> mode, bounds |-> ShapingBounds(c)]

\* BudgetedPaddingPolicy::pad_outgoing_frame.
pad_outgoing_frame(p, f) ==
    LET cap == Least(p.bounds.max_padding, overhead_cap(p.bounds, f.len)) IN
    IF f.type \in {"ClientHello", "ServerHello", "Error", "Padding"} THEN 0
    ELSE CASE p.kind = "none" -> 0
           [] p.kind = "auto" -> Least(cap, 64)
           [] p.kind = "private" -> cap

\* RuntimePadding::padding_frame, none or one frame.
padding_frame(p, f) ==
    LET len == Least(pad_outgoing_frame(p, f), MaxFrameSize) IN
    IF ~p.enabled \/ len = 0 THEN << >>
    ELSE <<[type |-> "Padding", len |-> len, class |-> "padding"]>>

\* Mutant: a TcpFin may be held back like data.
is_delay_eligible_Fin(type) == type \notin {"ClientHello", "ServerHello", "TcpReset", "CloseFlow", "Error", "Padding"}

\* Frames that open or end something are neither delayed nor batched.
is_delay_eligible(type) ==
    type \notin {"ClientHello", "ServerHello", "TcpFin", "TcpReset", "CloseFlow", "Error",
                 "Padding"}

\* RuntimePadding::pacing_delay, in milliseconds; 0 for none.
pacing_delay(p, f) ==
    IF ~p.enabled \/ ~is_delay_eligible(f.type) \/ f.len >= p.bounds.max_batch THEN 0
    ELSE CASE p.kind = "auto" -> Least(p.bounds.max_delay_ms, 5)
           [] p.kind = "private" -> p.bounds.max_delay_ms

-----------------------------------------------------------------------------
\* Cover traffic.

\* cover_traffic_plan: the bytes and the frame length one observed payload pays
\* for; << >> when there is no budget.
cover_traffic_plan(mode, c, observed) ==
    LET max_bytes == Least((observed * c.ratio) \div 100, c.max_batch)
        frame_payload == Least(c.max_padding, max_bytes)
    IN IF \/ mode = "stable" \/ ~c.enabled \/ ~c.cover_traffic \/ observed = 0
          \/ c.window_ms = 0 \/ c.ratio <= 0 \/ max_bytes = 0 \/ frame_payload = 0
       THEN << >>
       ELSE <<[max_bytes |-> max_bytes, frame_payload |-> frame_payload,
               max_frames |-> (max_bytes + frame_payload - 1) \div frame_payload]>>

\* cover_traffic_decision: the reason first, a plan only when Ready.
cover_traffic_decision(mode, c, observed, approved) ==
    LET plan == cover_traffic_plan(mode, c, observed)
        rejected(r) == [reason |-> r, plan |-> << >>]
    IN IF ~c.enabled \/ ~c.cover_traffic THEN rejected("Disabled")
       ELSE IF mode = "stable" THEN rejected("StableMode")
       ELSE IF ~approved THEN rejected("MissingOperatorApproval")
       ELSE IF c.window_ms = 0 THEN rejected("InvalidWindow")
       ELSE IF observed = 0 THEN rejected("MissingObservedPayloadBudget")
       ELSE IF plan = << >> THEN rejected("BudgetUnavailable")
       ELSE [reason |-> "Ready", plan |-> plan]

\* RuntimeCoverTraffic::from_config followed by padding_frames: at most one frame
\* a payload frame, cut to the negotiated size (CoverTrafficEmitter's first frame).
RuntimeCoverTraffic(mode, c) ==
    IF ~c.enabled \/ ~c.cover_traffic \/ mode = "stable"
    THEN [mode |-> "stable", config |-> [c EXCEPT !.enabled = FALSE], approved |-> FALSE]
    ELSE [mode |-> mode, config |-> c, approved |-> c.approved]

\* Mutant: the whole padding allowance is sent, whatever was observed.
next_padding_frame_Whole(plan) ==
    <<[type |-> "Padding", len |-> setup.shaping.max_padding, class |-> "cover"]>>
\* CoverTrafficEmitter::next_padding_frame on a fresh emitter.
next_padding_frame(plan) ==
    LET len == Least(plan.frame_payload, plan.max_bytes) IN
    IF plan.max_frames = 0 \/ plan.max_bytes = 0 \/ len = 0 THEN << >>
    ELSE <<[type |-> "Padding", len |-> len, class |-> "cover"]>>


padding_frames(ct, f) ==
    LET plan == cover_traffic_decision(ct.mode, ct.config, f.len, ct.approved).plan IN
    IF ~is_delay_eligible(f.type) \/ f.len = 0 \/ plan = << >> THEN << >>
    ELSE next_padding_frame([max_bytes     |-> Least(plan[1].max_bytes, MaxFrameSize),
                             frame_payload |-> Least(plan[1].frame_payload, MaxFrameSize),
                             max_frames    |-> Least(plan[1].max_frames, 1)])

-----------------------------------------------------------------------------
\* The client's batcher.

\* RuntimeBatcher::from_config.
batcher_enabled ==
    /\ setup.role = "client" /\ setup.shaping.enabled
    /\ setup.mode # "stable" /\ setup.shaping.max_delay_ms # 0

batch_cost(f) == FRAME_HEADER_LEN + f.len

is_batch_eligible(f) == is_delay_eligible(f.type) /\ batch_cost(f) < setup.shaping.max_batch

\* Mutant: the pending frames are copied out, not taken.
flush_Copy(b) == [ready |-> b.pending, batcher |-> b]

flush(b) == [ready |-> b.pending, batcher |-> [pending |-> << >>, pending_bytes |-> 0]]

\* RuntimeBatcher::push: a frame that may not wait takes what is pending with it.
push(b, f) ==
    LET held == [pending |-> Append(b.pending, f), pending_bytes |-> b.pending_bytes + batch_cost(f)]
        out  == flush(b)
    IN IF ~is_batch_eligible(f) THEN [out EXCEPT !.ready = Append(@, f)]
       ELSE IF held.pending_bytes >= setup.shaping.max_batch THEN flush(held)
       ELSE [ready |-> << >>, batcher |-> held]

\* Mutant: the flush wants more than the delay that was slept.
flush_due_Late(b, elapsed) ==
    IF b.pending # << >> /\ elapsed > setup.shaping.max_delay_ms THEN flush(b)
    ELSE [ready |-> << >>, batcher |-> b]

flush_due(b, elapsed) ==
    IF b.pending # << >> /\ elapsed >= setup.shaping.max_delay_ms THEN flush(b)
    ELSE [ready |-> << >>, batcher |-> b]

flush_delay(b) == IF b.pending # << >> THEN setup.shaping.max_delay_ms ELSE 0

-----------------------------------------------------------------------------
\* From ready frames to writes.  A write is a frame and whether the carrier's
\* end-of-request marker goes with it.

Padding == RuntimePadding(setup.mode, setup.shaping)
Cover   == RuntimeCoverTraffic(setup.mode, setup.shaping)

Payload(f) == [type |-> f.type, len |-> f.len, class |-> "payload"]

Marked(frames, end) == [i \in DOMAIN frames |-> [frame |-> frames[i], end |-> end /\ i = Len(frames)]]

\* prepare_frame_with_padding: padding, then cover, then the frame.
prepare_frame_with_padding(f) == padding_frame(Padding, f) \o padding_frames(Cover, f) \o <<Payload(f)>>

AllWrites(ready) == FoldLeft(LAMBDA out, f : out \o prepare_frame_with_padding(f), << >>, ready)

\* Mutant: the marker is put on the first write.
H3Sender_writes_First(ready, end) ==
    LET all == AllWrites(ready) IN
    [i \in DOMAIN all |-> [frame |-> all[i], end |-> end /\ i = 1]]
\* H3Sender::send_frame, and H2Sender::send_frame alike: the end marker is on the
\* last frame made ready.
H3Sender_writes(ready, end) ==
    Marked(AllWrites(ready), end)


\* ClientTunnel::send_frame on a WebSocket has no end marker: the FIN frame is it.
CloudflareWs_writes(ready) ==
    Marked(AllWrites(ready), FALSE)

\* The server: one frame at a time; gRPC trailers, an H3 FIN, or nothing at all
\* follow the last byte.
ws_send_server_frame(f) == Marked(prepare_frame_with_padding(f), FALSE)

send_frame_with_padding(f, end) == Marked(prepare_frame_with_padding(f), end)

Writes(ready, end) ==
    CASE setup.role = "client" /\ setup.carrier = "ws" -> CloudflareWs_writes(ready)
      [] setup.role = "client" /\ setup.carrier # "ws" -> H3Sender_writes(ready, end)
      [] setup.role = "server" /\ setup.carrier = "ws" -> ws_send_server_frame(ready[1])
      [] setup.role = "server" /\ setup.carrier # "ws" -> send_frame_with_padding(ready[1], end)

-----------------------------------------------------------------------------
Counters == {"padding_frames", "padding_bytes", "cover_frames", "cover_bytes"}

\* The order json_snapshot loads the counters in.
LoadOrder == <<"padding_frames", "padding_bytes", "cover_frames", "cover_bytes">>

Idle == [pc |-> "idle", ready |-> << >>, end |-> FALSE, out |-> << >>, wait |-> 0]

Init ==
    /\ setup \in Setups
    /\ batcher = [pending |-> << >>, pending_bytes |-> 0]
    /\ tx = Idle
    /\ offered = << >> /\ wire = << >> /\ waits = << >>
    /\ metrics = [c \in Counters |-> 0]
    /\ scrape = << >>

Ended == offered # << >> /\ Last(offered).end

\* Once the frames of a send are ready, its writes are known and its wait is over.
Ready(ready, end, wait) ==
    /\ tx' = [pc |-> "writing", ready |-> ready, end |-> end, out |-> Writes(ready, end), wait |-> wait]
    /\ waits' = waits \o [i \in DOMAIN ready |-> wait]

\* prepare_outgoing_frames up to its sleep: a batching client holds the frame, the
\* others pace it; what needs no wait is written at once.
Send(f) ==
    /\ tx.pc = "idle" /\ ~Ended /\ Len(offered) < MaxFrames
    /\ offered' = Append(offered, f)
    /\ \E p \in {IF batcher_enabled THEN push(batcher, f)
                 ELSE [ready |-> <<f>>, batcher |-> batcher]} :
         LET delay == IF batcher_enabled THEN flush_delay(p.batcher)
                      ELSE IF setup.role = "client" THEN pacing_delay(Padding, f) ELSE 0
             holds == IF batcher_enabled THEN p.ready = << >> ELSE delay > 0
         IN /\ batcher' = p.batcher
            /\ IF holds
               THEN /\ tx' = [Idle EXCEPT !.pc = "sleeping", !.ready = p.ready, !.end = f.end, !.wait = delay]
                    /\ UNCHANGED waits
               ELSE Ready(p.ready, f.end, 0)
    /\ UNCHANGED <<setup, wire, metrics, scrape>>

\* Mutant: the flush is taken up only past the delay that was slept.
Wake_Strict ==
    /\ tx.pc = "sleeping" /\ tx.wait > setup.shaping.max_delay_ms
    /\ \E p \in {flush_due(batcher, tx.wait)} : batcher' = p.batcher /\ Ready(p.ready, tx.end, tx.wait)
    /\ UNCHANGED <<setup, offered, wire, metrics, scrape>>

\* The sleep is over.
Wake ==
    /\ tx.pc = "sleeping"
    /\ \E p \in {IF batcher_enabled THEN flush_due(batcher, tx.wait)
                 ELSE [ready |-> tx.ready, batcher |-> batcher]} :
         /\ batcher' = p.batcher
         /\ Ready(p.ready, tx.end, tx.wait)
    /\ UNCHANGED <<setup, offered, wire, metrics, scrape>>

Emitted(class) == SelectSeq(Writes(tx.ready, tx.end), LAMBDA w : w.frame.class = class)
Bytes(writes) == FoldLeft(LAMBDA n, w : n + w.frame.len, 0, writes)

\* The carrier accepts the next write.
Write ==
    /\ tx.pc = "writing" /\ tx.out # << >>
    /\ wire' = Append(wire, Head(tx.out))
    /\ tx' = [tx EXCEPT !.out = Tail(@)]
    /\ UNCHANGED <<setup, batcher, offered, waits, metrics, scrape>>

\* Every write went out: a client send returns, a server send goes on to its counters.
Written ==
    /\ tx.pc = "writing" /\ tx.out = << >>
    /\ tx' = IF setup.role = "client" THEN Idle ELSE [tx EXCEPT !.pc = "padding_frames"]
    /\ UNCHANGED <<setup, batcher, offered, wire, waits, metrics, scrape>>

\* Mutant: the totals leave cover traffic out.
Emission_NoCover(counter) ==
    CASE counter = "padding_frames" -> Len(Emitted("padding"))
      [] counter = "padding_bytes"  -> Bytes(Emitted("padding"))
      [] counter = "cover_frames"   -> Len(Emitted("cover"))
      [] counter = "cover_bytes"    -> Bytes(Emitted("cover"))
\* record_padding: four separate fetch_adds, the totals first.
Emission(counter) ==
    LET padding == Emitted("padding")
        cover   == Emitted("cover")
    IN CASE counter = "padding_frames" -> Len(padding) + Len(cover)
         [] counter = "padding_bytes"  -> Bytes(padding) + Bytes(cover)
         [] counter = "cover_frames"   -> Len(cover)
         [] counter = "cover_bytes"    -> Bytes(cover)


record_padding ==
    /\ tx.pc \in Counters
    /\ metrics' = [metrics EXCEPT ![tx.pc] = @ + Emission(tx.pc)]
    /\ tx' = IF tx.pc = "cover_bytes" THEN Idle
             ELSE [tx EXCEPT !.pc = LoadOrder[(CHOOSE i \in 1..4 : LoadOrder[i] = tx.pc) + 1]]
    /\ UNCHANGED <<setup, batcher, offered, wire, waits, scrape>>

\* A write fails, or the future that sends is dropped at one of its awaits; the
\* tunnel goes with it and nothing is recorded.
Abandon ==
    /\ tx.pc \in {"sleeping", "writing"}
    /\ tx' = [tx EXCEPT !.pc = "gone", !.out = << >>]
    /\ UNCHANGED <<setup, batcher, offered, wire, waits, metrics, scrape>>

\* json_snapshot loads one counter after the other.
Load ==
    /\ setup.role = "server" /\ Len(scrape) < Len(LoadOrder)
    /\ scrape' = Append(scrape, metrics[LoadOrder[Len(scrape) + 1]])
    /\ UNCHANGED <<setup, batcher, tx, offered, wire, waits, metrics>>

Frames == [type : Types, len : Lengths, end : BOOLEAN]

\* What callers offer: a frame that ends the request is a FIN, or a one-shot query.
Offerable(f) ==
    /\ f.type = "TcpFin" => f.end /\ f.len = 0
    /\ f.type = "Error" => f.end
    /\ f.type = "TcpData" => ~f.end

Next == (\E f \in Frames : Offerable(f) /\ Send(f)) \/ Wake \/ Write \/ Written \/ record_padding
        \/ Abandon \/ Load

Spec == Init /\ [][Next]_vars

-----------------------------------------------------------------------------
PayloadOnWire == SelectSeq(wire, LAMBDA w : w.frame.class = "payload")
Plain(frames) == [i \in DOMAIN frames |-> Payload(frames[i])]
Sent == [i \in DOMAIN PayloadOnWire |-> PayloadOnWire[i].frame]

\* Batching, padding and cover frames never reorder, drop or repeat payload: what
\* is on the wire is a prefix of what send_frame was given.
PayloadInOrder == IsPrefix(Sent, Plain(offered))

\* A send that returned has written its frame: nothing stays behind in the batcher
\* for a later send to carry (the relay may have no later send).
ReturnedIsWritten ==
    tx.pc = "idle" => Sent = Plain(offered)

\* The end marker follows the last payload byte and padding never trails it; it is
\* there exactly when the send that ends the request returned and the carrier has one.
EndMarkIsLast ==
    /\ \A i \in DOMAIN wire : wire[i].end => i = Len(wire) /\ wire[i].frame.class = "payload"
    /\ (tx.pc = "idle" /\ Ended /\ setup.carrier # "ws") => Last(wire).end

\* Each kind of padding stays within the configured share of the payload sent, no
\* frame is larger than the padding cap, and padding only ever travels with payload.
WithinBudget ==
    LET of(class) == SelectSeq(wire, LAMBDA w : w.frame.class = class)
        due == SubSeq(offered, 1, Least(Len(offered), Len(Sent) + 1))
        observed == FoldLeft(LAMBDA n, f : n + f.len, 0, due)
    IN /\ \A class \in {"padding", "cover"} : 100 * Bytes(of(class)) <= setup.shaping.ratio * observed
       /\ \A i \in DOMAIN wire :
            wire[i].frame.class # "payload" =>
                wire[i].frame.len \in 1..Least(setup.shaping.max_padding, MaxFrameSize)

\* A frame is held back for at most max_delay_ms, and a frame that opens, ends or
\* refuses something not at all; the server never holds one back.
HeldBriefly ==
    \A i \in DOMAIN waits :
        /\ waits[i] <= setup.shaping.max_delay_ms
        /\ waits[i] > 0 => /\ offered[i].type \notin {"TcpFin", "TcpReset", "CloseFlow", "Error"}
                           /\ setup.role = "client"

\* Stable mode, or shaping switched off, sends the frames and nothing else.
StableIsPlain ==
    (setup.mode = "stable" \/ ~setup.shaping.enabled) =>
        Len(wire) = Len(Sent) /\ \A i \in DOMAIN waits : waits[i] = 0

\* The server's counters never run ahead of the wire, and agree with it whenever no
\* send is under way; cover traffic is part of the totals.
CountersFollowWire ==
    LET padding == SelectSeq(wire, LAMBDA w : w.frame.class = "padding")
        cover   == SelectSeq(wire, LAMBDA w : w.frame.class = "cover")
    IN /\ metrics["padding_frames"] <= Len(padding) + Len(cover)
       /\ metrics["cover_frames"] <= metrics["padding_frames"]
       /\ (tx.pc = "idle" /\ setup.role = "server") =>
            /\ metrics["padding_frames"] = Len(padding) + Len(cover)
            /\ metrics["padding_bytes"] = Bytes(padding) + Bytes(cover)
            /\ metrics["cover_bytes"] = Bytes(cover)

\* A frame the batcher holds leaves: the sleep in prepare_outgoing_frames always
\* ends, and its flush, unless the send is abandoned.
NoneIsHeld == tx.pc \notin {"sleeping", "writing"}

=============================================================================
