------------------------------ MODULE H3Relay ------------------------------
(***************************************************************************)
(* One TCP flow over the explicit HTTP/3 carrier: the relays of            *)
(* crates/maverick-client/src/h3.rs and crates/maverick-server/src/h3.rs,  *)
(* each on top of a Driver of crates/maverick-quiche/src/lib.rs, joined by *)
(* the one request stream of a QUIC connection (quiche, external).         *)
(*                                                                         *)
(* A side is the client, whose endpoint is the local application, or the   *)
(* server, whose endpoint is the target.  Each endpoint sends chunks and   *)
(* an end of stream.  A relay and its driver share two channels of one     *)
(* frame.  The stream is reliable and ordered: wire holds what is on its   *)
(* way, rbuf what quiche has received and the driver has not read; what    *)
(* both hold is limited by flow control.  A close may overtake what is on  *)
(* its way.                                                                *)
(***************************************************************************)
EXTENDS Integers, Sequences, FiniteSets

CONSTANTS
    N,          \* chunks the endpoint of each side sends before its end of stream
    Window,     \* stream credit, in frames
    Faults      \* subset of {"lost", "idle", "stop", "reject"}

VARIABLES
    sent,       \* chunks read from each endpoint, one more after its end of stream
    got,        \* chunks written to each endpoint, "fin" last after its shutdown
    relay,      \* of each side: the directions, and how it ended
    out, inb,   \* the channels from and to each relay
    drv,        \* the driver of each side
    wire, rbuf, unacked,        \* the stream, by sender, by receiver, by sender
    conn        \* of each side: open, closed (by it), draining (by the other or lost)

vars == <<sent, got, relay, out, inb, drv, wire, rbuf, unacked, conn>>
net == <<wire, rbuf, unacked, conn>>

Side == {"client", "server"}

Peer(s) == IF s = "client" THEN "server" ELSE "client"

Headers == [kind |-> "headers", n |-> 0, end |-> FALSE]
Data(n) == [kind |-> "data", n |-> n, end |-> FALSE]
Fin == [kind |-> "fin", n |-> 0, end |-> TRUE]
Eof == [kind |-> "eof", n |-> 0, end |-> TRUE]
Frames == {Headers, Fin, Eof} \cup {Data(n) : n \in 1..N["client"]} \cup {Data(n) : n \in 1..N["server"]}

UpTo(S, k) == UNION {[1..i -> S] : i \in 0..k}

TypeOK ==
    /\ \A s \in Side : sent[s] \in 0..(N[s] + 1) /\ got[s] \in UpTo(1..(N[Peer(s)] + 1), N[Peer(s)] + 1)
    /\ relay \in [Side -> [up : {"open", "done"}, down : {"open", "fin", "done"},
                           end : {"running", "ok", "err"}]]
    /\ out \in [Side -> UpTo(Frames, 1)] /\ inb \in [Side -> UpTo(Frames, 1)]
    /\ drv \in [Side -> [run : BOOLEAN, can_send : BOOLEAN, response_pending : BOOLEAN,
                         wire_out : UpTo(Frames, 1), end_out : BOOLEAN, fin_sent : BOOLEAN,
                         app_finished : BOOLEAN, end_in : BOOLEAN,
                         pending_in : UpTo(Frames, 1), end_delivered : BOOLEAN]]
    /\ \A s \in Side : Len(wire[s]) + Len(rbuf[Peer(s)]) <= Window
    /\ unacked \in [Side -> BOOLEAN] /\ conn \in [Side -> {"open", "closed", "draining"}]

\* The client has sent the request; both drivers start.
Driver(s) ==
    [run |-> TRUE, can_send |-> s = "client", response_pending |-> FALSE, wire_out |-> <<>>,
     end_out |-> FALSE, fin_sent |-> FALSE, app_finished |-> FALSE, end_in |-> FALSE,
     pending_in |-> <<>>, end_delivered |-> FALSE]

Init ==
    /\ sent = [s \in Side |-> 0] /\ got = [s \in Side |-> <<>>]
    /\ relay = [s \in Side |-> [up |-> "open", down |-> "open", end |-> "running"]]
    /\ out = [s \in Side |-> <<>>] /\ inb = [s \in Side |-> <<>>]
    /\ drv = [s \in Side |-> Driver(s)]
    /\ wire = [client |-> <<Headers>>, server |-> <<>>] /\ rbuf = [s \in Side |-> <<>>]
    /\ unacked = [client |-> TRUE, server |-> FALSE] /\ conn = [s \in Side |-> "open"]

-----------------------------------------------------------------------------
(* The driver.  After an event of its select it runs the loop up to the     *)
(* next select.                                                             *)

\* A driver, its receive buffer, what it sent and whether that is acknowledged,
\* and its connection.
At(s) == [d |-> drv[s], rb |-> rbuf[s], w |-> wire[s], ua |-> unacked[s], c |-> conn[s]]

\* quiche: stream credit, and what is handed to a closed connection goes nowhere
Credit(s, x) == Len(x.w) + Len(rbuf[Peer(s)]) < Window
Write(x, frames) == IF x.c = "open" THEN [x EXCEPT !.w = @ \o frames, !.ua = TRUE] ELSE x

\* h3.poll takes the headers; the server owes the response, and sends it with credit.
PollHeaders(s, x) ==
    LET seen == x.rb # <<>> /\ Head(x.rb) = Headers
        owed == x.d.response_pending \/ (seen /\ s = "server")
        can  == owed /\ Credit(s, x)
        y    == [x EXCEPT !.d.response_pending = owed /\ ~can, !.d.can_send = @ \/ can,
                          !.rb = IF seen THEN Tail(@) ELSE @]
    IN  IF can THEN Write(y, <<Headers>>) ELSE y

\* send_body, with the FIN on the last frame.
SendBody(s, x) ==
    IF x.d.can_send /\ x.d.wire_out # <<>> /\ Credit(s, x)
    THEN Write([x EXCEPT !.d.wire_out = <<>>, !.d.fin_sent = x.d.end_out], x.d.wire_out)
    ELSE x

\* A frame of the body, or at its end the end of the stream, becomes pending.
RecvBody(x) ==
    IF x.d.pending_in # <<>> \/ x.d.end_delivered THEN x
    ELSE IF x.rb # <<>>
         THEN [x EXCEPT !.d.pending_in = <<Head(x.rb)>>, !.d.end_in = Head(x.rb).end,
                        !.rb = Tail(@)]
    ELSE IF x.d.end_in THEN [x EXCEPT !.d.pending_in = <<Eof>>] ELSE x

\* A closed connection ends the driver once what it received has been delivered.
LeaveIfClosed(x) ==
    IF x.c # "open" /\ x.d.pending_in = <<>> /\ x.rb = <<>>
    THEN [x EXCEPT !.d.run = FALSE] ELSE x

\* quiche collects the stream: its FIN was read and all that was sent is acknowledged.
Collected(x) == x.d.end_in /\ x.rb = <<>> /\ ~x.ua

Close(x) == [x EXCEPT !.d.run = FALSE, !.c = IF @ = "open" THEN "closed" ELSE @]

\* Mutant: the connection is closed as soon as the FIN is sent.
CloseIfCollected_Early(x) ==
    IF x.d.run /\ x.d.fin_sent /\ x.d.app_finished THEN Close(x) ELSE x

\* Mutant: each side leaves the close to the other.
CloseIfCollected_Never(x) == x

CloseIfCollected(x) ==
    IF x.d.run /\ x.d.fin_sent /\ x.d.app_finished /\ Collected(x) THEN Close(x) ELSE x

\* The driver of s is in x; frames it had not taken when it returned are dropped.
Becomes(s, x, taken) ==
    /\ drv' = [drv EXCEPT ![s] = x.d] /\ rbuf' = [rbuf EXCEPT ![s] = x.rb]
    /\ unacked' = [unacked EXCEPT ![s] = x.ua] /\ conn' = [conn EXCEPT ![s] = x.c]
    /\ out' = [out EXCEPT ![s] = IF x.d.run /\ ~taken THEN @ ELSE <<>>]

\* One turn of the loop; rest is what the peer sent and s has not received.
Run(s, x0, taken, rest) ==
    \E x1 \in {SendBody(s, PollHeaders(s, x0))} : \E x2 \in {LeaveIfClosed(RecvBody(x1))} :
    \E x3 \in {CloseIfCollected(x2)} :
        Becomes(s, x3, taken) /\ wire' = [wire EXCEPT ![s] = x3.w, ![Peer(s)] = rest]

Loop(s, x) == Run(s, x, FALSE, wire[Peer(s)])
Closes(s) == Becomes(s, Close(At(s)), TRUE) /\ UNCHANGED wire

Apps == <<sent, got, relay>>
Dropped(s) == relay[s].end # "running"

\* Mutant: the next frame is taken before the last one is sent.
RecvOutbound_Queue(s) ==
    /\ drv[s].run /\ ~drv[s].end_out
    /\ \/ /\ out[s] # <<>>
          /\ Run(s, [At(s) EXCEPT !.d.wire_out = @ \o out[s], !.d.end_out = Head(out[s]).end],
                 TRUE, wire[Peer(s)])
       \/ out[s] = <<>> /\ Dropped(s) /\ Closes(s)
    /\ UNCHANGED <<Apps, inb>>

\* A frame from the relay, or None once its sender is dropped.
RecvOutbound(s) ==
    /\ drv[s].run /\ drv[s].wire_out = <<>> /\ ~drv[s].end_out
    /\ \/ /\ out[s] # <<>>
          /\ Run(s, [At(s) EXCEPT !.d.wire_out = out[s], !.d.end_out = Head(out[s]).end],
                 TRUE, wire[Peer(s)])
       \/ out[s] = <<>> /\ Dropped(s) /\ Closes(s)
    /\ UNCHANGED <<Apps, inb>>

\* Mutant: the delivered frame stays pending.
DeliverInbound_Twice(s) ==
    /\ drv[s].run /\ drv[s].pending_in # <<>> /\ ~Dropped(s) /\ inb[s] = <<>>
    /\ inb' = [inb EXCEPT ![s] = drv[s].pending_in]
    /\ \E keep \in BOOLEAN :
         Loop(s, [At(s) EXCEPT !.d.pending_in = IF keep THEN @ ELSE <<>>,
                               !.d.end_delivered = drv[s].pending_in = <<Eof>>])
    /\ UNCHANGED Apps

\* reserve: the pending frame goes to the relay, or nobody wants it any more.
DeliverInbound(s) ==
    /\ drv[s].run /\ drv[s].pending_in # <<>>
    /\ \/ /\ ~Dropped(s) /\ inb[s] = <<>> /\ inb' = [inb EXCEPT ![s] = drv[s].pending_in]
          /\ Loop(s, [At(s) EXCEPT !.d.pending_in = <<>>,
                                   !.d.end_delivered = drv[s].pending_in = <<Eof>>])
       \/ /\ Dropped(s) /\ UNCHANGED inb
          /\ Loop(s, [At(s) EXCEPT !.d.pending_in = <<>>, !.d.end_delivered = TRUE])
    /\ UNCHANGED Apps

\* inbound.closed: the relay is over.  A client that leaves before the end of the
\* response cancels it.
InboundClosed(s) ==
    /\ drv[s].run /\ Dropped(s) /\ ~drv[s].app_finished /\ (s = "client" \/ drv[s].fin_sent)
    /\ IF s = "client" /\ ~drv[s].end_in THEN Closes(s)
       ELSE Loop(s, [At(s) EXCEPT !.d.app_finished = TRUE])
    /\ UNCHANGED <<Apps, inb>>

\* A packet with the next frame.
RecvData(s) ==
    /\ conn[s] = "open" /\ drv[s].run /\ wire[Peer(s)] # <<>>
    /\ Run(s, [At(s) EXCEPT !.rb = Append(@, Head(wire[Peer(s)]))], FALSE, Tail(wire[Peer(s)]))
    /\ UNCHANGED <<Apps, inb>>

\* A packet that acknowledges what has arrived and raises the credit.
RecvAck(s) ==
    /\ conn[s] = "open" /\ conn[Peer(s)] # "closed" /\ drv[s].run
    /\ Loop(s, [At(s) EXCEPT !.ua = @ /\ wire[s] # <<>>])
    /\ UNCHANGED <<Apps, inb>>

\* The peer's close, which may overtake frames on their way.
RecvClose(s) ==
    /\ conn[s] = "open" /\ conn[Peer(s)] # "open" /\ drv[s].run
    /\ Run(s, [At(s) EXCEPT !.c = "draining", !.w = <<>>], FALSE, <<>>)
    /\ UNCHANGED <<Apps, inb>>

\* The connection is lost: quiche's idle timeout.
Lost(s) ==
    /\ "lost" \in Faults /\ conn[s] = "open" /\ drv[s].run
    /\ Run(s, [At(s) EXCEPT !.c = "draining", !.w = <<>>], FALSE, <<>>)
    /\ UNCHANGED <<Apps, inb>>

\* The listener stops, or the server rejects the request it has just received.
Stop(s) ==
    /\ drv[s].run
    /\ \/ "stop" \in Faults /\ s = "server"
       \/ "reject" \in Faults /\ s = "server" /\ rbuf[s] = <<>> /\ ~drv[s].can_send
    /\ Closes(s) /\ UNCHANGED <<Apps, inb>>

\* quiche's timer, at the latest after a second.
Timer(s) == drv[s].run /\ Loop(s, At(s)) /\ UNCHANGED <<Apps, inb>>

-----------------------------------------------------------------------------
(* The relays.                                                              *)

Drivers == <<drv, wire, rbuf, unacked, conn>>
Running(s) == relay[s].end = "running"

\* The relay is over and drops its ends of the channels.
Fails(s) ==
    /\ relay' = [relay EXCEPT ![s].end = "err"] /\ inb' = [inb EXCEPT ![s] = <<>>]
    /\ UNCHANGED <<Drivers, out, sent, got>>

\* upload of the client, downstream of the server: the endpoint's next chunk, or
\* its end of stream.
ReadEndpoint(s) ==
    /\ Running(s) /\ relay[s].up = "open" /\ drv[s].run /\ out[s] = <<>>
    /\ sent' = [sent EXCEPT ![s] = @ + 1]
    /\ out' = [out EXCEPT ![s] = IF sent[s] < N[s] THEN <<Data(sent[s] + 1)>> ELSE <<Fin>>]
    /\ relay' = [relay EXCEPT ![s].up = IF sent[s] < N[s] THEN "open" ELSE "done"]
    /\ UNCHANGED <<Drivers, inb, got>>

\* sender.closed() while the endpoint is read.
SenderClosed(s) == Running(s) /\ relay[s].up = "open" /\ ~drv[s].run /\ Fails(s)

\* download of the client, upstream of the server.
WriteEndpoint(s) ==
    /\ Running(s) /\ inb[s] # <<>> /\ Head(inb[s]).kind = "data" /\ relay[s].down = "open"
    /\ got' = [got EXCEPT ![s] = Append(@, Head(inb[s]).n)]
    /\ inb' = [inb EXCEPT ![s] = <<>>] /\ UNCHANGED <<Drivers, out, sent, relay>>

\* TcpFin shuts the endpoint's side down; the client then wants the end of the stream.
ReadEnd(s) ==
    /\ Running(s) /\ inb[s] # <<>>
    /\ \/ /\ Head(inb[s]) = Fin /\ relay[s].down = "open"
          /\ relay' = [relay EXCEPT ![s].down = IF s = "client" THEN "fin" ELSE "done"]
          /\ got' = [got EXCEPT ![s] = Append(@, N[Peer(s)] + 1)]
       \/ /\ Head(inb[s]) = Eof /\ relay[s].down = "fin"
          /\ relay' = [relay EXCEPT ![s].down = "done"] /\ UNCHANGED got
    /\ inb' = [inb EXCEPT ![s] = <<>>] /\ UNCHANGED <<Drivers, out, sent>>

\* Mutant: a channel without a sender is taken for the end of the stream.
ReadFails_AsEnd(s) ==
    /\ Running(s) /\ relay[s].down # "done" /\ inb[s] = <<>> /\ ~drv[s].run
    /\ relay' = [relay EXCEPT ![s].down = "done"] /\ UNCHANGED <<Drivers, out, inb, sent, got>>

\* The stream ended without a TcpFin, or the channel did.
ReadFails(s) ==
    /\ Running(s) /\ relay[s].down # "done"
    /\ \/ inb[s] = <<Eof>> /\ relay[s].down = "open"
       \/ inb[s] = <<>> /\ ~drv[s].run
    /\ Fails(s)

\* try_join of the server, the two awaits of the client.
RelayEnds(s) ==
    /\ Running(s) /\ relay[s].up = "done" /\ relay[s].down = "done"
    /\ relay' = [relay EXCEPT ![s].end = "ok"] /\ inb' = [inb EXCEPT ![s] = <<>>]
    /\ UNCHANGED <<Drivers, out, sent, got>>

\* No progress for idle, or the endpoint fails.
RelayFails(s) == "idle" \in Faults /\ Running(s) /\ Fails(s)

-----------------------------------------------------------------------------

Finished ==
    /\ \A s \in Side : Dropped(s) /\ ~drv[s].run
    /\ UNCHANGED vars

Protocol(s) ==
    \/ RecvOutbound(s) \/ DeliverInbound(s) \/ InboundClosed(s) \/ RecvData(s) \/ RecvAck(s)
    \/ RecvClose(s) \/ Timer(s)
Relaying(s) ==
    \/ SenderClosed(s) \/ ReadEnd(s) \/ ReadFails(s) \/ RelayEnds(s)
Next ==
    \/ \E s \in Side : \/ Protocol(s) \/ Relaying(s) \/ ReadEndpoint(s) \/ WriteEndpoint(s)
                       \/ Lost(s) \/ Stop(s) \/ RelayFails(s)
    \/ Finished

Spec == Init /\ [][Next]_vars

-----------------------------------------------------------------------------

\* All that the endpoint of s can be given.
All(s) == [i \in 1..(N[Peer(s)] + 1) |-> i]

\* A relay that ends well has passed on all its peer's endpoint sent, in order and
\* with the end of the stream, whatever closed the connection meanwhile and however
\* much was backed up behind the channels.
GracefulIsComplete ==
    \A s \in Side : relay[s].end = "ok" => got[s] = All(s)

\* What an endpoint has been given is the beginning of what the other one sent: no
\* frame is lost, repeated or reordered between the two stacks, and the end of the
\* stream comes only after the last byte.
InOrder ==
    \A s \in Side : /\ \A i \in DOMAIN got[s] : got[s][i] = i
                    /\ Len(got[s]) <= sent[Peer(s)]

\* When nothing fails, all that an endpoint sent has arrived in the end, although
\* either driver closes the connection as soon as it is done itself.
TailArrived == \A s \in Side : relay[s].up = "done" => got[Peer(s)] = All(Peer(s))

\* When nothing fails, both drivers have ended in the end if the relays have.
DriversLeft == (\A s \in Side : relay[s].end = "ok") => (\A s \in Side : ~drv[s].run)

\* A client relay that gives up, also after its upload FIN, has in the end ended the
\* server's relay, without any idle timer.
CancelReachedServer == relay["client"].end = "err" => relay["server"].end # "running"

\* A server relay that waits for target data notices the loss of the transport, also
\* while an upload is blocked on a write to the target, without any idle timer.
TransportLossIsSeen ==
    conn["server"] # "open" /\ relay["server"].up = "open"
        ~> (relay["server"].end # "running" \/ relay["server"].up = "done")

=============================================================================
