------------------------------- MODULE UdpFlow -------------------------------
(***************************************************************************)
(* Datagrams through a tunnel, end to end: the loop that takes them from   *)
(* the local side (serve_udp_associate_with_pool of socks5.rs, or the      *)
(* MaverickDatagramFlow the packet runtime drives), the UdpAssociation of  *)
(* crates/maverick-client/src/udp.rs, the two directions of its tunnel     *)
(* stream, and handle_udp_flow of crates/maverick-server/src/server.rs.    *)
(*                                                                         *)
(* A datagram is its number and its answer bears the same number.  An      *)
(* association that is given up takes its stream with it: what the server  *)
(* still does for it reaches nobody.                                       *)
(***************************************************************************)
EXTENDS Integers, Sequences, FiniteSets

CONSTANTS
    Front,              \* "socks" or "tun"
    ControlData,        \* whether bytes may arrive on the SOCKS control connection
    Peers,              \* senders of datagrams to the local socket
    Host,               \* those with the address of the control connection
    MaxPackets          \* datagrams taken

VARIABLES
    loop,               \* where the local loop is
    association,        \* whether there is a UdpAssociation, and its flow id agreed
    peer,               \* associated_udp_peer
    current, from,      \* the datagram in hand and who sent it
    taken,              \* datagrams taken so far
    up, down,           \* frames on the stream
    half,               \* a frame was cut off while it was sent
    server,             \* handle_udp_flow
    relayed,            \* datagrams the server sent to their target, 0 for a mangled one
    answers             \* what the local side was given: [for, n, to]

vars == <<loop, association, peer, current, from, taken, up, down, half, server, relayed,
          answers>>

Nobody == "nobody"
Packets == 1..MaxPackets
Frames == [type : {"OpenUdp", "WindowUpdate", "CloseFlow", "Error"}]
          \cup [type : {"UdpPacket"}, n : 0..MaxPackets]
Stream == <<association, up, down, half, server>>

TypeOK ==
    /\ loop \in {"select", "opening", "open_wait", "sending", "waiting", "closing", "ended"}
    /\ association \in BOOLEAN /\ half \in BOOLEAN
    /\ peer \in Peers \cup {Nobody} /\ from \in Peers \cup {Nobody}
    /\ current \in 0..MaxPackets /\ taken \in 0..MaxPackets
    /\ up \in Seq(Frames) /\ down \in Seq(Frames)
    /\ server \in [at : {"none", "read", "exchange", "ended"}, n : 0..MaxPackets]
    /\ relayed \in Seq(0..MaxPackets)
    /\ answers \in Seq([for : Packets, n : 0..MaxPackets, to : Peers])
    /\ association => loop # "opening"

Idle == [at |-> "none", n |-> 0]

Init ==
    /\ loop = (IF Front = "socks" THEN "select" ELSE "opening")
    /\ association = FALSE /\ peer = Nobody /\ current = 0 /\ from = Nobody /\ taken = 0
    /\ up = <<>> /\ down = <<>> /\ half = FALSE /\ server = Idle
    /\ relayed = <<>> /\ answers = <<>>

\* The association is dropped with its tunnel.
GiveUp == association' = FALSE /\ up' = <<>> /\ down' = <<>> /\ half' = FALSE /\ server' = Idle

-----------------------------------------------------------------------------
(* The local side.                                                          *)

\* Mutant: every sender on the host is accepted.
accept_udp_peer_Any(p) == p \in Host

accept_udp_peer(p) == p \in Host /\ peer \in {Nobody, p}

\* Mutant: every datagram opens an association.
RecvDatagram_Opens(p) ==
    /\ loop = "select" /\ taken < MaxPackets
    /\ Front = "socks" => accept_udp_peer(p)
    /\ taken' = taken + 1 /\ current' = taken' /\ from' = p
    /\ peer' = IF Front = "socks" THEN p ELSE peer
    /\ loop' = "opening"
    /\ UNCHANGED <<Stream, relayed, answers>>

\* The SOCKS loop takes a datagram; one that is malformed, or of another peer,
\* is dropped.  The packet runtime hands over the next one.
RecvDatagram(p) ==
    /\ loop = "select" /\ taken < MaxPackets
    /\ Front = "socks" => accept_udp_peer(p)
    /\ taken' = taken + 1 /\ current' = taken' /\ from' = p
    /\ peer' = IF Front = "socks" THEN p ELSE peer
    /\ loop' = IF association THEN "sending" ELSE "opening"
    /\ UNCHANGED <<Stream, relayed, answers>>

\* A failed exchange: the SOCKS loop drops the association and goes on; for the
\* packet runtime it is an error of exchange, on which the worker closes the flow.
SocksFailed == loop' = "select" /\ GiveUp

\* Mutant: the worker of the packet runtime goes on after a failure.
ExchangeFailed_GoesOn == loop' = "select" /\ UNCHANGED Stream

ExchangeFailed == loop' = "closing" /\ UNCHANGED Stream

Failed ==
    /\ UNCHANGED <<peer, current, from, taken, relayed, answers>>
    /\ IF Front = "socks" THEN SocksFailed ELSE ExchangeFailed

\* open_with_pool: the tunnel, then OpenUdp and its answer, for which there is
\* no timeout here; the packet runtime bounds the call by connect_timeout.
OpenTunnel ==
    /\ loop = "opening" /\ UNCHANGED <<peer, current, from, taken, relayed, answers>>
    /\ \/ /\ loop' = "open_wait" /\ up' = <<[type |-> "OpenUdp"]>> /\ down' = <<>>
          /\ server' = [at |-> "read", n |-> 0] /\ half' = FALSE /\ UNCHANGED association
       \/ loop' = (IF Front = "socks" THEN "select" ELSE "ended") /\ GiveUp

OpenAnswered ==
    /\ loop = "open_wait" /\ down # <<>> /\ UNCHANGED <<peer, current, from, taken, relayed, answers>>
    /\ IF Head(down).type = "WindowUpdate"
       THEN /\ association' = TRUE /\ down' = Tail(down) /\ UNCHANGED <<up, half, server>>
            /\ loop' = IF Front = "socks" THEN "sending" ELSE "select"
       ELSE GiveUp /\ loop' = IF Front = "socks" THEN "select" ELSE "ended"

\* Mutant: the open is not bounded by a timeout.
OpenFails_Unbounded ==
    /\ loop = "open_wait" /\ server.at = "ended" /\ down = <<>>
    /\ loop' = (IF Front = "socks" THEN "select" ELSE "ended") /\ GiveUp
    /\ UNCHANGED <<peer, current, from, taken, relayed, answers>>

\* The stream ends or is reset before the answer, or connect_timeout passes.
OpenFails ==
    /\ loop = "open_wait" /\ (Front = "tun" \/ (server.at = "ended" /\ down = <<>>))
    /\ loop' = (IF Front = "socks" THEN "select" ELSE "ended") /\ GiveUp
    /\ UNCHANGED <<peer, current, from, taken, relayed, answers>>

\* A frame behind a half sent one is mangled with it.
Framed(f) == IF half THEN [type |-> "UdpPacket", n |-> 0] ELSE f

\* relay_packet.
SendPacket ==
    /\ loop = "sending" /\ UNCHANGED <<peer, current, from, taken, relayed, answers>>
    /\ loop' = "waiting" /\ UNCHANGED <<association, down, half, server>>
    /\ up' = Append(up, Framed([type |-> "UdpPacket", n |-> current]))

SendFails == loop = "sending" /\ Failed

\* The first UdpPacket frame of the flow is the response.
ReadResponse ==
    /\ loop = "waiting" /\ down # <<>> /\ Head(down).type = "UdpPacket"
    /\ answers' = Append(answers, [for |-> current, n |-> Head(down).n, to |-> from])
    /\ down' = Tail(down) /\ loop' = "select"
    /\ UNCHANGED <<association, peer, current, from, taken, up, half, server, relayed>>

\* Mutant: after a timeout the association is used again.
RelayFails_Keeps ==
    /\ loop = "waiting" /\ loop' = "select"
    /\ UNCHANGED <<Stream, peer, current, from, taken, relayed, answers>>

\* Mutant: the wait for a response has no timeout.
RelayFails_Unbounded ==
    /\ loop = "waiting" /\ down # <<>> /\ Head(down).type \in {"Error", "CloseFlow"}
    /\ Failed

\* An Error or CloseFlow frame, the end of the stream, or response_timeout.
RelayFails ==
    /\ loop = "waiting" /\ (down # <<>> => Head(down).type \in {"Error", "CloseFlow"})
    /\ Failed

\* A byte on the control connection while a datagram is being relayed: the
\* relay is abandoned wherever it is, the association stays.
ControlByte ==
    /\ Front = "socks" /\ ControlData /\ loop \in {"sending", "waiting"}
    /\ loop' = "select" /\ UNCHANGED <<association, down, server>>
    /\ IF loop = "sending" THEN half' \in {half, TRUE} ELSE UNCHANGED half
    /\ UNCHANGED up
    /\ UNCHANGED <<peer, current, from, taken, relayed, answers>>

\* The control connection ends, or the worker of the packet runtime does: its
\* idle timeout, a cancellation or the end of its commands.
Leave ==
    /\ loop \in {"select", "sending", "waiting"} /\ loop' = "closing"
    /\ UNCHANGED <<Stream, peer, current, from, taken, relayed, answers>>

\* CloseFlow with the end of the request, then the rest of the response.
Close ==
    /\ loop = "closing" /\ loop' = "ended"
    /\ up' = IF association THEN Append(up, Framed([type |-> "CloseFlow"])) ELSE up
    /\ UNCHANGED <<association, down, half, server, peer, current, from, taken, relayed, answers>>

-----------------------------------------------------------------------------
(* handle_udp_flow.                                                         *)

local == <<loop, association, peer, current, from, taken, half, answers>>
Reply(type) == down' = Append(down, [type |-> type])

\* A payload that does not decode, or a timeout of zero, is refused.
udp_idle_timeout_ms == {"agreed", "refused"}

OpenUdp ==
    /\ server.at = "read" /\ up # <<>> /\ Head(up).type = "OpenUdp" /\ up' = Tail(up)
    /\ \E timeout \in udp_idle_timeout_ms :
         IF timeout = "agreed" THEN Reply("WindowUpdate") /\ UNCHANGED server
         ELSE Reply("Error") /\ server' = [server EXCEPT !.at = "ended"]
    /\ UNCHANGED <<local, relayed>>

\* A mangled frame reads as a packet, or not at all.
UdpPacket ==
    /\ server.at = "read" /\ up # <<>> /\ Head(up).type = "UdpPacket" /\ up' = Tail(up)
    /\ \/ server' = [at |-> "exchange", n |-> Head(up).n] /\ UNCHANGED down
       \/ Head(up).n = 0 /\ server' = [server EXCEPT !.at = "ended"] /\ UNCHANGED down
    /\ UNCHANGED <<local, relayed>>

\* Mutant: a target that does not answer is sent the datagram again.
Answer_Retries ==
    /\ server.at = "exchange" /\ server' \in {server, [at |-> "read", n |-> 0]}
    /\ relayed' = Append(relayed, server.n)
    /\ IF server' = server THEN UNCHANGED down
       ELSE down' = Append(down, [type |-> "UdpPacket", n |-> server.n])
    /\ UNCHANGED <<local, up>>

\* The target does not resolve to an allowed address, it is sent the datagram
\* and does not answer in time, or it answers.
relay_udp_packet == {"not sent", "no answer", "answer"}

\* send_udp_packet_response.
Answer ==
    /\ server.at = "exchange" /\ server' = [at |-> "read", n |-> 0]
    /\ \E r \in relay_udp_packet :
         /\ relayed' = IF r = "not sent" THEN relayed ELSE Append(relayed, server.n)
         /\ IF r = "answer" THEN down' = Append(down, [type |-> "UdpPacket", n |-> server.n])
            ELSE Reply("Error")
    /\ UNCHANGED <<local, up>>

CloseFlow ==
    /\ server.at = "read" /\ up # <<>> /\ Head(up).type = "CloseFlow" /\ up' = Tail(up)
    /\ server' = [server EXCEPT !.at = "ended"] /\ UNCHANGED <<local, down, relayed>>

\* No frame for the timeout the flow agreed on.
IdleTimeout ==
    /\ server.at = "read" /\ up = <<>> /\ association
    /\ Reply("CloseFlow") /\ server' = [server EXCEPT !.at = "ended"]
    /\ UNCHANGED <<local, up, relayed>>

Server == OpenUdp \/ UdpPacket \/ Answer \/ CloseFlow \/ IdleTimeout

Ended == loop = "ended" /\ UNCHANGED vars

Local == OpenTunnel \/ OpenAnswered \/ OpenFails \/ SendPacket \/ SendFails
         \/ ReadResponse \/ RelayFails \/ Close

Next ==
    \/ \E p \in Peers : RecvDatagram(p)
    \/ Local \/ ControlByte \/ Leave \/ Server \/ Ended

Spec == Init /\ [][Next]_vars

-----------------------------------------------------------------------------

\* A datagram sent to a target is one the app sent, whole, and each at most
\* once: what the stream carries is parsed as the loop wrote it, whichever
\* await the loop left it at.
RelaysWhatWasSent ==
    /\ \A i \in DOMAIN relayed : relayed[i] # 0
    /\ \A i, j \in DOMAIN relayed : i # j => relayed[i] # relayed[j]

\* The answer handed over for a datagram is the answer to that datagram, and it
\* goes to the sender it came from: relay_packet takes the first UdpPacket frame
\* of the stream, so an association must not outlive an exchange without one.
AnswersMatch ==
    \A i \in DOMAIN answers :
        /\ answers[i].n = answers[i].for
        /\ Front = "socks" => answers[i].to = peer /\ answers[i].to \in Host

\* Whatever arrives on the control connection, an answer is never of a datagram
\* yet to come, never given twice and never given to anyone but the one peer
\* of the association.
AnswersInOrder ==
    /\ \A i \in DOMAIN answers : answers[i].n <= answers[i].for /\ answers[i].to = peer
    /\ \A i, j \in DOMAIN answers :
         i < j /\ answers[i].n # 0 /\ answers[j].n # 0 => answers[i].n < answers[j].n

\* At most one datagram of an association is between the local side and the
\* target at a time.
PacketsAreSerialized ==
    LET Count(s) == Cardinality({i \in DOMAIN s : s[i].type = "UdpPacket"})
    IN  Count(up) + Count(down) + (IF server.at = "exchange" THEN 1 ELSE 0) <= 1

\* Once a datagram is sent the loop does not stay with it: response_timeout
\* ends the wait, and the loop can take another one, whatever the server does.
NoExchange == loop \notin {"sending", "waiting"}

\* The wait of a UDP ASSOCIATE for its flow is bounded.
NoOpenWait == loop # "open_wait"
=============================================================================
