---------------------------- MODULE LocalConnect ----------------------------
(***************************************************************************)
(* A local application asks the client for a connection over SOCKS5 or     *)
(* HTTP CONNECT: the bytes of its request arrive in any pieces, the        *)
(* handler reads them under a timeout, opens a flow, replies, and passes   *)
(* on what followed the request.  The tunnel's relay is ClientRelay; here  *)
(* it only takes what the application still sends.                         *)
(***************************************************************************)
EXTENDS Integers, Sequences, SequencesExt

CONSTANTS SocksScripts,  \* [request, data]: SOCKS bytes the application sends, and what follows them
          HttpScripts,   \* the same in HTTP tokens
          ReadSize,      \* bytes one read of the HTTP handler returns at most (1024)
          MaxHeader      \* MAX_CONNECT_HEADER_BYTES

VARIABLES kind,      \* "socks" or "http"
          script,    \* what this application sends
          unsent, app,         \* what it has not sent yet; "open" or "gone"
          wire,      \* sent and not yet read
          buf,       \* read by the handler and not yet used
          stage, need,         \* where the handler is, and how many bytes read_exact waits for
          request,   \* the parsed target, << >> before that
          replies,   \* what the handler wrote to the application
          opened,    \* the server's answer to OpenTcp, "none" before it
          upload     \* data passed to the tunnel

vars == <<kind, script, unsent, app, wire, buf, stage, need, request, replies, opened, upload>>

Reading == {"header", "methods", "request", "ipv4", "ipv6", "length", "domain", "port", "http"}
From(s, n) == SubSeq(s, n, Len(s))

-----------------------------------------------------------------------------
\* HTTP tokens: words with one " " between them, and CR LF.
Terminator == <<"CR", "LF", "CR", "LF">>
HeaderEnds(data) == {i \in 1 .. (Len(data) - 3) : SubSeq(data, i, i + 3) = Terminator}

LastColon(s)   == SelectLastInSeq(s, LAMBDA c : c = ":")
Ipv6(h)        == h = <<"fe80", ":", "1">>
Port(p)        == p = <<"80">>
Target(t, h)   == <<[type |-> t, host |-> h]>>

parse_authority(a) ==
    IF a[1] = "["
    THEN LET ends == {i \in 2 .. (Len(a) - 1) : a[i] = "]" /\ a[i + 1] = ":"} IN
         IF ends = {} THEN << >>
         ELSE LET i == CHOOSE i \in ends : \A j \in ends : i <= j
                  host == SubSeq(a, 2, i - 1) IN
              IF Ipv6(host) /\ Port(From(a, i + 2)) THEN Target("ipv6", host) ELSE << >>
    ELSE LET i == LastColon(a)
             host == SubSeq(a, 1, i - 1) IN
         IF i = 0 \/ ~Port(From(a, i + 1)) THEN << >>
         ELSE Target(IF host = <<"10.0.0.1">> THEN "ipv4" ELSE IF Ipv6(host) THEN "ipv6" ELSE "domain", host)

\* parse_connect_request_bytes: the target, or << >> for an error.
parse_connect_request_bytes(data) ==
    LET end   == CHOOSE i \in HeaderEnds(data) : \A j \in HeaderEnds(data) : i <= j
        text  == SubSeq(data, 1, end - 1)
        eol   == SelectInSeq(text, LAMBDA c : c = "CR")
        line  == IF eol = 0 THEN text ELSE SubSeq(text, 1, eol - 1)
        sp    == SelectSeq([i \in 1 .. Len(line) |-> i], LAMBDA i : line[i] = " ")
    IN IF Len(sp) < 2 \/ line[1] # "CONNECT" \/ line[sp[2] + 1] # "HTTP/1.1" THEN << >>
       ELSE parse_authority(SubSeq(line, sp[1] + 1, sp[2] - 1))

\* Mutant: the data is what follows the line break before the terminator.
initial_data_Off(data) ==
    From(data, 3 + (CHOOSE i \in HeaderEnds(data) : \A j \in HeaderEnds(data) : i <= j))

initial_data(data) ==
    From(data, 4 + (CHOOSE i \in HeaderEnds(data) : \A j \in HeaderEnds(data) : i <= j))

-----------------------------------------------------------------------------
\* The application: it sends in any pieces and may go away at any time.
AppSends ==
    /\ app = "open" /\ unsent # << >>
    /\ \E n \in 1 .. Len(unsent) : wire' = wire \o SubSeq(unsent, 1, n) /\ unsent' = From(unsent, n + 1)
    /\ UNCHANGED <<kind, script, app, buf, stage, need, request, replies, opened, upload>>

AppLeaves ==
    /\ app = "open" /\ app' = "gone"
    /\ UNCHANGED <<kind, script, unsent, wire, buf, stage, need, request, replies, opened, upload>>

\* Writes to an application that is gone may fail or be lost.
Written(bytes) == IF app = "open" THEN Append(replies, bytes) ELSE replies
Fails == app = "gone"

\* The request is refused: the replies of read_request itself, then write_failure or 400.
Refuse(own) ==
    /\ stage' = "ended" /\ need' = 0
    /\ replies' = IF app = "gone" THEN replies
                  ELSE replies \o own \o <<IF kind = "socks" THEN "reply 5" ELSE "400">>
    /\ UNCHANGED <<buf, request>>

Expect(s, n) == stage' = s /\ need' = n /\ buf' = << >>

\* socks5::read_request once read_exact has the bytes b the stage asked for.
SocksHeader(b) ==
    IF b[1] # 5 THEN Refuse(<< >>) ELSE Expect("methods", b[2]) /\ UNCHANGED <<request, replies>>

SocksMethods(b) ==
    IF ~Contains(b, 0) THEN Refuse(<<"no method">>)
    ELSE \/ Expect("request", 4) /\ replies' = Written("method 0") /\ UNCHANGED request
         \/ Fails /\ Refuse(<< >>)

SocksRequest(b) ==
    IF b[1] # 5 THEN Refuse(<< >>)
    ELSE IF b[2] \notin {1, 3} THEN Refuse(<<"reply 7">>)
    ELSE IF b[3] # 0 THEN Refuse(<<"reply 1">>)
    ELSE IF b[4] \notin {1, 3, 4} THEN Refuse(<<"reply 8">>)
    ELSE /\ request' = <<[type |-> IF b[2] = 1 THEN "connect" ELSE "udp", host |-> << >>]>>
         /\ CASE b[4] = 1 -> Expect("ipv4", 4)
              [] b[4] = 3 -> Expect("length", 1)
              [] b[4] = 4 -> Expect("ipv6", 16)
         /\ UNCHANGED replies

SocksLength(b) ==
    IF b[1] = 0 THEN Refuse(<<"reply 4">>) ELSE Expect("domain", b[1]) /\ UNCHANGED <<request, replies>>

SocksAddress(b) ==
    IF stage = "domain" /\ Contains(b, 255)     \* 255: a byte of no UTF-8 string
    THEN Refuse(<< >>)
    ELSE Expect("port", 2) /\ request' = [request EXCEPT ![1].host = b] /\ UNCHANGED replies

SocksPort(b) ==
    /\ stage' = IF request[1].type = "udp" THEN "associate" ELSE "open"
    /\ need' = 0 /\ buf' = << >> /\ UNCHANGED <<request, replies>>

read_request ==
    /\ kind = "socks" /\ stage \in Reading /\ Len(wire) >= need
    /\ wire' = From(wire, need + 1)
    /\ LET b == SubSeq(wire, 1, need) IN
       CASE stage = "header"  -> SocksHeader(b)
         [] stage = "methods" -> SocksMethods(b)
         [] stage = "request" -> SocksRequest(b)
         [] stage = "length"  -> SocksLength(b)
         [] stage \in {"ipv4", "ipv6", "domain"} -> SocksAddress(b)
         [] stage = "port"    -> SocksPort(b)
    /\ UNCHANGED <<kind, script, unsent, app, opened, upload>>

\* Mutant: the size is not looked at.
read_connect_target_NoLimit ==
    /\ kind = "http" /\ stage = "http" /\ wire # << >>
    /\ \E n \in 1 .. Len(wire) :
          LET data == buf \o SubSeq(wire, 1, n)
              target == IF HeaderEnds(data) = {} THEN << >> ELSE parse_connect_request_bytes(data) IN
          /\ n <= ReadSize /\ wire' = From(wire, n + 1)
          /\ IF HeaderEnds(data) = {}
             THEN buf' = data /\ UNCHANGED <<stage, need, request, replies>>
             ELSE IF target = << >> THEN Refuse(<< >>)
             ELSE /\ request' = target /\ buf' = initial_data(data) /\ stage' = "open"
                  /\ UNCHANGED <<need, replies>>
    /\ UNCHANGED <<kind, script, unsent, app, opened, upload>>

\* One read of read_connect_target.
read_connect_target ==
    /\ kind = "http" /\ stage = "http" /\ wire # << >>
    /\ \E n \in 1 .. Len(wire) :
          LET data == buf \o SubSeq(wire, 1, n)
              target == IF HeaderEnds(data) = {} THEN << >> ELSE parse_connect_request_bytes(data) IN
          /\ n <= ReadSize /\ wire' = From(wire, n + 1)
          /\ IF HeaderEnds(data) = {}
             THEN IF Len(data) > MaxHeader THEN Refuse(<< >>)
                  ELSE buf' = data /\ UNCHANGED <<stage, need, request, replies>>
             ELSE IF target = << >> THEN Refuse(<< >>)
             ELSE /\ request' = target /\ buf' = initial_data(data) /\ stage' = "open"
                  /\ UNCHANGED <<need, replies>>
    /\ UNCHANGED <<kind, script, unsent, app, opened, upload>>

\* The application is gone before the request is complete.
ReadFails ==
    /\ stage \in Reading /\ app = "gone" /\ (IF kind = "http" THEN wire = << >> ELSE Len(wire) < need)
    /\ Refuse(<< >>)
    /\ UNCHANGED <<kind, script, unsent, app, wire, opened, upload>>

\* Mutant: only the SOCKS handler has a timeout.
RequestTimeout_Socks ==
    /\ kind = "socks" /\ stage \in Reading /\ Refuse(<< >>)
    /\ UNCHANGED <<kind, script, unsent, app, wire, opened, upload>>

\* timeout(read_timeout, ...) of both handlers.
RequestTimeout ==
    /\ stage \in Reading /\ Refuse(<< >>)
    /\ UNCHANGED <<kind, script, unsent, app, wire, opened, upload>>

\* UDP ASSOCIATE: refused on an H3 client, otherwise served (UdpFlow).
handle_udp_associate ==
    /\ stage = "associate"
    /\ \/ stage' = "ended" /\ replies' = Written("reply 7")
       \/ stage' = "served" /\ UNCHANGED replies
    /\ UNCHANGED <<kind, script, unsent, app, wire, buf, need, request, opened, upload>>

-----------------------------------------------------------------------------
\* open_tcp_tunnel: the pool yields a tunnel and OpenTcp is sent, or either fails.
open_tcp_tunnel ==
    /\ stage = "open"
    /\ stage' \in {"wait", "failed"}
    /\ UNCHANGED <<kind, script, unsent, app, wire, buf, need, request, replies, opened, upload>>

\* Mutant: any first frame of the server opens the flow.
open_tcp_on_tunnel_Any ==
    /\ stage = "wait"
    /\ opened' \in {"WindowUpdate", "Error", "CloseFlow", "TcpReset", "other", "end"}
    /\ stage' = IF opened' \in {"WindowUpdate", "other"} THEN "success" ELSE "failed"
    /\ UNCHANGED <<kind, script, unsent, app, wire, buf, need, request, replies, upload>>

\* The server's first frame; after Error and CloseFlow finish_response ends within its timeout.
open_tcp_on_tunnel ==
    /\ stage = "wait"
    /\ opened' \in {"WindowUpdate", "Error", "CloseFlow", "TcpReset", "other", "end"}
    /\ stage' = IF opened' = "WindowUpdate" THEN "success" ELSE "failed"
    /\ UNCHANGED <<kind, script, unsent, app, wire, buf, need, request, replies, upload>>

write_connect_failure ==
    /\ stage = "failed" /\ stage' = "ended"
    /\ replies' = Written(IF kind = "socks" THEN "reply 5" ELSE "502")
    /\ UNCHANGED <<kind, script, unsent, app, wire, buf, need, request, opened, upload>>

Success == {"reply 0", "200"}

write_connect_success ==
    /\ stage = "success"
    /\ \/ stage' = "initial" /\ replies' = Written(IF kind = "socks" THEN "reply 0" ELSE "200")
       \/ Fails /\ stage' = "ended" /\ UNCHANGED replies
    /\ UNCHANGED <<kind, script, unsent, app, wire, buf, need, request, opened, upload>>

\* Mutant: a tunnel that fails at the initial data is reported like a failed open.
send_initial_data_Reply ==
    /\ stage = "initial"
    /\ \/ stage' = "relay" /\ upload' = upload \o buf
       \/ buf # << >> /\ stage' = "failed" /\ UNCHANGED upload
    /\ buf' = << >>
    /\ UNCHANGED <<kind, script, unsent, app, wire, need, request, replies, opened>>

\* handle_local_connect: the data that came with the request is the first of the flow.
send_initial_data ==
    /\ stage = "initial"
    /\ \/ stage' = "relay" /\ upload' = upload \o buf
       \/ buf # << >> /\ stage' = "ended" /\ UNCHANGED upload
    /\ buf' = << >>
    /\ UNCHANGED <<kind, script, unsent, app, wire, need, request, replies, opened>>

\* relay_stream_and_tunnel, the upload side: it reads on, and ends with either peer.
relay_stream_and_tunnel ==
    /\ stage = "relay"
    /\ \/ wire # << >> /\ upload' = upload \o wire /\ wire' = << >> /\ UNCHANGED stage
       \/ stage' = "ended" /\ UNCHANGED <<wire, upload>>
    /\ UNCHANGED <<kind, script, unsent, app, buf, need, request, replies, opened>>

Init ==
    /\ \/ kind = "socks" /\ script \in SocksScripts /\ stage = "header" /\ need = 2
       \/ kind = "http" /\ script \in HttpScripts /\ stage = "http" /\ need = 0
    /\ unsent = script.request \o script.data /\ app = "open" /\ wire = << >> /\ buf = << >>
    /\ request = << >> /\ replies = << >> /\ opened = "none" /\ upload = << >>

Handler == \/ read_request \/ read_connect_target \/ ReadFails \/ handle_udp_associate \/ open_tcp_tunnel
           \/ write_connect_failure \/ write_connect_success \/ send_initial_data

Next == AppSends \/ AppLeaves \/ Handler \/ RequestTimeout \/ open_tcp_on_tunnel \/ relay_stream_and_tunnel

Spec == Init /\ [][Next]_vars

-----------------------------------------------------------------------------
\* However the request was cut into pieces, the flow that opens is the one it asks for:
\* a request that is malformed or asks for something else never reaches OpenTcp, and the
\* success reply is written only after the server's WindowUpdate.
ServedAsMeant ==
    /\ stage \in {"open", "wait", "success", "initial", "relay"} => request = script.target
    /\ \A i \in DOMAIN replies : replies[i] \in Success => opened = "WindowUpdate"

\* What enters the tunnel is what the application sent behind its request, from its first
\* byte on and in order, whether it was read with the request or by the relay.
UploadIsWhatFollowed == IsPrefix(upload, script.data)

\* A success reply is the last thing the handler itself says: a flow that fails later ends
\* the connection without a second verdict in the middle of the data.
SuccessIsTheLastWord ==
    \A i \in DOMAIN replies : replies[i] \in Success => i = Len(replies)

\* The HTTP handler keeps at most one read more than the limit for headers.
HeaderBounded == kind = "http" => Len(buf) <= MaxHeader + ReadSize

\* Every request is settled, however slow or silent the application is: relayed, handed to
\* the UDP association, or ended.
RequestSettled == stage \in {"relay", "served", "ended"}
=============================================================================
