----------------------------- MODULE TunnelRelay -----------------------------
(***************************************************************************)
(* One TCP flow end to end: the client's relay and the server's relay run  *)
(* concurrently over one HTTP/2 stream, between a local application and a  *)
(* target that may close, break or stop reading at any time.               *)
(***************************************************************************)
EXTENDS ServerRelay, ClientRelay

CONSTANTS
    EagerTimeouts,     \* a timer may fire whenever it is armed; otherwise
                       \* only when nothing else in the system can happen
    CanLose,           \* the HTTP/2 connection may be lost
    AppBehaviours,     \* which applications read, close and break
    OtherClientFrames, \* how another client program may end its uploads
    OtherServerFrames  \* how another server program may end the flow

vars == <<stream, sockets, server, client>>

Init == StreamInit /\ ServerInit /\ ClientInit /\ apps \in AppBehaviours

\* The connection dies: each side keeps a prefix of what was sent to it.
Lose ==
    /\ CanLose /\ ~lost
    /\ lost' = TRUE
    /\ \E m \in 0..Len(up), n \in 0..Len(down) :
        /\ up' = Put(SubSeq(up, 1, m), <<RST>>)
        /\ down' = Put(SubSeq(down, 1, n), <<RST>>)
    /\ UNCHANGED <<sockets, server, client>>

Server == ServerProgress /\ UNCHANGED client
Client == ClientProgress /\ UNCHANGED server

MayTimeOut == EagerTimeouts \/ ~ENABLED (Server \/ Client)

Timeout ==
    /\ MayTimeOut
    /\ \/ ServerTimers /\ UNCHANGED client
       \/ ClientTimers /\ UNCHANGED server

Others ==
    \/ \E t \in OtherServerFrames : OtherServerEnds(t) /\ UNCHANGED client
    \/ \E t \in OtherClientFrames : OtherClientEnds(t) /\ UNCHANGED server

AllDone == s_state = "done" /\ c_state = "done"

Next == Server \/ Client \/ Timeout \/ Others \/ (~AllDone /\ Lose)
            \/ (AllDone /\ UNCHANGED vars)

Spec == Init /\ [][Next]_vars

-----------------------------------------------------------------------------
TypeOK == StreamTypeOK /\ ServerTypeOK /\ ClientTypeOK

Aligned(buf, ch) ==
    LET pieces == buf \o SelectSeq(ch, IsPiece)
    IN  \A i \in DOMAIN pieces :
            /\ pieces[i].piece = ((i - 1) % Pieces) + 1
            /\ pieces[i].piece > 1 => pieces[i].frame = pieces[i - 1].frame

\* What a side has received and what is on its way to it is a run of whole
\* frames, up to the one being sent: a branch of select! that wins while a
\* frame is half received or half sent neither loses nor repeats a piece.
FramesAligned ==
    /\ s_state # "done" => Aligned(recv_buf, up)
    /\ c_state # "done" => Aligned(c_buf, down)

ChunksIn(ch) ==
    LET ends == SelectSeq(ch, LAMBDA i : i.frame.type = "TcpData"
                                            /\ i.piece = Pieces)
    IN  [k \in DOMAIN ends |-> ends[k].frame.n]

\* relay_halves_and_tunnel never sends a false grpc-status 0: when trailers are
\* on the way to a client that still relays, the target has ended and all its
\* data is delivered or ahead of the trailers.
TrailersMeanComplete ==
    c_state = "relay" /\ InTransit(down, TRAILERS) =>
        /\ target_eof
        /\ got["local"] \o d_write \o ChunksIn(down)
            = [k \in 1..read["target"] |-> k]

\* A relay_h2 that returns Graceful other than by its idle timer has written to
\* the local socket everything the server read from the target.
GracefulIsComplete ==
    close = "Graceful" /\ c_state = "done" => Len(got["local"]) = read["target"]

Other(e) == IF e = "local" THEN "target" ELSE "local"

\* The relay at end e passed an end on without reading one there: only another
\* program does, with a frame that closes the flow or without any.
ClosedByRelay(e) ==
    ~eof[e] /\ IF e = "local" THEN upload = "done" ELSE target_eof

\* The relays of this program pass on only ends that they read.
EndsAreRead == \A e \in Ends : ~ClosedByRelay(e)

\* The write half of the socket at the other end was shut down.
Shown(e) == IF e = "local" THEN target_fin ELSE local_fin

Pipe == INSTANCE DuplexPipe WITH
    Writers <- Ends,
    taken <- read,
    ended <- eof,
    closed <- [e \in Ends |-> ClosedByRelay(e)],
    given <- [e \in Ends |-> got[Other(e)]],
    shown <- [e \in Ends |-> Shown(e)]

\* The two relays together are a duplex pipe: each application gets what the
\* other wrote, in order, and its socket is shut down for writing only after
\* all of that, when the other ended its writes or the program at the far side
\* closed the flow.  (The end an application sees because a relay returned and
\* dropped its socket is not counted.)
ImplementsDuplexPipe == Pipe!Spec

-----------------------------------------------------------------------------
Refused == lost \/ reply = "failure"

\* While timers only fire on a silent flow, an application that ends its
\* writes gets its half-close through to a reader, even if it never reads
\* what comes the other way: a stalled direction does not hold up the other.
HalfCloseArrived ==
    \A e \in Ends :
        e \in apps.closes /\ Other(e) \in apps.reads /\ apps.breaks = {} => Refused \/ Shown(e)

\* When both read and both end, both relays return without error and without
\* a timer, whichever direction ended first.
CleanCloseWasGraceful ==
    apps = [reads |-> Ends, closes |-> Ends, breaks |-> {}]
        => Refused \/ (AllDone /\ close = "Graceful" /\ s_result = "ok")
=============================================================================
