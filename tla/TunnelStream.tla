---------------------------- MODULE TunnelStream ----------------------------
(***************************************************************************)
(* What lies between the two relays of one TCP flow and at their far ends: *)
(* the two directions of an HTTP/2 stream (the h2 crate), and the two TCP  *)
(* sockets (tokio), one to the local application and one to the target.    *)
(* Both are modelled from how the relays use them.                         *)
(*                                                                         *)
(* A Maverick frame is encoded into Pieces pieces.  The h2 stream accepts  *)
(* a piece when its receive window has room, keeps the pieces in order and *)
(* may cut a frame anywhere.  RST, END and TRAILERS travel in order behind *)
(* the pieces and need no window.                                          *)
(***************************************************************************)
EXTENDS Naturals, Sequences

CONSTANTS
    Pieces,        \* pieces a frame is cut into by flow control
    Window,        \* pieces the peer accepts before it reads some
    PadsFrames,    \* shaping is on: a Padding frame goes before each frame
    MaxChunks,     \* bound: reads of data a relay gets from a socket
    SocketBuffer   \* writes an application that never reads absorbs

VARIABLES
    up,      \* client to server: what was sent and not yet read
    down,    \* server to client
    lost,    \* the HTTP/2 connection is gone
    read,    \* chunks read so far from the socket of each end
    eof,     \* the relay read end of file from that socket
    got,     \* chunks written into the socket of each end
    apps     \* how the two applications behave

Ends == {"local", "target"}
stream == <<up, down, lost>>
sockets == <<read, eof, got, apps>>

Control(t) == [type |-> t, n |-> 0]
Data(i) == [type |-> "TcpData", n |-> i]
FrameTypes == {"OpenTcp", "WindowUpdate", "TcpFin", "TcpReset", "CloseFlow",
               "Error", "Padding"}
Frames == {Control(t) : t \in FrameTypes} \cup {Data(i) : i \in 1..MaxChunks}

Piece(f, k) == [frame |-> f, piece |-> k]
Mark(t) == Piece(Control(t), 0)
RST == Mark("RST")
END == Mark("END")
TRAILERS == Mark("TRAILERS")
Items == {Piece(f, k) : f \in Frames, k \in 1..Pieces}
            \cup {RST, END, TRAILERS}

\* The pieces send_data will hand over one by one, padding first.
encode_grpc_frame(f) == [k \in 1..Pieces |-> Piece(f, k)]
WithPadding(f) ==
    (IF PadsFrames /\ f.type # "Error"
     THEN encode_grpc_frame(Control("Padding")) ELSE <<>>)
        \o encode_grpc_frame(f)

IsPiece(item) == item.piece # 0

\* Capacity the receiver has granted and the sender has not used.
HasCapacity(ch) == Len(SelectSeq(ch, IsPiece)) < Window

InTransit(ch, item) == \E i \in 1..Len(ch) : ch[i] = item

\* Nothing follows a reset.
Put(ch, items) == IF InTransit(ch, RST) THEN ch ELSE ch \o items

\* The peer's reset (or the loss of the connection) may already be known.
ResetSeen(ch) == InTransit(ch, RST)

\* The socket of end e takes another write.
CanWrite(e) == e \in apps.reads \/ Len(got[e]) < SocketBuffer

\* The socket of end e has bytes, or an end of file, to read.
HasData(e) == ~eof[e] /\ read[e] < MaxChunks
AtEof(e) == ~eof[e] /\ e \in apps.closes

StreamInit ==
    /\ up = <<>> /\ down = <<>> /\ lost = FALSE
    /\ read = [e \in Ends |-> 0]
    /\ eof = [e \in Ends |-> FALSE]
    /\ got = [e \in Ends |-> <<>>]

\* Decoding consumes a whole frame; buf holds the pieces of at most one.
Received(buf, ch) == Append(buf, Head(ch))
WholeFrame(buf, ch) == IsPiece(Head(ch)) /\ Len(buf) + 1 = Pieces

StreamTypeOK ==
    /\ up \in Seq(Items) /\ down \in Seq(Items) /\ lost \in BOOLEAN
    /\ read \in [Ends -> 0..MaxChunks] /\ eof \in [Ends -> BOOLEAN]
    /\ got \in [Ends -> Seq(1..MaxChunks)]
    /\ apps \in [reads : SUBSET Ends, closes : SUBSET Ends,
                 breaks : SUBSET Ends]
=============================================================================
