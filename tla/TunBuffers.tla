----------------------------- MODULE TunBuffers -----------------------------
(***************************************************************************)
(* The packet queues of the TUN runtime and the shared gauges that report  *)
(* them.  The reader, the actor and the writer move packets; every gauge   *)
(* update is its own atomic step, so updates of different tasks and the    *)
(* loads of a snapshot interleave.  A packet counts as one MTU.            *)
(***************************************************************************)
EXTENDS Integers, Sequences

CONSTANT Depth   \* packet_queue_depth

Tasks == {"reader", "actor", "writer", "monitor"}

VARIABLES q,      \* packets in the queues and in the tasks' hands; slots and permits
          gauge,  \* the atomics
          todo,   \* task -> atomic steps left of its operation
          reg,    \* task -> the value it has computed
          seen,   \* task -> the peak it has loaded
          top,    \* the highest value a finished update of the peak was given
          snap,   \* what the monitor has loaded
          turn    \* where the actor is in a turn of Runtime::run

vars == <<q, gauge, todo, reg, seen, top, snap, turn>>

Counters_new == [tracked |-> 0, actor |-> 0, peak |-> 0, in |-> 0, peak_in |-> 0, out |-> 0, peak_out |-> 0]

Init ==
    /\ q = [reader |-> 0, reserved |-> 0, ingress |-> 0, hand |-> 0, incoming |-> 0, outgoing |-> 0,
            permits |-> Depth, egress |-> 0, writer |-> 0]
    /\ gauge = Counters_new
    /\ todo = [t \in Tasks |-> << >>] /\ reg = [t \in Tasks |-> 0] /\ seen = [t \in Tasks |-> 0]
    /\ top = 0 /\ snap = Counters_new /\ turn = "select"

\* An atomic step: what it does and to which gauge or queues.
Op(name, on) == <<[op |-> name, on |-> on, value |-> 0]>>
Move(deltas) == <<[op |-> "move", on |-> deltas, value |-> 0]>>
Peak(p)      == Op("peak_load", p) \o Op("peak_cas", p)

add_tracked_bytes    == Op("add", "tracked") \o Op("plus", "actor") \o Peak("peak")
remove_tracked_bytes == Op("saturating_sub", "tracked")
set_actor_buffered_bytes(n) ==
    <<[op |-> "store", on |-> "actor", value |-> n]>> \o Op("plus", "tracked") \o Peak("peak")

\* Mutant: a CAS that loses gives up.
update_peak_Once(t, p) ==
    /\ gauge' = IF reg[t] > seen[t] /\ gauge[p] = seen[t] THEN [gauge EXCEPT ![p] = reg[t]] ELSE gauge
    /\ todo' = [todo EXCEPT ![t] = Tail(@)]
    /\ top' = IF p = "peak" /\ reg[t] > top THEN reg[t] ELSE top
    /\ seen' = [seen EXCEPT ![t] = 0]

\* The loop of update_peak: over when the peak is no lower, or when the exchange wins.
update_peak(t, p) ==
    IF reg[t] > seen[t] /\ gauge[p] # seen[t]
    THEN seen' = [seen EXCEPT ![t] = gauge[p]] /\ UNCHANGED <<gauge, todo, top>>
    ELSE /\ gauge' = IF reg[t] > seen[t] THEN [gauge EXCEPT ![p] = reg[t]] ELSE gauge
         /\ todo' = [todo EXCEPT ![t] = Tail(@)]
         /\ top' = IF p = "peak" /\ reg[t] > top THEN reg[t] ELSE top
         /\ seen' = [seen EXCEPT ![t] = 0]

Atomic(t) ==
    /\ todo[t] # << >>
    /\ LET s == Head(todo[t]) IN
       IF s.op = "peak_cas"
       THEN /\ update_peak(t, s.on)
            /\ reg' = IF todo' # todo THEN [reg EXCEPT ![t] = 0] ELSE reg
            /\ UNCHANGED <<q, snap, turn>>
       ELSE /\ todo' = [todo EXCEPT ![t] = Tail(@)]
            /\ gauge' = CASE s.op = "add"   -> [gauge EXCEPT ![s.on] = @ + 1]
                          [] s.op = "sub"   -> [gauge EXCEPT ![s.on] = @ - 1]
                          [] s.op = "saturating_sub" -> [gauge EXCEPT ![s.on] = IF @ = 0 THEN 0 ELSE @ - 1]
                          [] s.op = "store" -> [gauge EXCEPT ![s.on] = s.value]
                          [] OTHER          -> gauge
            /\ reg' = [reg EXCEPT ![t] = CASE Len(todo[t]) = 1 -> 0
                                           [] Len(todo[t]) > 1 /\ s.op \in {"add", "store"} -> gauge'[s.on]
                                           [] Len(todo[t]) > 1 /\ s.op = "plus" -> @ + gauge[s.on]
                                           [] OTHER -> @]
            /\ seen' = IF s.op = "peak_load" THEN [seen EXCEPT ![t] = gauge[s.on]] ELSE seen
            /\ snap' = IF s.op = "load" THEN [snap EXCEPT ![s.on] = gauge[s.on]] ELSE snap
            /\ q' = IF s.op = "move" THEN [k \in DOMAIN q |-> IF k \in DOMAIN s.on THEN q[k] + s.on[k] ELSE q[k]] ELSE q
            /\ UNCHANGED <<top, turn>>

\* A task that is free does something to the queues and goes on with atomic steps.
Free(t) == todo[t] = << >>
Does(t, now, ops) == q' = now /\ todo' = [todo EXCEPT ![t] = ops] /\ UNCHANGED <<gauge, reg, seen, top, snap>>

-----------------------------------------------------------------------------
\* packet_reader_task: a packet is read and tracked, then waits for a slot.
ReaderReceives == Free("reader") /\ q.reader = 0 /\ Does("reader", [q EXCEPT !.reader = 1], add_tracked_bytes)

\* Mutant: the queue gauge is raised once the packet is in the queue.
ReaderQueues_Late ==
    /\ Free("reader") /\ q.reader = 1 /\ q.ingress < Depth
    /\ Does("reader", [q EXCEPT !.reserved = 1],
            Move([ingress |-> 1, reserved |-> -1, reader |-> -1]) \o Op("add", "in") \o Peak("peak_in"))

\* The slot is reserved, then counted, then filled.
ReaderQueues ==
    /\ Free("reader") /\ q.reader = 1 /\ q.ingress < Depth
    /\ Does("reader", [q EXCEPT !.reserved = 1],
            Op("add", "in") \o Peak("peak_in") \o Move([ingress |-> 1, reserved |-> -1, reader |-> -1]))

-----------------------------------------------------------------------------
(* A turn of the actor: the select!, poll_engine, flush_device_output until *)
(* nothing is left or no permit is, refresh_actor_buffered_bytes.           *)

Acts(from, to) == Free("actor") /\ turn = from /\ turn' = to

\* handle_packet: the packet leaves the queue, its lease ends, the device admits it if
\* it has room.
handle_packet ==
    /\ Acts("select", "poll") /\ q.ingress > 0
    /\ Does("actor", [q EXCEPT !.ingress = @ - 1, !.hand = 1],
            Op("sub", "in") \o remove_tracked_bytes
            \o Move([hand |-> -1, incoming |-> IF q.incoming < Depth THEN 1 ELSE 0]))

\* An event, a tick or the end of a task.
OtherStimulus == Acts("select", "poll") /\ Does("actor", q, << >>)

\* The device lends the engine one output slot for each packet it takes or emits.
poll_engine ==
    /\ Acts("poll", "flush")
    /\ \E taken \in 0 .. q.incoming, emitted \in 0 .. Depth - q.outgoing :
         /\ q.outgoing = Depth => taken = 0
         /\ Does("actor", [q EXCEPT !.incoming = @ - taken, !.outgoing = @ + emitted], << >>)

\* Mutant: the channel alone bounds the packets on their way out.
flush_device_output_NoPermit ==
    \/ /\ Acts("flush", "flush") /\ q.outgoing > 0 /\ q.egress < Depth
       /\ Does("actor", [q EXCEPT !.outgoing = @ - 1, !.hand = 1],
               add_tracked_bytes \o Op("add", "out") \o Peak("peak_out") \o Move([hand |-> -1, egress |-> 1]))
    \/ /\ Acts("flush", "refresh") /\ (q.outgoing = 0 \/ q.egress = Depth)
       /\ Does("actor", q, << >>)

\* A packet is tracked, then it needs a permit, or else goes back to the front of the
\* device queue, which ends the loop.
flush_device_output ==
    \/ /\ Acts("flush", "flush") /\ q.outgoing > 0 /\ q.permits > 0
       /\ Does("actor", [q EXCEPT !.outgoing = @ - 1, !.hand = 1, !.permits = @ - 1],
               add_tracked_bytes \o Op("add", "out") \o Peak("peak_out") \o Move([hand |-> -1, egress |-> 1]))
    \/ /\ Acts("flush", "refresh") /\ q.outgoing > 0 /\ q.permits = 0
       /\ Does("actor", [q EXCEPT !.outgoing = @ - 1, !.hand = 1],
               add_tracked_bytes \o remove_tracked_bytes \o Move([hand |-> -1, outgoing |-> 1]))
    \/ Acts("flush", "refresh") /\ q.outgoing = 0 /\ Does("actor", q, << >>)

refresh_actor_buffered_bytes ==
    Acts("refresh", "select") /\ Does("actor", q, set_actor_buffered_bytes(q.incoming + q.outgoing))

-----------------------------------------------------------------------------
\* packet_writer_task: the permit and the lease live until the write is over and counted.
WriterTakes ==
    /\ Free("writer") /\ q.writer = 0 /\ q.egress > 0
    /\ Does("writer", [q EXCEPT !.egress = @ - 1, !.writer = 1], << >>)

\* Mutant: the lease of a sent packet is not given back.
WriterSends_Leak ==
    Free("writer") /\ q.writer = 1 /\ Does("writer", q, Op("sub", "out") \o Move([writer |-> -1, permits |-> 1]))

WriterSends ==
    /\ Free("writer") /\ q.writer = 1
    /\ Does("writer", q, Op("sub", "out") \o remove_tracked_bytes \o Move([writer |-> -1, permits |-> 1]))

\* Counters::snapshot loads one atomic after another, into values of its own.
LoadOrder == Op("load", "tracked") \o Op("load", "actor") \o Op("load", "in") \o Op("load", "peak_in")
             \o Op("load", "out") \o Op("load", "peak_out") \o Op("load", "peak")
snapshot ==
    /\ Free("monitor") /\ todo' = [todo EXCEPT !["monitor"] = LoadOrder] /\ snap' = Counters_new
    /\ UNCHANGED <<q, gauge, reg, seen, top>>

\* Mutant: the peak is reported as it was loaded.
current_and_peak_Raw(current, peak) == <<current, peak>>

current_and_peak(current, peak) == <<current, IF peak > current THEN peak ELSE current>>
Bounded(pair) == [i \in 1 .. 2 |-> IF pair[i] > Depth THEN Depth ELSE pair[i]]

Report == [buffered |-> current_and_peak(snap.tracked + snap.actor, snap.peak),
           in |-> Bounded(current_and_peak(snap.in, snap.peak_in)),
           out |-> Bounded(current_and_peak(snap.out, snap.peak_out))]

Next ==
    \/ \E t \in Tasks : Atomic(t)
    \/ handle_packet \/ OtherStimulus \/ poll_engine \/ flush_device_output
    \/ refresh_actor_buffered_bytes
    \/ (ReaderReceives \/ ReaderQueues \/ WriterTakes \/ WriterSends \/ snapshot) /\ UNCHANGED turn

Spec == Init /\ [][Next]_vars

-----------------------------------------------------------------------------
Tracked == q.reader + q.ingress + q.egress + q.writer
Packets == Tracked + q.hand + q.incoming + q.outgoing
Quiet   == \A t \in Tasks : Free(t)

\* The four queues, the packet the reader waits with and the one the actor is moving are
\* all there is, however slow the writer: one packet above the share of four queues and
\* one packet that buffer_capacity_bytes sets aside.  The gauges never say more.
WithinCapacityShare == Packets <= 4 * Depth + 2 /\ gauge.tracked + gauge.actor <= 4 * Depth + 2

\* Between operations the leases add up to the packets that are tracked, and each queue
\* gauge is the length of its queue: nothing is counted twice, lost or left behind.
GaugesAreExact ==
    Quiet => /\ gauge.tracked = Tracked
             /\ gauge.in = q.ingress
             /\ gauge.out = q.egress + q.writer

\* A queue gauge is decremented with fetch_sub, which wraps: it never goes below zero,
\* because a packet is counted before the other side can see it.
GaugesNeverWrap == gauge.in >= 0 /\ gauge.out >= 0

\* The recorded peak is at least every value it was raised to, although the three tasks
\* raise it at the same time.
PeakIsKept == gauge.peak >= top

\* A snapshot never shows more than its peak, nor more than a queue can hold, even when
\* it is taken between the steps of the others.
SnapshotIsConsistent ==
    Free("monitor") => /\ \A k \in DOMAIN Report : Report[k][1] <= Report[k][2]
                       /\ Report.in[2] <= Depth /\ Report.out[2] <= Depth
=============================================================================
