-------------------------- MODULE TunRuntimeProofs --------------------------
(***************************************************************************)
(* Proofs about TunRuntime for every number of flows, associations,        *)
(* queries, packets and callers and every depth of the queues.  A turn of  *)
(* the actor is a chain of handlers on its record; each handler keeps the  *)
(* record's type and, once they are on it, failure and draining (Later),   *)
(* and the lemma TurnShape says what is left of a turn.  The counting      *)
(* lemmas follow the guard of a DNS query from its worker into the queue   *)
(* of events.  IInv is the inductive invariant; the last section draws the *)
(* theorems from it.                                                       *)
(***************************************************************************)
EXTENDS TunRuntime, FiniteSetTheorems, TLAPS

WorkerStates == {"none", "opening", "serving", "leaving", "finished", "panic"}
InQueue(es, t) == \E i \in DOMAIN es : es[i].type = t
Queued(t) == InQueue(events, t)
Holding == IF writer \in {"send", "error"} THEN 1 ELSE 0

\* The egress gauge counts the queue and the packet the writer holds; a writer that
\* panicked has left at least one packet in it.
EgressExact ==
    /\ egress + Holding <= packet_queue_depth
    /\ ~EgressClosed => egress_depth = egress + Holding
    /\ writer = "panicked" => egress_depth > 0

\* A query asks and answers, it does not serve.
QueriesAsk == \A q \in Queries : worker[q] # "serving"

\* Why the runtime drains and why a device task has ended.
Causes ==
    /\ actor.reader_eof_seen \/ Queued("PacketEof") => reader = "done"
    /\ Draining(actor) => cancel \/ actor.reader_eof_seen \/ actor.fatal_failure # "none"
    /\ phase # "run" => cancel \/ Draining(actor)
    /\ io_stop => phase # "run"
    /\ ~cancel /\ ~io_stop /\ writer \in {"drain", "drop", "done"} =>
           Queued("PacketWriteFailed") \/ actor.fatal_failure # "none"

\* The end of the runtime is known: it stopped, or a failure is recorded.
Ended == failure # "none" \/ state = "Stopped"
Published == {"clear", "notify", "finished"}

\* The end is published before anybody is told of it, and only the task publishes it.
EndIsKnown ==
    /\ state = "Failed" => failure # "none"
    /\ state = "Stopped" => phase \in Published
    /\ phase \in Published => Ended
    /\ \A c \in Callers : call[c].at = "report" \/ call[c].already_stopped => Ended
    /\ \A c \in Callers : call[c].at \notin {"idle", "called"} => cancel

IInv == TypeOK /\ EgressExact /\ QueriesAsk /\ DnsGaugeExact /\ Causes /\ EndIsKnown /\ OkMeansStopped

-----------------------------------------------------------------------------
\* The handlers of a turn

\* What no handler after the stimulus undoes: it adds a failure or none, and begins to
\* drain only because of one.
Later(a, b) ==
    /\ b.reader_eof_seen = a.reader_eof_seen
    /\ a.fatal_failure # "none" => b.fatal_failure # "none"
    /\ Draining(a) => Draining(b)
    /\ Draining(b) => Draining(a) \/ b.fatal_failure # "none"

\* begin_draining drains, and leaves alone what was seen, what failed and what waits.
LEMMA DrainingBegins ==
    ASSUME NEW a \in Runtime, NEW immediate \in BOOLEAN
    PROVE  LET b == begin_draining(a, immediate)
           IN  /\ b \in Runtime /\ Draining(b)
               /\ b.reader_eof_seen = a.reader_eof_seen /\ b.fatal_failure = a.fatal_failure
               /\ b.outgoing = a.outgoing /\ b.incoming = a.incoming
               /\ b.tcp = a.tcp /\ b.udp = a.udp /\ b.pending_dns = a.pending_dns
BY DEF begin_draining, Runtime, Draining

\* record_failure records one and drains.
LEMMA FailureRecorded ==
    ASSUME NEW a \in Runtime, NEW f \in PacketRuntimeFailure
    PROVE  LET b == record_failure(a, f)
           IN  /\ b \in Runtime /\ Draining(b) /\ b.fatal_failure # "none"
               /\ b.reader_eof_seen = a.reader_eof_seen
               /\ b.outgoing = a.outgoing /\ b.incoming = a.incoming
               /\ b.tcp = a.tcp /\ b.udp = a.udp /\ b.pending_dns = a.pending_dns
<1>. DEFINE c == [a EXCEPT !.fatal_failure = IF @ = "none" THEN f ELSE @]
<1>1. /\ c \in Runtime /\ c.fatal_failure # "none" /\ c.reader_eof_seen = a.reader_eof_seen
      /\ c.outgoing = a.outgoing /\ c.incoming = a.incoming
      /\ c.tcp = a.tcp /\ c.udp = a.udp /\ c.pending_dns = a.pending_dns
    BY DEF Runtime, PacketRuntimeFailure
<1>2. record_failure(a, f) = begin_draining(c, TRUE)
    BY DEF record_failure
<1>. HIDE DEF c
<1>3. LET b == begin_draining(c, TRUE)
      IN  /\ b \in Runtime /\ Draining(b)
          /\ b.reader_eof_seen = c.reader_eof_seen /\ b.fatal_failure = c.fatal_failure
          /\ b.outgoing = c.outgoing /\ b.incoming = c.incoming
          /\ b.tcp = c.tcp /\ b.udp = c.udp /\ b.pending_dns = c.pending_dns
    <2>1. TRUE \in BOOLEAN
        OBVIOUS
    <2>. QED BY <1>1, <2>1, DrainingBegins
<1>. QED BY <1>1, <1>2, <1>3

\* Reaping the workers fails for one that panicked and changes nothing else.
LEMMA ReapedActor ==
    ASSUME NEW a \in Runtime, NEW w
    PROVE  LET b == reap_completed_tasks(a, w)
           IN  /\ b \in Runtime /\ Later(a, b)
               /\ b.outgoing = a.outgoing /\ b.incoming = a.incoming
               /\ b.tcp = a.tcp /\ b.udp = a.udp /\ b.pending_dns = a.pending_dns
<1>1. CASE \E x \in Work : w[x] = "panic"
    <2>1. "Task" \in PacketRuntimeFailure
        BY DEF PacketRuntimeFailure
    <2>. QED BY <1>1, <2>1, FailureRecorded DEF reap_completed_tasks, Later
<1>2. CASE ~\E x \in Work : w[x] = "panic"
    BY <1>2 DEF reap_completed_tasks, Later
<1>. QED BY <1>1, <1>2

\* The engine, the sockets and the responses leave the failure and the deadline alone.
LEMMA DrivenActor ==
    ASSUME NEW a \in Runtime, NEW left \in 0..packet_queue_depth, NEW filled \in 0..packet_queue_depth,
           NEW closed, NEW started \in SUBSET (Associations \cup Queries), NEW held \in 0..a.pending_dns
    PROVE  LET c == send_udp_responses(drain_udp_requests(
                        drive_tcp(poll_engine(a, left, filled), closed), started), held)
           IN  c \in Runtime /\ Later(a, c)
<1>. DEFINE b1 == poll_engine(a, left, filled)
            b2 == drive_tcp(b1, closed)
            b3 == drain_udp_requests(b2, started)
            b4 == send_udp_responses(b3, held)
<1>. USE DEF Later, Draining
<1>1. b1 \in Runtime /\ Later(a, b1) /\ b1.pending_dns = a.pending_dns
    BY DEF poll_engine, Runtime
<1>2. b2 \in Runtime /\ Later(b1, b2) /\ b2.pending_dns = b1.pending_dns
    <2>. HIDE DEF b1
    <2>. QED BY <1>1 DEF drive_tcp, Runtime
<1>3. b3 \in Runtime /\ Later(b2, b3) /\ b3.pending_dns = b2.pending_dns
    <2>. HIDE DEF b2
    <2>. QED BY <1>2 DEF drain_udp_requests, Runtime
<1>4. b4 \in Runtime /\ Later(b3, b4)
    <2>. HIDE DEF b3
    <2>1. held \in 0..Cardinality(Queries)
        <3>1. Cardinality(Queries) \in Nat
            BY TunAssumption, FS_CardinalityType
        <3>2. a.pending_dns \in 0..Cardinality(Queries)
            BY DEF Runtime
        <3>. QED BY <3>1, <3>2
    <2>. QED BY <1>3, <2>1 DEF send_udp_responses, Runtime
<1>5. Later(a, b4)
    <2>. HIDE DEF b1, b2, b3, b4
    <2>. QED BY <1>1, <1>2, <1>3, <1>4
<1>. QED BY <1>4, <1>5

\* Flushing sends no more than the permits allow, or fails on a closed queue.
LEMMA FlushedActor ==
    ASSUME NEW a \in Runtime, TypeOK, EgressExact
    PROVE  /\ flush_device_output(a) \in Runtime /\ Later(a, flush_device_output(a))
           /\ Flushed(a) \in Nat /\ egress + Flushed(a) + Holding <= packet_queue_depth
<1>1. /\ a.outgoing \in 0..packet_queue_depth /\ packet_queue_depth \in Nat
      /\ egress \in Nat /\ Holding \in 0..1 /\ egress + Holding <= packet_queue_depth
    BY TunAssumption DEF TypeOK, EgressExact, Holding, Runtime
<1>2. Permits = packet_queue_depth - egress - Holding
    BY DEF Permits, Holding
<1>3. Flushed(a) \in 0..a.outgoing /\ egress + Flushed(a) + Holding <= packet_queue_depth
    BY <1>1, <1>2 DEF Flushed
<1>4. flush_device_output(a) \in Runtime /\ Later(a, flush_device_output(a))
    <2>1. CASE a.outgoing = 0
        BY <2>1 DEF flush_device_output, Later
    <2>2. CASE a.outgoing # 0 /\ EgressClosed
        <3>. DEFINE b == record_failure(a, "PacketWrite")
        <3>1. "PacketWrite" \in PacketRuntimeFailure
            BY DEF PacketRuntimeFailure
        <3>2. /\ b \in Runtime /\ Draining(b) /\ b.fatal_failure # "none"
              /\ b.reader_eof_seen = a.reader_eof_seen /\ b.outgoing = a.outgoing
            BY <3>1, FailureRecorded
        <3>3. a.outgoing > 0
            BY <1>1, <2>2
        <3>4. flush_device_output(a) = [b EXCEPT !.outgoing = @ - 1]
            BY <2>2, <3>3 DEF flush_device_output
        <3>5. b.outgoing - 1 \in 0..packet_queue_depth
            BY <1>1, <2>2, <3>2
        <3>. HIDE DEF b
        <3>. QED BY <3>2, <3>4, <3>5 DEF Runtime, Later, Draining
    <2>3. CASE a.outgoing # 0 /\ ~EgressClosed
        <3>1. flush_device_output(a) = [a EXCEPT !.outgoing = @ - Flushed(a)]
            BY <2>3 DEF flush_device_output
        <3>2. a.outgoing - Flushed(a) \in 0..packet_queue_depth
            BY <1>1, <1>3
        <3>. QED BY <3>1, <3>2 DEF Runtime, Later, Draining
    <2>. QED BY <2>1, <2>2, <2>3
<1>. QED BY <1>1, <1>3, <1>4

\* What a turn with the record a and the workers w does, whatever its stimulus was: how
\* it starts workers and counts queries, that the record only moves on, that the gauge
\* of the egress queue stays exact, and what it has seen when it stops.
TurnStarts(w, gauge) ==
    \E started \in SUBSET (Associations \cup Queries) :
      /\ worker' = Started(Reaped(w), started)
      /\ \A x \in started : Reaped(w)[x] = "none"
      /\ active_dns_queries' = gauge + Cardinality(started \cap Queries)
      /\ started \cap Queries # {} =>
             gauge + Cardinality(started \cap Queries) <= Cardinality(Queries)
TurnStops ==
    /\ phase' \in {phase, "cleanup"}
    /\ phase' # phase => Draining(actor')
    /\ phase' # phase /\ ~forced' => egress_depth' = 0 /\ ingress' = 0 /\ events' = <<>>

\* What a turn leaves behind: which queries it starts, whether it leaves the loop, and an
\* actor that is later than the one the stimulus made.
LEMMA TurnShape ==
    ASSUME NEW a \in Runtime, NEW w, NEW gauge, TypeOK, EgressExact, Turn(a, w, gauge)
    PROVE  /\ TurnStarts(w, gauge) /\ TurnStops
           /\ actor' \in Runtime /\ Later(a, actor')
           /\ EgressExact' /\ egress' \in 0..packet_queue_depth
           /\ egress_depth' \in 0..packet_queue_depth
           /\ state' \in {state, "Draining"} /\ forced' \in BOOLEAN
           /\ UNCHANGED <<failure, cancel, io_stop, reader, unread, writer, join, call>>
<1>1. PICK left \in 0..a.incoming, filled \in a.outgoing..packet_queue_depth,
           closed \in SUBSET a.tcp, started \in SUBSET ((Associations \cup Queries) \ a.udp),
           held \in 0..a.pending_dns, connected \in BOOLEAN :
      LET b == drive_tcp(poll_engine(reap_completed_tasks(a, w), left, filled), closed)
          c == send_udp_responses(drain_udp_requests(b, started), held)
          d == flush_device_output(c)
          v == Started(Reaped(w), started)
      IN  /\ MayPoll(a, left, filled) /\ MayStart(b, Reaped(w), started, a.incoming - left, gauge)
          /\ active_dns_queries' = gauge + Cardinality(started \cap Queries)
          /\ egress' = IF EgressClosed THEN egress ELSE egress + Flushed(c)
          /\ egress_depth' = IF EgressClosed THEN egress_depth ELSE egress_depth + Flushed(c)
          /\ actor' = d /\ worker' = v
          /\ state' = IF Draining(d) /\ ~Draining(actor) THEN "Draining" ELSE state
          /\ phase' = IF should_stop(d, v, connected) THEN "cleanup" ELSE phase
          /\ forced' = (forced \/ (should_stop(d, v, connected)
                                   /\ ~(quiescent(d, v) /\ ~connected)))
          /\ UNCHANGED <<failure, cancel, io_stop, reader, unread, writer, handle>>
    BY DEF Turn
<1>. DEFINE r == reap_completed_tasks(a, w)
            b == drive_tcp(poll_engine(r, left, filled), closed)
            c == send_udp_responses(drain_udp_requests(b, started), held)
            d == flush_device_output(c)
            v == Started(Reaped(w), started)
<1>2. r \in Runtime /\ Later(a, r) /\ r.pending_dns = a.pending_dns
    BY ReapedActor
<1>3. left \in 0..packet_queue_depth /\ filled \in 0..packet_queue_depth
    BY TunAssumption DEF Runtime
<1>4. c \in Runtime /\ Later(r, c)
    <2>. HIDE DEF r
    <2>1. held \in 0..r.pending_dns
        BY <1>2
    <2>. QED BY <1>2, <1>3, <2>1, DrivenActor
<1>5. /\ d \in Runtime /\ Later(c, d)
      /\ Flushed(c) \in Nat /\ egress + Flushed(c) + Holding <= packet_queue_depth
    <2>. HIDE DEF c
    <2>. QED BY <1>4, FlushedActor
<1>6. Later(a, d)
    <2>. HIDE DEF r, c, d
    <2>. QED BY <1>2, <1>4, <1>5 DEF Later
<1>7. TurnStarts(w, gauge)
    <2>1. MayStart(b, Reaped(w), started, a.incoming - left, gauge)
        BY <1>1
    <2>2. started \in SUBSET (Associations \cup Queries)
        OBVIOUS
    <2>3. worker' = Started(Reaped(w), started)
          /\ active_dns_queries' = gauge + Cardinality(started \cap Queries)
        BY <1>1
    <2>. HIDE DEF b
    <2>. QED BY <2>1, <2>2, <2>3 DEF MayStart, TurnStarts
<1>8. /\ actor' = d
      /\ phase' = IF should_stop(d, v, connected) THEN "cleanup" ELSE phase
      /\ forced' = (forced \/ (should_stop(d, v, connected)
                               /\ ~(quiescent(d, v) /\ ~connected)))
      /\ egress' = IF EgressClosed THEN egress ELSE egress + Flushed(c)
      /\ egress_depth' = IF EgressClosed THEN egress_depth ELSE egress_depth + Flushed(c)
      /\ state' \in {state, "Draining"}
      /\ UNCHANGED <<failure, cancel, io_stop, reader, unread, writer, join, call>>
    BY <1>1 DEF handle
<1>. HIDE DEF r, b, c, d, v
<1>9. TurnStops /\ forced' \in BOOLEAN
    <2>1. forced' \in BOOLEAN
        BY <1>8
    <2>2. phase' \in {phase, "cleanup"}
        BY <1>8
    <2>3. ASSUME phase' # phase
          PROVE  Draining(actor') /\ (~forced' => egress_depth' = 0 /\ ingress' = 0 /\ events' = <<>>)
        <3>1. should_stop(d, v, connected)
            BY <1>8, <2>3
        <3>2. Draining(d)
            BY <3>1 DEF should_stop
        <3>3. ~forced' => quiescent(d, v)
            BY <1>8, <3>1
        <3>. QED BY <1>8, <3>2, <3>3 DEF quiescent
    <2>. QED BY <2>1, <2>2, <2>3 DEF TurnStops
<1>10. /\ EgressExact' /\ egress' \in 0..packet_queue_depth
       /\ egress_depth' \in 0..packet_queue_depth
    <2>1. Holding' = Holding /\ EgressClosed' = EgressClosed /\ Holding \in 0..1
        BY <1>8 DEF Holding, EgressClosed
    <2>2. egress \in 0..packet_queue_depth /\ egress_depth \in 0..packet_queue_depth /\ packet_queue_depth \in Nat
        BY TunAssumption DEF TypeOK
    <2>3. CASE EgressClosed
        BY <1>8, <2>1, <2>2, <2>3 DEF EgressExact
    <2>4. CASE ~EgressClosed
        <3>1. egress' = egress + Flushed(c) /\ egress_depth' = egress' + Holding
            BY <1>5, <1>8, <2>1, <2>2, <2>4 DEF EgressExact
        <3>2. writer' # "panicked"
            BY <1>8, <2>4 DEF EgressClosed
        <3>. QED BY <1>5, <2>1, <2>2, <3>1, <3>2 DEF EgressExact
    <2>. QED BY <2>3, <2>4
<1>. QED BY <1>5, <1>6, <1>7, <1>8, <1>9, <1>10

-----------------------------------------------------------------------------
\* Counting: the guards in the queue of events and the queries at work

GuardSet(es) == {i \in DOMAIN es : es[i].type = "DnsResponse"}
LiveSet(w) == {q \in Queries : w[q] \in {"opening", "leaving"}}
IsResponse(e) == IF e.type = "DnsResponse" THEN 1 ELSE 0

\* The kinds of event; only those of a worker name it.
LEMMA EventTypes ==
    ASSUME NEW e \in EngineEvent
    PROVE  /\ e.type \in {"PacketReadFailed", "PacketWriteFailed", "PacketEof", "Done", "DnsResponse"}
           /\ e.type \in {"Done", "DnsResponse"} => e.of \in Work
BY DEF EngineEvent

\* The guards in a queue can be counted.
LEMMA GuardsFinite ==
    ASSUME NEW es \in Seq(EngineEvent)
    PROVE  IsFiniteSet(GuardSet(es)) /\ Cardinality(GuardSet(es)) \in Nat
<1>1. GuardSet(es) \in SUBSET (1..Len(es)) /\ Len(es) \in Nat
    BY DEF GuardSet
<1>2. IsFiniteSet(1..Len(es))
    BY <1>1, FS_Interval
<1>. QED BY <1>1, <1>2, FS_Subset, FS_CardinalityType

\* An event that is sent is behind the others, its guard with it.
LEMMA EventSent ==
    ASSUME NEW es \in Seq(EngineEvent), NEW e \in EngineEvent
    PROVE  /\ Append(es, e) \in Seq(EngineEvent) /\ Len(Append(es, e)) = Len(es) + 1
           /\ \A t : InQueue(Append(es, e), t) <=> InQueue(es, t) \/ e.type = t
           /\ Cardinality(GuardSet(Append(es, e))) = Cardinality(GuardSet(es)) + IsResponse(e)
<1>1. /\ Append(es, e) \in Seq(EngineEvent) /\ Len(es) \in Nat /\ DOMAIN es = 1..Len(es)
      /\ DOMAIN Append(es, e) = 1..(Len(es) + 1) /\ Append(es, e)[Len(es) + 1] = e
      /\ \A i \in 1..Len(es) : Append(es, e)[i] = es[i]
      /\ Len(Append(es, e)) = Len(es) + 1
    OBVIOUS
<1>. DEFINE as == Append(es, e)
            n == Len(es) + 1
<1>2. ASSUME NEW t
      PROVE  InQueue(as, t) <=> InQueue(es, t) \/ e.type = t
    <2>1. \A i \in 1..n : i = n \/ i \in 1..Len(es)
        BY <1>1
    <2>2. n \in 1..n /\ \A i \in 1..Len(es) : i \in 1..n
        BY <1>1
    <2>. QED BY <1>1, <2>1, <2>2 DEF InQueue
<1>3. GuardSet(as) = IF e.type = "DnsResponse" THEN GuardSet(es) \cup {n} ELSE GuardSet(es)
    <2>1. \A i : i \in 1..n <=> i = n \/ i \in 1..Len(es)
        BY <1>1
    <2>2. n \notin 1..Len(es)
        BY <1>1
    <2>. QED BY <1>1, <2>1, <2>2 DEF GuardSet
<1>4. n \notin GuardSet(es)
    BY <1>1 DEF GuardSet
<1>5. Cardinality(GuardSet(as)) = Cardinality(GuardSet(es)) + IsResponse(e)
    <2>1. IsFiniteSet(GuardSet(es)) /\ Cardinality(GuardSet(es)) \in Nat
        BY GuardsFinite
    <2>2. Cardinality(GuardSet(es) \cup {n}) = Cardinality(GuardSet(es)) + 1
        BY <1>4, <2>1, FS_AddElement
    <2>. QED BY <1>3, <2>1, <2>2 DEF IsResponse
<1>. QED BY <1>1, <1>2, <1>5

\* The event that is taken is the first one.
LEMMA EventTaken ==
    ASSUME NEW es \in Seq(EngineEvent), es # <<>>
    PROVE  /\ Tail(es) \in Seq(EngineEvent) /\ Len(Tail(es)) = Len(es) - 1
           /\ Head(es) \in EngineEvent
           /\ \A t : InQueue(es, t) <=> Head(es).type = t \/ InQueue(Tail(es), t)
           /\ Cardinality(GuardSet(Tail(es))) = Cardinality(GuardSet(es)) - IsResponse(Head(es))
<1>. DEFINE ts == Tail(es)
            G == GuardSet(es) \ {1}
<1>1. /\ ts \in Seq(EngineEvent) /\ Len(es) \in Nat /\ Len(es) >= 1 /\ DOMAIN es = 1..Len(es)
      /\ DOMAIN ts = 1..(Len(es) - 1) /\ es[1] = Head(es) /\ Head(es) \in EngineEvent
      /\ \A i \in 1..(Len(es) - 1) : ts[i] = es[i + 1]
      /\ Len(ts) = Len(es) - 1
    <2>1. Len(es) \in Nat /\ Len(es) >= 1 /\ DOMAIN es = 1..Len(es)
        OBVIOUS
    <2>2. es[1] = Head(es) /\ Head(es) \in EngineEvent
        BY <2>1
    <2>3. ts \in Seq(EngineEvent) /\ Len(ts) = Len(es) - 1
        OBVIOUS
    <2>4. DOMAIN ts = 1..(Len(es) - 1)
        BY <2>3
    <2>5. \A i \in 1..(Len(es) - 1) : ts[i] = es[i + 1]
        BY <2>1
    <2>. QED BY <2>1, <2>2, <2>3, <2>4, <2>5
<1>. HIDE DEF ts
<1>2. ASSUME NEW t
      PROVE  InQueue(es, t) <=> Head(es).type = t \/ InQueue(ts, t)
    <2>1. ASSUME NEW i \in 1..Len(es), es[i].type = t, i # 1
          PROVE  InQueue(ts, t)
        <3>1. i - 1 \in 1..(Len(es) - 1) /\ (i - 1) + 1 = i
            BY <1>1, <2>1
        <3>. QED BY <1>1, <2>1, <3>1 DEF InQueue
    <2>2. ASSUME NEW i \in 1..(Len(es) - 1), ts[i].type = t
          PROVE  InQueue(es, t)
        <3>1. i + 1 \in 1..Len(es)
            BY <1>1
        <3>. QED BY <1>1, <2>2, <3>1 DEF InQueue
    <2>3. 1 \in 1..Len(es)
        BY <1>1
    <2>. QED BY <1>1, <2>1, <2>2, <2>3 DEF InQueue
<1>3. IsFiniteSet(G) /\ Cardinality(G) = Cardinality(GuardSet(es)) - IsResponse(Head(es))
    <2>1. 1 \in GuardSet(es) <=> Head(es).type = "DnsResponse"
        <3>1. 1 \in 1..Len(es)
            BY <1>1
        <3>. QED BY <1>1, <3>1 DEF GuardSet
    <2>. QED BY <2>1, GuardsFinite, FS_RemoveElement DEF IsResponse
<1>4. ExistsBijection(G, GuardSet(ts))
    <2>. DEFINE f == [i \in G |-> i - 1]
    <2>1. \A i \in G : i \in 2..Len(es) /\ es[i].type = "DnsResponse"
        BY <1>1 DEF GuardSet
    <2>2. \A i \in G : f[i] \in GuardSet(ts)
        <3>1. ASSUME NEW i \in G
              PROVE  i - 1 \in GuardSet(ts)
            <4>1. i - 1 \in 1..(Len(es) - 1) /\ (i - 1) + 1 = i
                BY <1>1, <2>1
            <4>. QED BY <1>1, <2>1, <4>1 DEF GuardSet
        <3>. QED BY <3>1
    <2>3. \A i, j \in G : f[i] = f[j] => i = j
        BY <2>1
    <2>4. \A j \in GuardSet(ts) : \E i \in G : f[i] = j
        <3>1. ASSUME NEW j \in GuardSet(ts)
              PROVE  j + 1 \in G /\ (j + 1) - 1 = j
            <4>1. j \in 1..(Len(es) - 1) /\ ts[j].type = "DnsResponse"
                BY <1>1 DEF GuardSet
            <4>2. j + 1 \in 1..Len(es) /\ j + 1 # 1 /\ (j + 1) - 1 = j
                BY <1>1, <4>1
            <4>. QED BY <1>1, <4>1, <4>2 DEF GuardSet
        <3>. QED BY <3>1
    <2>5. f \in [G -> GuardSet(ts)]
        BY <2>2
    <2>. QED BY <2>3, <2>4, <2>5 DEF ExistsBijection, Bijection, Injection, Surjection, IsInjective
<1>5. Cardinality(GuardSet(ts)) = Cardinality(G)
    BY <1>3, <1>4, FS_Bijection
<1>. QED BY <1>1, <1>2, <1>3, <1>5 DEF ts

\* The queries at work can be counted.
LEMMA LiveFinite ==
    ASSUME NEW w
    PROVE  IsFiniteSet(LiveSet(w)) /\ Cardinality(LiveSet(w)) \in Nat
<1>1. LiveSet(w) \in SUBSET Queries
    BY DEF LiveSet
<1>. QED BY <1>1, TunAssumption, FS_Subset, FS_CardinalityType

\* Reaping takes no query that is at work; each query that is started is one more.
LEMMA QueriesStarted ==
    ASSUME NEW w \in [Work -> WorkerStates], NEW xs \in SUBSET (Associations \cup Queries),
           \A x \in xs : Reaped(w)[x] = "none", \A q \in Queries : w[q] # "serving"
    PROVE  LET v == Started(Reaped(w), xs)
           IN  /\ v \in [Work -> WorkerStates] /\ \A q \in Queries : v[q] # "serving"
               /\ Cardinality(LiveSet(v)) = Cardinality(LiveSet(w)) + Cardinality(xs \cap Queries)
               /\ Cardinality(xs \cap Queries) \in Nat
<1>. DEFINE v == Started(Reaped(w), xs)
            X == xs \cap Queries
<1>1. Queries \subseteq Work /\ xs \subseteq Work
    BY DEF Work
<1>2. /\ v \in [Work -> WorkerStates] /\ \A q \in Queries : v[q] # "serving"
    BY <1>1 DEF Started, Reaped, WorkerStates
<1>3. LiveSet(v) = LiveSet(w) \cup X
    BY <1>1 DEF Started, Reaped, LiveSet
<1>4. LiveSet(w) \cap X = {}
    BY <1>1 DEF Reaped, LiveSet
<1>5. IsFiniteSet(X) /\ Cardinality(X) \in Nat
    BY TunAssumption, FS_Subset, FS_CardinalityType
<1>6. Cardinality(LiveSet(v)) = Cardinality(LiveSet(w)) + Cardinality(X)
    <2>1. IsFiniteSet(LiveSet(w)) /\ Cardinality(LiveSet(w)) \in Nat
        BY LiveFinite
    <2>2. Cardinality(LiveSet(w) \cup X)
            = Cardinality(LiveSet(w)) + Cardinality(X) - Cardinality(LiveSet(w) \cap X)
        BY <1>5, <2>1, FS_Union
    <2>3. Cardinality(LiveSet(w) \cap X) = 0
        BY <1>4, FS_EmptySet
    <2>. HIDE DEF X
    <2>. QED BY <1>3, <1>5, <2>1, <2>2, <2>3
<1>. QED BY <1>2, <1>5, <1>6

\* A worker that moves counts as a query at work before it, after it, both or neither.
LEMMA QueryMoved ==
    ASSUME NEW w \in [Work -> WorkerStates], NEW x \in Work, NEW s
    PROVE  LET v == [w EXCEPT ![x] = s]
           IN  /\ x \in LiveSet(w) /\ x \notin LiveSet(v) =>
                      Cardinality(LiveSet(v)) = Cardinality(LiveSet(w)) - 1
               /\ (x \in LiveSet(w) <=> x \in LiveSet(v)) => LiveSet(v) = LiveSet(w)
<1>. DEFINE v == [w EXCEPT ![x] = s]
<1>1. \A q \in Queries : q # x => v[q] = w[q]
    BY DEF Work
<1>2. ASSUME x \in LiveSet(w), x \notin LiveSet(v)
      PROVE  LiveSet(v) = LiveSet(w) \ {x}
    <2>. HIDE DEF v
    <2>. QED BY <1>1, <1>2 DEF LiveSet
<1>3. ASSUME x \in LiveSet(w) <=> x \in LiveSet(v)
      PROVE  LiveSet(v) = LiveSet(w)
    <2>. HIDE DEF v
    <2>. QED BY <1>1, <1>3 DEF LiveSet
<1>. QED BY <1>2, <1>3, LiveFinite, FS_RemoveElement

\* The two counts of the gauge, as the model writes them.
LEMMA Counts ==
    ASSUME TypeOK
    PROVE  LiveQueries = Cardinality(LiveSet(worker)) /\ Guards = Cardinality(GuardSet(events))
<1>1. Queries \cap DOMAIN worker = Queries
    BY DEF TypeOK, Work
<1>. QED BY <1>1 DEF LiveQueries, LiveSet, Guards, GuardSet

-----------------------------------------------------------------------------
\* The invariant over a turn

\* A turn keeps the invariant when its stimulus leaves a record, workers, a gauge and a
\* queue for which it holds.
LEMMA TurnKeeps ==
    ASSUME IInv, phase = "run", NEW a \in Runtime, NEW w \in [Work -> WorkerStates], NEW gauge \in Nat,
           \A q \in Queries : w[q] # "serving",
           events' \in Seq(EngineEvent), Len(events') <= event_queue_depth,
           ingress' \in 0..packet_queue_depth,
           gauge = Cardinality(LiveSet(w)) + Cardinality(GuardSet(events')), gauge <= UsizeMax,
           a.reader_eof_seen \/ InQueue(events', "PacketEof") => reader = "done",
           Draining(a) => cancel \/ a.reader_eof_seen \/ a.fatal_failure # "none",
           ~cancel /\ ~io_stop /\ writer \in {"drain", "drop", "done"} =>
               InQueue(events', "PacketWriteFailed") \/ a.fatal_failure # "none",
           Turn(a, w, gauge)
    PROVE  IInv'
<1>1. TypeOK /\ EgressExact
    BY DEF IInv
<1>2. /\ TurnStarts(w, gauge) /\ TurnStops
      /\ actor' \in Runtime /\ Later(a, actor')
      /\ EgressExact' /\ egress' \in 0..packet_queue_depth
      /\ egress_depth' \in 0..packet_queue_depth
      /\ state' \in {state, "Draining"} /\ forced' \in BOOLEAN
      /\ UNCHANGED <<failure, cancel, io_stop, reader, unread, writer, join, call>>
    BY <1>1, TurnShape
<1>3. PICK started \in SUBSET (Associations \cup Queries) :
      /\ worker' = Started(Reaped(w), started)
      /\ \A x \in started : Reaped(w)[x] = "none"
      /\ active_dns_queries' = gauge + Cardinality(started \cap Queries)
      /\ started \cap Queries # {} =>
             gauge + Cardinality(started \cap Queries) <= Cardinality(Queries)
    BY <1>2 DEF TurnStarts
<1>4. /\ worker' \in [Work -> WorkerStates] /\ \A q \in Queries : worker'[q] # "serving"
      /\ Cardinality(LiveSet(worker')) = Cardinality(LiveSet(w)) + Cardinality(started \cap Queries)
      /\ Cardinality(started \cap Queries) \in Nat
    BY <1>3, QueriesStarted
<1>5. active_dns_queries' \in 0..UsizeMax
    <2>1. CASE started \cap Queries = {}
        <3>1. Cardinality(started \cap Queries) = 0
            BY <2>1, FS_EmptySet
        <3>. QED BY <1>3, <3>1, TunAssumption
    <2>2. CASE started \cap Queries # {}
        BY <1>3, <1>4, <2>2, TunAssumption, FS_CardinalityType
    <2>. QED BY <2>1, <2>2
<1>6. active_dns_queries' = Cardinality(LiveSet(worker')) + Cardinality(GuardSet(events'))
    BY <1>3, <1>4, LiveFinite, GuardsFinite
<1>7. phase' \in {"run", "cleanup"} /\ (phase' = "cleanup" => Draining(actor'))
    BY <1>2 DEF TurnStops
<1>8. TypeOK'
    BY <1>1, <1>2, <1>4, <1>5, <1>7 DEF TypeOK, WorkerStates
<1>9. DnsGaugeExact'
    <2>1. Queries \cap DOMAIN worker' = Queries
        BY <1>4 DEF Work
    <2>2. LiveQueries' = Cardinality(LiveSet(worker')) /\ Guards' = Cardinality(GuardSet(events'))
        BY <2>1 DEF LiveQueries, LiveSet, Guards, GuardSet
    <2>. QED BY <1>6, <2>2 DEF DnsGaugeExact
<1>10. Causes'
    BY <1>2, <1>7 DEF Causes, Later, Queued, IInv
<1>11. EndIsKnown' /\ OkMeansStopped' /\ QueriesAsk'
    BY <1>2, <1>4, <1>7 DEF IInv, EndIsKnown, Ended, Published, OkMeansStopped, QueriesAsk
<1>. QED BY <1>2, <1>8, <1>9, <1>10, <1>11 DEF IInv

\* What a turn starts from.
LEMMA RunFacts ==
    ASSUME IInv, phase = "run"
    PROVE  /\ actor \in Runtime /\ worker \in [Work -> WorkerStates]
           /\ \A q \in Queries : worker[q] # "serving"
           /\ events \in Seq(EngineEvent) /\ Len(events) <= event_queue_depth
           /\ ingress \in 0..packet_queue_depth
           /\ active_dns_queries \in Nat /\ active_dns_queries <= UsizeMax
           /\ active_dns_queries = Cardinality(LiveSet(worker)) + Cardinality(GuardSet(events))
           /\ actor.reader_eof_seen \/ InQueue(events, "PacketEof") => reader = "done"
           /\ Draining(actor) => cancel \/ actor.reader_eof_seen \/ actor.fatal_failure # "none"
           /\ ~cancel /\ ~io_stop /\ writer \in {"drain", "drop", "done"} =>
                  InQueue(events, "PacketWriteFailed") \/ actor.fatal_failure # "none"
<1>1. TypeOK
    BY DEF IInv
<1>2. active_dns_queries = Cardinality(LiveSet(worker)) + Cardinality(GuardSet(events))
    BY <1>1, Counts DEF IInv, DnsGaugeExact
<1>3. active_dns_queries \in Nat /\ active_dns_queries <= UsizeMax
    BY <1>1, TunAssumption DEF TypeOK
<1>4. /\ actor \in Runtime /\ worker \in [Work -> WorkerStates]
      /\ events \in Seq(EngineEvent) /\ Len(events) <= event_queue_depth
      /\ ingress \in 0..packet_queue_depth
    BY <1>1 DEF TypeOK, WorkerStates
<1>. QED BY <1>2, <1>3, <1>4 DEF IInv, QueriesAsk, Causes, Queued

\* The tick has no stimulus of its own.
LEMMA TickKeeps ==
    ASSUME IInv, TurnTick
    PROVE  IInv'
BY RunFacts, TurnKeeps DEF TurnTick, Running

\* The token is cancelled, which is a reason to drain.
LEMMA CancelledKeeps ==
    ASSUME IInv, TurnCancelled
    PROVE  IInv'
<1>. DEFINE a == begin_draining(actor, FALSE)
<1>1. phase = "run" /\ cancel /\ UNCHANGED <<ingress, events>> /\ Turn(a, worker, active_dns_queries)
    BY DEF TurnCancelled, Running
<1>2. FALSE \in BOOLEAN
    OBVIOUS
<1>3. /\ a \in Runtime /\ a.reader_eof_seen = actor.reader_eof_seen
      /\ a.fatal_failure = actor.fatal_failure
    BY <1>1, <1>2, RunFacts, DrainingBegins
<1>. HIDE DEF a
<1>. QED BY <1>1, <1>3, RunFacts, TurnKeeps

\* The ingress queue is closed, a reason to drain when the reader reported its end.
LEMMA IngressClosedKeeps ==
    ASSUME IInv, TurnIngressClosed
    PROVE  IInv'
<1>. DEFINE b == [actor EXCEPT !.ingress_open = FALSE]
            a == IF b.reader_eof_seen THEN begin_draining(b, FALSE) ELSE b
<1>1. phase = "run" /\ UNCHANGED <<ingress, events>> /\ Turn(a, worker, active_dns_queries)
    BY DEF TurnIngressClosed, Running
<1>2. FALSE \in BOOLEAN
    OBVIOUS
<1>3. /\ b \in Runtime /\ b.reader_eof_seen = actor.reader_eof_seen
      /\ b.fatal_failure = actor.fatal_failure /\ (Draining(b) <=> Draining(actor))
    <2>1. actor \in Runtime
        BY <1>1, RunFacts
    <2>. QED BY <1>2, <2>1 DEF Runtime, Draining
<1>. HIDE DEF b
<1>4. /\ a \in Runtime /\ a.reader_eof_seen = b.reader_eof_seen /\ a.fatal_failure = b.fatal_failure
      /\ Draining(a) => Draining(b) \/ a.reader_eof_seen
    BY <1>2, <1>3, DrainingBegins
<1>. HIDE DEF a
<1>. QED BY <1>1, <1>3, <1>4, RunFacts, TurnKeeps

\* The record after an event of a device task: a failure that is recorded is on the
\* record, and the end of the device is, too.
LEMMA IoEventHandled ==
    ASSUME NEW b \in Runtime, NEW t \in {"PacketReadFailed", "PacketWriteFailed", "PacketEof"}
    PROVE  LET a == handle_io_event(b, t)
           IN  /\ a \in Runtime
               /\ a.reader_eof_seen => b.reader_eof_seen \/ t = "PacketEof"
               /\ b.fatal_failure # "none" \/ t = "PacketWriteFailed" => a.fatal_failure # "none"
               /\ Draining(a) => \/ Draining(b) /\ b.reader_eof_seen = a.reader_eof_seen
                                 \/ a.reader_eof_seen \/ a.fatal_failure # "none"
<1>1. CASE t = "PacketReadFailed"
    <2>1. handle_io_event(b, t) = record_failure(b, "PacketRead") /\ "PacketRead" \in PacketRuntimeFailure
        BY <1>1 DEF handle_io_event, PacketRuntimeFailure
    <2>. QED BY <1>1, <2>1, FailureRecorded
<1>2. CASE t = "PacketWriteFailed"
    <2>1. handle_io_event(b, t) = record_failure(b, "PacketWrite") /\ "PacketWrite" \in PacketRuntimeFailure
        BY <1>2 DEF handle_io_event, PacketRuntimeFailure
    <2>. QED BY <1>2, <2>1, FailureRecorded
<1>3. CASE t = "PacketEof"
    <2>. DEFINE c == [b EXCEPT !.reader_eof_seen = TRUE]
    <2>1. handle_io_event(b, t) = IF b.ingress_open THEN c ELSE begin_draining(c, FALSE)
        BY <1>3 DEF handle_io_event
    <2>2. TRUE \in BOOLEAN /\ FALSE \in BOOLEAN
        OBVIOUS
    <2>3. c \in Runtime /\ c.reader_eof_seen = TRUE /\ c.fatal_failure = b.fatal_failure
        BY <2>2 DEF Runtime
    <2>. HIDE DEF c
    <2>4. LET d == begin_draining(c, FALSE)
          IN  d \in Runtime /\ d.reader_eof_seen = TRUE /\ d.fatal_failure = b.fatal_failure
        BY <2>2, <2>3, DrainingBegins
    <2>. QED BY <1>3, <2>1, <2>3, <2>4
<1>. QED BY <1>1, <1>2, <1>3

\* The event that is taken leaves the queue with its guard; a failure it reports is on
\* the record afterwards.
LEMMA EventKeeps ==
    ASSUME IInv, TurnEvent
    PROVE  IInv'
<1>. DEFINE e == Head(events)
<1>1. phase = "run" /\ events # <<>> /\ events' = Tail(events) /\ ingress' = ingress
    BY DEF TurnEvent, Running
<1>2. /\ \/ /\ e.type = "DnsResponse"
            /\ Turn([actor EXCEPT !.pending_dns = IF @ < Cardinality(Queries) THEN @ + 1 ELSE @],
                    worker, active_dns_queries - 1)
         \/ /\ e.type = "Done"
            /\ \/ Turn([actor EXCEPT !.udp = @ \ {e.of}, !.tcp = @ \ {e.of}], worker, active_dns_queries)
               \/ e.of \in Flows /\ Turn(actor, worker, active_dns_queries)
         \/ /\ e.type \notin {"DnsResponse", "Done"}
            /\ Turn(handle_io_event(actor, e.type), worker, active_dns_queries)
    BY DEF TurnEvent
<1>3. /\ events' \in Seq(EngineEvent) /\ Len(events') = Len(events) - 1 /\ e \in EngineEvent
      /\ \A t : InQueue(events, t) <=> e.type = t \/ InQueue(events', t)
      /\ Cardinality(GuardSet(events')) = Cardinality(GuardSet(events)) - IsResponse(e)
    BY <1>1, RunFacts, EventTaken
<1>4. Len(events') <= event_queue_depth
    BY <1>1, <1>3, RunFacts, TunAssumption
<1>5. e.type \in {"PacketReadFailed", "PacketWriteFailed", "PacketEof", "Done", "DnsResponse"}
    BY <1>3, EventTypes
<1>6. /\ Cardinality(LiveSet(worker)) \in Nat /\ Cardinality(GuardSet(events)) \in Nat
      /\ Cardinality(GuardSet(events')) \in Nat
    BY <1>1, <1>3, RunFacts, LiveFinite, GuardsFinite
<1>. HIDE DEF e
<1>7. CASE /\ e.type = "DnsResponse"
           /\ Turn([actor EXCEPT !.pending_dns = IF @ < Cardinality(Queries) THEN @ + 1 ELSE @],
                   worker, active_dns_queries - 1)
    <2>. DEFINE a == [actor EXCEPT !.pending_dns = IF @ < Cardinality(Queries) THEN @ + 1 ELSE @]
                g == active_dns_queries - 1
    <2>1. a \in Runtime /\ a.reader_eof_seen = actor.reader_eof_seen
          /\ a.fatal_failure = actor.fatal_failure /\ a.deadline = actor.deadline
        <3>1. actor \in Runtime /\ Cardinality(Queries) \in Nat
            BY <1>1, RunFacts, TunAssumption, FS_CardinalityType
        <3>2. actor.pending_dns < Cardinality(Queries) => actor.pending_dns + 1 \in 0..Cardinality(Queries)
            BY <3>1 DEF Runtime
        <3>. QED BY <3>1, <3>2 DEF Runtime
    <2>2. g \in Nat /\ g <= UsizeMax /\ g = Cardinality(LiveSet(worker)) + Cardinality(GuardSet(events'))
        <3>1. IsResponse(e) = 1
            BY <1>7 DEF IsResponse
        <3>. QED BY <1>1, <1>3, <1>6, <3>1, RunFacts, TunAssumption
    <2>3. Turn(a, worker, g)
        BY <1>7
    <2>. HIDE DEF a, g
    <2>. QED BY <1>1, <1>3, <1>4, <1>7, <2>1, <2>2, <2>3, RunFacts, TurnKeeps DEF Draining
<1>8. ASSUME e.type = "Done", NEW a \in Runtime, a.reader_eof_seen = actor.reader_eof_seen,
             a.fatal_failure = actor.fatal_failure, a.deadline = actor.deadline,
             Turn(a, worker, active_dns_queries)
      PROVE  IInv'
    <2>1. IsResponse(e) = 0
        BY <1>8 DEF IsResponse
    <2>2. active_dns_queries = Cardinality(LiveSet(worker)) + Cardinality(GuardSet(events'))
        <3>1. active_dns_queries = Cardinality(LiveSet(worker)) + Cardinality(GuardSet(events))
            BY Zenon, <1>1, RunFacts
        <3>2. Cardinality(GuardSet(events')) = Cardinality(GuardSet(events))
            BY <1>3, <1>6, <2>1
        <3>. QED BY <3>1, <3>2
    <2>. QED BY <1>1, <1>3, <1>4, <1>8, <2>2, RunFacts, TurnKeeps DEF Draining
<1>9. CASE /\ e.type = "Done"
           /\ Turn([actor EXCEPT !.udp = @ \ {e.of}, !.tcp = @ \ {e.of}], worker, active_dns_queries)
    <2>. DEFINE a == [actor EXCEPT !.udp = @ \ {e.of}, !.tcp = @ \ {e.of}]
    <2>1. /\ a \in Runtime /\ a.reader_eof_seen = actor.reader_eof_seen
          /\ a.fatal_failure = actor.fatal_failure /\ a.deadline = actor.deadline
        BY <1>1, RunFacts DEF Runtime
    <2>2. Turn(a, worker, active_dns_queries)
        BY <1>9
    <2>. HIDE DEF a
    <2>. QED BY <1>8, <1>9, <2>1, <2>2
<1>10. CASE e.type = "Done" /\ Turn(actor, worker, active_dns_queries)
    BY <1>1, <1>8, <1>10, RunFacts
<1>11. CASE /\ e.type \notin {"DnsResponse", "Done"}
            /\ Turn(handle_io_event(actor, e.type), worker, active_dns_queries)
    <2>. DEFINE a == handle_io_event(actor, e.type)
    <2>1. e.type \in {"PacketReadFailed", "PacketWriteFailed", "PacketEof"}
        BY <1>5, <1>11
    <2>2. /\ a \in Runtime
          /\ a.reader_eof_seen => actor.reader_eof_seen \/ e.type = "PacketEof"
          /\ actor.fatal_failure # "none" \/ e.type = "PacketWriteFailed" => a.fatal_failure # "none"
          /\ Draining(a) => \/ Draining(actor) /\ actor.reader_eof_seen = a.reader_eof_seen
                            \/ a.reader_eof_seen \/ a.fatal_failure # "none"
        BY <1>1, <2>1, RunFacts, IoEventHandled
    <2>3. Turn(a, worker, active_dns_queries)
        BY <1>11
    <2>4. active_dns_queries = Cardinality(LiveSet(worker)) + Cardinality(GuardSet(events'))
        <3>1. IsResponse(e) = 0
            BY <1>11 DEF IsResponse
        <3>. QED BY <1>1, <1>3, <1>6, <3>1, RunFacts
    <2>. HIDE DEF a
    <2>5. a.reader_eof_seen \/ InQueue(events', "PacketEof") => reader = "done"
        BY <1>1, <1>3, <2>2, RunFacts
    <2>6. Draining(a) => cancel \/ a.reader_eof_seen \/ a.fatal_failure # "none"
        BY <1>1, <2>2, RunFacts
    <2>7. ~cancel /\ ~io_stop /\ writer \in {"drain", "drop", "done"} =>
              InQueue(events', "PacketWriteFailed") \/ a.fatal_failure # "none"
        BY <1>1, <1>3, <2>2, RunFacts
    <2>. QED BY <1>1, <1>3, <1>4, <2>2, <2>3, <2>4, <2>5, <2>6, <2>7, RunFacts, TurnKeeps
<1>. QED BY <1>2, <1>7, <1>9, <1>10, <1>11

\* A packet goes nowhere, into the engine, or starts the worker of a flow.
LEMMA PacketKeeps ==
    ASSUME IInv, TurnPacket
    PROVE  IInv'
<1>1. phase = "run" /\ ingress > 0 /\ ingress' = ingress - 1 /\ events' = events
    BY DEF TurnPacket, Running
<1>2. ingress' \in 0..packet_queue_depth
    BY <1>1, RunFacts, TunAssumption
<1>3. CASE Turn(actor, worker, active_dns_queries)
    BY <1>1, <1>2, <1>3, RunFacts, TurnKeeps
<1>4. CASE /\ actor.incoming < packet_queue_depth
           /\ Turn([actor EXCEPT !.incoming = @ + 1], worker, active_dns_queries)
    <2>. DEFINE a == [actor EXCEPT !.incoming = @ + 1]
    <2>1. /\ a \in Runtime /\ a.reader_eof_seen = actor.reader_eof_seen
          /\ a.fatal_failure = actor.fatal_failure /\ a.deadline = actor.deadline
        <3>1. actor \in Runtime
            BY <1>1, RunFacts
        <3>2. actor.incoming + 1 \in 0..packet_queue_depth
            BY <1>4, <3>1, TunAssumption DEF Runtime
        <3>. QED BY <3>1, <3>2 DEF Runtime
    <2>2. Turn(a, worker, active_dns_queries)
        BY <1>4
    <2>. HIDE DEF a
    <2>. QED BY <1>1, <1>2, <2>1, <2>2, RunFacts, TurnKeeps DEF Draining
<1>5. ASSUME NEW x \in Flows \ actor.tcp, worker[x] = "none",
             Turn([actor EXCEPT !.tcp = @ \cup {x}], Started(worker, {x}), active_dns_queries)
      PROVE  IInv'
    <2>. DEFINE a == [actor EXCEPT !.tcp = @ \cup {x}]
                w == Started(worker, {x})
    <2>1. /\ a \in Runtime /\ a.reader_eof_seen = actor.reader_eof_seen
          /\ a.fatal_failure = actor.fatal_failure /\ a.deadline = actor.deadline
        BY <1>1, RunFacts DEF Runtime
    <2>2. x \in Work /\ x \notin Queries
        BY TunAssumption DEF Work
    <2>3. /\ w \in [Work -> WorkerStates] /\ \A q \in Queries : w[q] = worker[q]
        <3>1. worker \in [Work -> WorkerStates] /\ Queries \subseteq Work
            BY <1>1, RunFacts DEF Work
        <3>. QED BY <2>2, <3>1 DEF Started, WorkerStates
    <2>4. LiveSet(w) = LiveSet(worker)
        <3>. HIDE DEF w
        <3>. QED BY <2>3 DEF LiveSet
    <2>5. Turn(a, w, active_dns_queries)
        BY <1>5
    <2>. HIDE DEF a, w
    <2>. QED BY <1>1, <1>2, <2>1, <2>3, <2>4, <2>5, RunFacts, TurnKeeps DEF Draining
<1>. QED BY <1>3, <1>4, <1>5 DEF TurnPacket

\* Whatever wakes the actor.
LEMMA ActorKeeps ==
    ASSUME IInv, ActorStep
    PROVE  IInv'
BY TickKeeps, CancelledKeeps, IngressClosedKeeps, EventKeeps, PacketKeeps DEF ActorStep

\* The deadline of the drain passes while the actor waits.
LEMMA DeadlineKeeps ==
    ASSUME IInv, DeadlinePasses
    PROVE  IInv'
<1>1. /\ actor \in Runtime /\ actor.deadline = "set" /\ actor' = [actor EXCEPT !.deadline = "passed"]
      /\ UNCHANGED <<counters, cancel, io_stop, io, events, worker, phase, handle>>
    BY DEF DeadlinePasses, IInv, TypeOK
<1>2. /\ actor' \in Runtime /\ actor'.reader_eof_seen = actor.reader_eof_seen
      /\ actor'.fatal_failure = actor.fatal_failure /\ Draining(actor) /\ Draining(actor')
    BY <1>1 DEF Runtime, Draining
<1>3. UNCHANGED <<LiveQueries, Guards, Holding, EgressClosed>> /\ (\A t : Queued(t)' <=> Queued(t))
    BY <1>1 DEF LiveQueries, Guards, Holding, EgressClosed, Queued, InQueue, io
<1>4. TypeOK'
    BY <1>1, <1>2 DEF IInv, TypeOK, counters, io, handle
<1>. QED BY <1>1, <1>2, <1>3, <1>4
         DEF IInv, EgressExact, QueriesAsk, DnsGaugeExact, Causes, EndIsKnown, Ended, OkMeansStopped,
             counters, io, handle

-----------------------------------------------------------------------------
\* The device tasks

\* A step of a device task leaves the counters, the workers and the calls alone.  It
\* keeps the invariant when it keeps the types, the gauge and what Causes says of it.
LEMMA IoFrame ==
    ASSUME IInv, UNCHANGED others, TypeOK', EgressExact', Guards' = Guards,
           Queued("PacketEof")' => reader' = "done", actor.reader_eof_seen => reader' = "done",
           ~cancel /\ ~io_stop /\ writer' \in {"drain", "drop", "done"} =>
               Queued("PacketWriteFailed")' \/ actor.fatal_failure # "none"
    PROVE  IInv'
<1>1. UNCHANGED <<state, failure, forced, active_dns_queries, cancel, io_stop, worker, actor, phase,
                  join, call>>
    BY DEF others, counters, handle
<1>2. LiveQueries' = LiveQueries
    BY <1>1 DEF LiveQueries
<1>3. Causes'
    BY <1>1 DEF IInv, Causes
<1>4. QueriesAsk' /\ EndIsKnown' /\ OkMeansStopped'
    BY <1>1 DEF IInv, QueriesAsk, EndIsKnown, Ended, OkMeansStopped
<1>5. DnsGaugeExact'
    BY <1>1, <1>2 DEF IInv, DnsGaugeExact
<1>. QED BY <1>3, <1>4, <1>5 DEF IInv

\* A step of a device task that reports nothing.
LEMMA QuietIoKeeps ==
    ASSUME IInv, UNCHANGED <<others, events>>,
           reader' \in Readers, unread' \in 0..MaxPackets, ingress' \in 0..packet_queue_depth,
           writer' \in Writers, egress' \in 0..packet_queue_depth,
           egress_depth' \in 0..packet_queue_depth, EgressExact',
           reader = "done" => reader' = "done",
           ~cancel /\ ~io_stop /\ writer' \in {"drain", "drop", "done"} =>
               writer \in {"drain", "drop", "done"}
    PROVE  IInv'
<1>1. UNCHANGED <<state, failure, forced, active_dns_queries, cancel, io_stop, worker, actor, phase,
                  join, call, events>>
    BY DEF others, counters, handle
<1>2. TypeOK'
    BY ZenonT(60), <1>1 DEF IInv, TypeOK
<1>3. Guards' = Guards /\ \A t : Queued(t)' <=> Queued(t)
    BY <1>1 DEF Guards, Queued, InQueue
<1>. QED BY <1>1, <1>2, <1>3, IoFrame DEF IInv, Causes

\* A device task reports to the actor.
LEMMA ReportKeeps ==
    ASSUME IInv, UNCHANGED <<others, unread, ingress, egress>>,
           NEW t \in {"PacketReadFailed", "PacketWriteFailed", "PacketEof"}, Send([type |-> t]),
           reader' \in Readers, writer' \in Writers, egress_depth' \in 0..packet_queue_depth, EgressExact',
           reader = "done" \/ t = "PacketEof" => reader' = "done",
           writer' \in {"drain", "drop", "done"} =>
               writer \in {"drain", "drop", "done"} \/ t = "PacketWriteFailed"
    PROVE  IInv'
<1>. DEFINE e == [type |-> t]
<1>1. UNCHANGED <<state, failure, forced, active_dns_queries, cancel, io_stop, worker, actor, phase,
                  join, call>>
    BY DEF others, counters, handle
<1>2. e \in EngineEvent /\ e.type = t /\ IsResponse(e) = 0
    BY DEF EngineEvent, IsResponse
<1>3. events \in Seq(EngineEvent) /\ Len(events) < event_queue_depth /\ events' = Append(events, e)
    BY DEF IInv, TypeOK, Send
<1>. HIDE DEF e
<1>4. /\ events' \in Seq(EngineEvent) /\ Len(events') = Len(events) + 1
      /\ \A u : InQueue(events', u) <=> InQueue(events, u) \/ e.type = u
      /\ Cardinality(GuardSet(events')) = Cardinality(GuardSet(events)) + IsResponse(e)
    BY <1>2, <1>3, EventSent
<1>5. Len(events') <= event_queue_depth
    BY <1>3, <1>4, TunAssumption
<1>6. TypeOK'
    BY ZenonT(60), <1>1, <1>4, <1>5 DEF IInv, TypeOK
<1>7. Guards' = Guards
    <2>1. Cardinality(GuardSet(events)) \in Nat
        BY <1>3, GuardsFinite
    <2>2. Cardinality(GuardSet(events')) = Cardinality(GuardSet(events))
        BY <1>2, <1>4, <2>1
    <2>. QED BY Zenon, <2>2 DEF Guards, GuardSet
<1>8. \A u : Queued(u)' <=> Queued(u) \/ u = t
    BY <1>2, <1>4 DEF Queued
<1>. QED BY <1>1, <1>6, <1>7, <1>8, IoFrame DEF IInv, Causes

\* Whatever the reader, the writer and their monitors do.
LEMMA IoKeeps ==
    ASSUME IInv, IoStep
    PROVE  IInv'
<1>1. /\ reader \in Readers /\ unread \in 0..MaxPackets /\ ingress \in 0..packet_queue_depth
      /\ writer \in Writers /\ egress \in 0..packet_queue_depth
      /\ egress_depth \in 0..packet_queue_depth /\ EgressExact
      /\ MaxPackets \in Nat /\ packet_queue_depth \in Nat
    BY TunAssumption DEF IInv, TypeOK
<1>2. writer' = writer /\ egress' = egress /\ egress_depth' = egress_depth => EgressExact'
    BY <1>1 DEF EgressExact, Holding, EgressClosed
<1>3. CASE ReaderReceives
    <2>1. /\ UNCHANGED <<others, events>> /\ UNCHANGED <<ingress, writer, egress, egress_depth>>
          /\ reader = "receive" /\ reader' \in Readers /\ unread' \in 0..MaxPackets
        BY <1>1, <1>3 DEF ReaderReceives, writing, Readers
    <2>. QED BY <1>1, <1>2, <2>1, QuietIoKeeps
<1>4. CASE ReaderQueues
    <2>1. /\ UNCHANGED <<others, events>> /\ UNCHANGED <<unread, writer, egress, egress_depth>>
          /\ reader = "hold" /\ reader' \in Readers /\ ingress' \in 0..packet_queue_depth
        BY <1>1, <1>4 DEF ReaderQueues, writing, Readers
    <2>. QED BY <1>1, <1>2, <2>1, QuietIoKeeps
<1>5. CASE ReaderReports
    <2>. DEFINE t == IF reader = "eof" THEN "PacketEof" ELSE "PacketReadFailed"
    <2>1. /\ UNCHANGED others /\ UNCHANGED <<unread, ingress, writer, egress, egress_depth>>
          /\ reader' = "done" /\ Send([type |-> t])
        BY <1>5 DEF ReaderReports, writing
    <2>2. t \in {"PacketReadFailed", "PacketWriteFailed", "PacketEof"} /\ "done" \in Readers
        BY DEF Readers
    <2>. HIDE DEF t
    <2>. QED BY <1>1, <1>2, <2>1, <2>2, ReportKeeps
<1>6. CASE ReaderStops
    <2>1. /\ UNCHANGED <<others, events>> /\ UNCHANGED <<unread, ingress, writer, egress, egress_depth>>
          /\ reader' = "done" /\ reader' \in Readers
        BY <1>6 DEF ReaderStops, writing, Readers
    <2>. QED BY <1>1, <1>2, <2>1, QuietIoKeeps
<1>7. CASE WriterTakes
    <2>1. /\ UNCHANGED <<others, events>> /\ UNCHANGED <<reader, unread, ingress, egress_depth>>
          /\ writer = "wait" /\ writer' = "send" /\ writer' \in Writers
          /\ egress > 0 /\ egress' = egress - 1
        BY <1>7 DEF WriterTakes, reading, Writers
    <2>2. egress' \in 0..packet_queue_depth /\ EgressExact'
        BY <1>1, <2>1 DEF EgressExact, Holding, EgressClosed
    <2>. QED BY <1>1, <2>1, <2>2, QuietIoKeeps
<1>8. CASE WriterSends
    <2>1. /\ UNCHANGED <<others, events>> /\ UNCHANGED <<reader, unread, ingress>>
          /\ writer = "send" /\ writer' \in {"wait", "error", "panicked"}
          /\ \/ writer' = "wait" /\ egress_depth' = egress_depth - 1 /\ egress' = egress
             \/ writer' = "error" /\ egress_depth' = egress_depth /\ egress' = egress
             \/ writer' = "panicked" /\ egress_depth' = egress_depth /\ egress' = 0
        BY <1>8 DEF WriterSends, reading
    <2>2. egress_depth = egress + 1
        BY <1>1, <2>1 DEF EgressExact, Holding, EgressClosed
    <2>3. /\ egress' \in 0..packet_queue_depth /\ egress_depth' \in 0..packet_queue_depth
          /\ EgressExact'
        BY <1>1, <2>1, <2>2 DEF EgressExact, Holding, EgressClosed
    <2>. QED BY <1>1, <2>1, <2>3, QuietIoKeeps DEF Writers
<1>9. CASE WriterReports
    <2>1. /\ UNCHANGED others /\ UNCHANGED <<reader, unread, ingress, egress>>
          /\ Send([type |-> "PacketWriteFailed"]) /\ writer' \in Writers
          /\ \/ writer = "error" /\ writer' = "drain" /\ egress_depth' = egress_depth - 1
             \/ writer = "panicked" /\ writer' = "done" /\ egress_depth' = egress_depth
        BY <1>9 DEF WriterReports, reading, Writers
    <2>2. egress_depth' \in 0..packet_queue_depth /\ EgressExact'
        BY <1>1, <2>1 DEF EgressExact, Holding, EgressClosed
    <2>3. "PacketWriteFailed" \in {"PacketReadFailed", "PacketWriteFailed", "PacketEof"}
        OBVIOUS
    <2>. QED BY <1>1, <2>1, <2>2, <2>3, ReportKeeps
<1>10. CASE WriterStops
    <2>1. /\ UNCHANGED <<others, events>> /\ UNCHANGED <<reader, unread, ingress, egress>>
          /\ IoCancelled /\ writer' \in Writers
          /\ \/ writer = "wait" /\ writer' = "drain" /\ egress_depth' = egress_depth
             \/ writer \in {"send", "error"} /\ writer' = "drain" /\ egress_depth' = egress_depth - 1
             \/ writer = "panicked" /\ writer' = "done" /\ egress_depth' = egress_depth
        BY <1>10 DEF WriterStops, reading, Writers
    <2>2. egress_depth' \in 0..packet_queue_depth /\ EgressExact'
        BY <1>1, <2>1 DEF EgressExact, Holding, EgressClosed
    <2>. QED BY <1>1, <2>1, <2>2, QuietIoKeeps DEF IoCancelled
<1>11. CASE WriterDrains
    <2>1. /\ UNCHANGED <<others, events>> /\ UNCHANGED <<reader, unread, ingress>>
          /\ writer \in {"drain", "drop"} /\ writer' \in Writers
          /\ \/ writer' = "drain" /\ writer = "drain" /\ egress > 0 /\ egress' = egress - 1 /\ egress_depth' = egress_depth - 1
             \/ writer' = "drop" /\ egress' = egress /\ egress_depth' = egress_depth
             \/ writer' = "done" /\ egress' = 0 /\ egress_depth' = egress_depth
        BY <1>11 DEF WriterDrains, reading, Writers
    <2>2. egress_depth = egress
        BY <1>1, <2>1 DEF EgressExact, Holding, EgressClosed
    <2>3. /\ egress' \in 0..packet_queue_depth /\ egress_depth' \in 0..packet_queue_depth
          /\ EgressExact'
        BY <1>1, <2>1, <2>2 DEF EgressExact, Holding, EgressClosed
    <2>. QED BY <1>1, <2>1, <2>3, QuietIoKeeps
<1>. QED BY <1>3, <1>4, <1>5, <1>6, <1>7, <1>8, <1>9, <1>10, <1>11 DEF IoStep

-----------------------------------------------------------------------------
\* The workers

\* The causes stand while the actor and the device tasks do: no end of the device is
\* queued and no failure to write is taken.
LEMMA CausesFrame ==
    ASSUME Causes, UNCHANGED <<actor, reader, writer, cancel, io_stop, phase>>,
           Queued("PacketEof")' => Queued("PacketEof"),
           Queued("PacketWriteFailed") => Queued("PacketWriteFailed")'
    PROVE  Causes'
BY DEF Causes, Draining

\* What is known of the end stands while nobody publishes and nobody calls.
LEMMA EndFrame ==
    ASSUME EndIsKnown, OkMeansStopped, UNCHANGED <<state, failure, cancel, phase, call>>
    PROVE  EndIsKnown' /\ OkMeansStopped'
BY DEF EndIsKnown, Ended, OkMeansStopped

\* A worker changes its own state, and takes a query's guard with it or drops it.
LEMMA WorkerFrame ==
    ASSUME IInv, phase = "run",
           UNCHANGED <<state, failure, forced, cancel, io_stop, io, actor, phase, handle>>,
           worker' \in [Work -> WorkerStates], \A q \in Queries : worker'[q] # "serving",
           events' \in Seq(EngineEvent), Len(events') <= event_queue_depth,
           InQueue(events', "PacketEof") => InQueue(events, "PacketEof"),
           InQueue(events, "PacketWriteFailed") => InQueue(events', "PacketWriteFailed"),
           active_dns_queries' \in 0..UsizeMax,
           active_dns_queries' = Cardinality(LiveSet(worker')) + Cardinality(GuardSet(events'))
    PROVE  IInv'
<1>1. UNCHANGED <<state, failure, forced, cancel, io_stop, reader, unread, ingress, writer, egress,
                  egress_depth, actor, phase, join, call>>
    BY DEF io, handle
<1>2. TypeOK'
    BY <1>1 DEF IInv, TypeOK, WorkerStates
<1>3. DnsGaugeExact'
    <2>1. Queries \cap DOMAIN worker' = Queries
        BY DEF Work
    <2>2. LiveQueries' = Cardinality(LiveSet(worker')) /\ Guards' = Cardinality(GuardSet(events'))
        BY ZenonT(60), <2>1 DEF LiveQueries, LiveSet, Guards, GuardSet
    <2>. QED BY <2>2 DEF DnsGaugeExact
<1>4. Causes /\ EgressExact /\ EndIsKnown /\ OkMeansStopped
    BY DEF IInv
<1>5. Causes'
    <2>1. /\ Queued("PacketEof")' => Queued("PacketEof")
          /\ Queued("PacketWriteFailed") => Queued("PacketWriteFailed")'
        BY Zenon DEF Queued
    <2>. QED BY Zenon, <1>1, <1>4, <2>1, CausesFrame
<1>6. EgressExact'
    BY <1>1, <1>4 DEF EgressExact, Holding, EgressClosed
<1>7. EndIsKnown' /\ OkMeansStopped'
    BY Zenon, <1>1, <1>4, EndFrame
<1>8. QueriesAsk'
    BY DEF QueriesAsk
<1>. QED BY <1>2, <1>3, <1>5, <1>6, <1>7, <1>8 DEF IInv

\* Whatever a worker does.
LEMMA WorkerKeeps ==
    ASSUME IInv, NEW x \in Work, WorkerStep(x)
    PROVE  IInv'
<1>1. /\ phase = "run"
      /\ UNCHANGED <<state, failure, forced, cancel, io_stop, io, actor, phase, handle>>
    BY DEF WorkerStep
<1>2. /\ worker \in [Work -> WorkerStates] /\ \A q \in Queries : worker[q] # "serving"
      /\ events \in Seq(EngineEvent) /\ Len(events) <= event_queue_depth
      /\ active_dns_queries \in 0..UsizeMax /\ UsizeMax \in Nat
      /\ active_dns_queries = Cardinality(LiveSet(worker)) + Cardinality(GuardSet(events))
      /\ Cardinality(LiveSet(worker)) \in Nat /\ Cardinality(GuardSet(events)) \in Nat
    <2>1. /\ worker \in [Work -> WorkerStates] /\ \A q \in Queries : worker[q] # "serving"
          /\ events \in Seq(EngineEvent) /\ Len(events) <= event_queue_depth
          /\ active_dns_queries = Cardinality(LiveSet(worker)) + Cardinality(GuardSet(events))
        BY Zenon, <1>1, RunFacts
    <2>2. active_dns_queries \in 0..UsizeMax /\ UsizeMax \in Nat
        BY Zenon, TunAssumption DEF IInv, TypeOK
    <2>3. Cardinality(LiveSet(worker)) \in Nat /\ Cardinality(GuardSet(events)) \in Nat
        BY Zenon, <2>1, LiveFinite, GuardsFinite
    <2>. QED BY Zenon, <2>1, <2>2, <2>3
<1>3. Queries \subseteq Work
    BY DEF Work
\* The state the worker moves to decides whether its query is still at work.
<1>4. ASSUME NEW s \in WorkerStates, x \in Queries => s # "serving", worker' = [worker EXCEPT ![x] = s]
      PROVE  /\ worker' \in [Work -> WorkerStates] /\ \A q \in Queries : worker'[q] # "serving"
             /\ Cardinality(LiveSet(worker')) \in Nat
             /\ x \notin Queries \/ (worker[x] \in {"opening", "leaving"} <=> s \in {"opening", "leaving"})
                    => LiveSet(worker') = LiveSet(worker)
             /\ x \in Queries /\ worker[x] \in {"opening", "leaving"} /\ s \notin {"opening", "leaving"}
                    => Cardinality(LiveSet(worker')) = Cardinality(LiveSet(worker)) - 1
    <2>1. worker'[x] = s
        BY <1>2, <1>4
    <2>2. x \in LiveSet(worker) <=> x \in Queries /\ worker[x] \in {"opening", "leaving"}
        BY DEF LiveSet
    <2>3. x \in LiveSet(worker') <=> x \in Queries /\ s \in {"opening", "leaving"}
        BY <2>1 DEF LiveSet
    <2>4. worker' \in [Work -> WorkerStates] /\ \A q \in Queries : worker'[q] # "serving"
        BY <1>2, <1>3, <1>4
    <2>5. /\ x \in LiveSet(worker) /\ x \notin LiveSet(worker') =>
                 Cardinality(LiveSet(worker')) = Cardinality(LiveSet(worker)) - 1
          /\ (x \in LiveSet(worker) <=> x \in LiveSet(worker')) => LiveSet(worker') = LiveSet(worker)
        BY <1>2, <1>4, QueryMoved
    <2>. QED BY <2>2, <2>3, <2>4, <2>5, LiveFinite
<1>5. ASSUME worker[x] = "opening", events' = events, NEW s \in WorkerStates \ {"none", "opening"},
             x \in Queries => s # "serving", worker' = [worker EXCEPT ![x] = s],
             active_dns_queries' = IF x \in Queries /\ s # "leaving" THEN active_dns_queries - 1
                                   ELSE active_dns_queries
      PROVE  IInv'
    <2>1. /\ worker' \in [Work -> WorkerStates] /\ \A q \in Queries : worker'[q] # "serving"
          /\ Cardinality(LiveSet(worker')) \in Nat
        BY <1>4, <1>5
    <2>2. CASE x \in Queries /\ s # "leaving"
        <3>1. Cardinality(LiveSet(worker')) = Cardinality(LiveSet(worker)) - 1
            BY <1>4, <1>5, <2>2 DEF WorkerStates
        <3>2. /\ active_dns_queries' = Cardinality(LiveSet(worker')) + Cardinality(GuardSet(events'))
              /\ active_dns_queries' \in 0..UsizeMax
            BY <1>2, <1>5, <2>1, <2>2, <3>1
        <3>. QED BY <1>1, <1>2, <1>5, <2>1, <3>2, WorkerFrame
    <2>3. CASE ~(x \in Queries /\ s # "leaving")
        <3>1. LiveSet(worker') = LiveSet(worker)
            BY <1>4, <1>5, <2>3
        <3>2. /\ active_dns_queries' = Cardinality(LiveSet(worker')) + Cardinality(GuardSet(events'))
              /\ active_dns_queries' \in 0..UsizeMax
            BY <1>2, <1>5, <2>3, <3>1
        <3>. QED BY <1>1, <1>2, <1>5, <2>1, <3>2, WorkerFrame
    <2>. QED BY <2>2, <2>3
<1>6. CASE worker[x] = "opening"
    <2>1. /\ events' = events
          /\ \/ \E s \in (IF x \in Queries THEN {"leaving", "finished"} ELSE {"serving", "leaving"})
                        \cup ({"panic"} \cap Faults) :
                  /\ worker' = [worker EXCEPT ![x] = s]
                  /\ active_dns_queries' =
                       IF x \in Queries /\ s # "leaving" THEN active_dns_queries - 1
                       ELSE active_dns_queries
             \/ /\ worker' = [worker EXCEPT ![x] = "finished"]
                /\ active_dns_queries' = IF x \in Queries THEN active_dns_queries - 1
                                         ELSE active_dns_queries
        BY <1>6 DEF WorkerStep
    <2>2. "finished" \in WorkerStates \ {"none", "opening"}
        BY DEF WorkerStates
    <2>3. \A s \in (IF x \in Queries THEN {"leaving", "finished"} ELSE {"serving", "leaving"})
                    \cup ({"panic"} \cap Faults) :
             s \in WorkerStates \ {"none", "opening"} /\ (x \in Queries => s # "serving")
        BY DEF WorkerStates
    <2>. QED BY <1>5, <1>6, <2>1, <2>2, <2>3
<1>7. CASE worker[x] = "serving"
    <2>1. x \notin Queries /\ events' = events /\ active_dns_queries' = active_dns_queries
          /\ worker' = [worker EXCEPT ![x] = "leaving"] /\ "leaving" \in WorkerStates
        BY <1>2, <1>7 DEF WorkerStep, WorkerStates
    <2>2. /\ worker' \in [Work -> WorkerStates] /\ \A q \in Queries : worker'[q] # "serving"
          /\ LiveSet(worker') = LiveSet(worker)
        BY <1>4, <2>1
    <2>. QED BY <1>1, <1>2, <2>1, <2>2, WorkerFrame
<1>8. CASE worker[x] = "leaving"
    <2>. DEFINE e == [type |-> IF x \in Queries THEN "DnsResponse" ELSE "Done", of |-> x]
    <2>1. /\ worker' = [worker EXCEPT ![x] = "finished"] /\ "finished" \in WorkerStates
          /\ active_dns_queries' = active_dns_queries
          /\ Len(events) < event_queue_depth /\ events' = Append(events, e)
        BY <1>8 DEF WorkerStep, WorkerStates, Send
    <2>2. /\ e \in EngineEvent /\ e.type \notin {"PacketEof", "PacketWriteFailed"}
          /\ IsResponse(e) = IF x \in Queries THEN 1 ELSE 0
        BY DEF EngineEvent, IsResponse
    <2>. HIDE DEF e
    <2>3. /\ events' \in Seq(EngineEvent) /\ Len(events') = Len(events) + 1
          /\ \A t : InQueue(events', t) <=> InQueue(events, t) \/ e.type = t
          /\ Cardinality(GuardSet(events')) = Cardinality(GuardSet(events)) + IsResponse(e)
        BY <1>2, <2>1, <2>2, EventSent
    <2>4. /\ worker' \in [Work -> WorkerStates] /\ \A q \in Queries : worker'[q] # "serving"
          /\ Cardinality(LiveSet(worker')) \in Nat
          /\ x \in Queries => Cardinality(LiveSet(worker')) = Cardinality(LiveSet(worker)) - 1
          /\ x \notin Queries => LiveSet(worker') = LiveSet(worker)
        BY <1>4, <1>8, <2>1
    <2>5. active_dns_queries' = Cardinality(LiveSet(worker')) + Cardinality(GuardSet(events'))
        <3>1. /\ active_dns_queries' = Cardinality(LiveSet(worker)) + Cardinality(GuardSet(events))
              /\ Cardinality(LiveSet(worker)) \in Nat /\ Cardinality(GuardSet(events)) \in Nat
            BY <1>2, <2>1
        <3>2. CASE x \in Queries
            <4>1. /\ Cardinality(GuardSet(events')) = Cardinality(GuardSet(events)) + 1
                  /\ Cardinality(LiveSet(worker')) = Cardinality(LiveSet(worker)) - 1
                BY <2>2, <2>3, <2>4, <3>2
            <4>. QED BY <3>1, <4>1
        <3>3. CASE x \notin Queries
            <4>1. /\ Cardinality(GuardSet(events')) = Cardinality(GuardSet(events)) + 0
                  /\ Cardinality(LiveSet(worker')) = Cardinality(LiveSet(worker))
                BY <2>2, <2>3, <2>4, <3>3
            <4>. QED BY <3>1, <4>1
        <3>. QED BY <3>2, <3>3
    <2>6. Len(events') <= event_queue_depth
        BY <1>2, <2>1, <2>3, TunAssumption
    <2>. QED BY <1>1, <1>2, <2>1, <2>2, <2>3, <2>4, <2>5, <2>6, WorkerFrame
<1>. QED BY <1>6, <1>7, <1>8 DEF WorkerStep

-----------------------------------------------------------------------------
\* The end of the task

CallRecord == [at : {"idle", "called", "joining", "aborting", "check",
                     "waiting", "notified", "failing", "report", "returned"},
               already_stopped : BOOLEAN,
               result : PacketRuntimeFailure \cup {"none", "ok"},
               seen : Terminal \cup {"none", "Running", "Draining"}]

\* A wrapping counter stays a usize.
LEMMA WrapIsUsize ==
    ASSUME NEW n \in Int
    PROVE  Wrapped(n) \in 0..UsizeMax
BY TunAssumption DEF Wrapped

\* What the gauge is computed from are numbers.
LEMMA CountsAreInt ==
    ASSUME TypeOK
    PROVE  Guards \in Nat /\ LiveQueries \in Nat /\ active_dns_queries \in Int
<1>1. events \in Seq(EngineEvent) /\ active_dns_queries \in Int
    BY TunAssumption DEF TypeOK
<1>. QED BY <1>1, Counts, LiveFinite, GuardsFinite

\* Those who wait are told, and nobody else's call changes.
LEMMA NotifiedCalls ==
    ASSUME TypeOK
    PROVE  /\ Notified \in [Callers -> CallRecord]
           /\ \A c \in Callers : /\ Notified[c].already_stopped = call[c].already_stopped
                                 /\ Notified[c].result = call[c].result /\ Notified[c].seen = call[c].seen
                                 /\ \/ Notified[c].at = call[c].at
                                    \/ Notified[c].at = "notified" /\ call[c].at \notin {"idle", "called"}
<1>1. call \in [Callers -> CallRecord]
    BY DEF TypeOK, CallRecord
<1>2. ASSUME NEW r \in CallRecord
      PROVE  LET n == [r EXCEPT !.at = "notified"]
             IN  /\ n \in CallRecord /\ n.at = "notified" /\ n.already_stopped = r.already_stopped
                 /\ n.result = r.result /\ n.seen = r.seen
    BY DEF CallRecord
<1>3. ASSUME NEW c \in Callers
      PROVE  /\ Notified[c] \in CallRecord /\ Notified[c].already_stopped = call[c].already_stopped
             /\ Notified[c].result = call[c].result /\ Notified[c].seen = call[c].seen
             /\ \/ Notified[c].at = call[c].at
                \/ Notified[c].at = "notified" /\ call[c].at \notin {"idle", "called"}
    <2>1. call[c] \in CallRecord
        BY <1>1
    <2>2. CASE call[c].at \in {"check", "waiting"}
        BY <1>2, <2>1, <2>2 DEF Notified
    <2>3. CASE call[c].at \notin {"check", "waiting"}
        BY <2>1, <2>3 DEF Notified
    <2>. QED BY <2>2, <2>3
<1>4. Notified = [c \in Callers |-> Notified[c]]
    BY DEF Notified
<1>. QED BY <1>3, <1>4

\* The end of the task: cleanup, the drop of the runtime, what it publishes and whom it tells.
LEMMA TaskEndKeeps ==
    ASSUME IInv, TaskEnds
    PROVE  IInv'
<1>1. TypeOK /\ EgressExact /\ QueriesAsk /\ Causes /\ EndIsKnown /\ OkMeansStopped
    BY DEF IInv
<1>2. CASE cleanup
    <2>1. /\ phase = "cleanup" /\ io_stop' = TRUE /\ active_dns_queries' = 0
          /\ worker' = [x \in Work |-> "none"]
          /\ actor' = [actor EXCEPT !.accepting = FALSE, !.tcp = {}, !.udp = {}, !.pending_dns = 0]
          /\ UNCHANGED <<state, failure, forced, cancel, reader, unread, ingress, writer, egress,
                         egress_depth, events, phase, join, call>>
        BY <1>2 DEF cleanup, io, handle
    <2>2. /\ actor' \in Runtime /\ actor'.reader_eof_seen = actor.reader_eof_seen
          /\ actor'.fatal_failure = actor.fatal_failure /\ actor'.deadline = actor.deadline
        <3>1. actor \in Runtime /\ 0 \in 0..Cardinality(Queries) /\ FALSE \in BOOLEAN
            BY SMTT(60), <1>1, TunAssumption, FS_CardinalityType DEF TypeOK
        <3>. QED BY <2>1, <3>1 DEF Runtime
    <2>3. 0 \in 0..UsizeMax /\ TRUE \in BOOLEAN
        BY TunAssumption
    <2>4. TypeOK'
        BY <1>1, <2>1, <2>2, <2>3 DEF TypeOK
    <2>5. QueriesAsk' /\ DnsGaugeExact' /\ EgressExact'
        BY <1>1, <2>1 DEF QueriesAsk, DnsGaugeExact, Work, EgressExact, Holding, EgressClosed
    <2>6. Causes'
        BY <1>1, <2>1, <2>2 DEF Causes, Draining, Queued, InQueue
    <2>7. EndIsKnown' /\ OkMeansStopped'
        BY <1>1, <2>1 DEF EndIsKnown, Ended, OkMeansStopped
    <2>. QED BY <2>4, <2>5, <2>6, <2>7 DEF IInv
<1>3. CASE RuntimeDropped
    <2>1. /\ phase = "cleanup" /\ io_stop /\ reader = "done" /\ writer = "done"
          /\ phase' = "publish" /\ ingress' = 0 /\ egress_depth' = 0 /\ events' = <<>>
          /\ active_dns_queries' = Wrapped(active_dns_queries - Guards)
          /\ UNCHANGED <<state, failure, forced, cancel, io_stop, reader, unread, writer, egress,
                         worker, actor, join, call>>
        BY <1>3 DEF RuntimeDropped, handle
    <2>2. active_dns_queries' \in 0..UsizeMax
        <3>1. Guards \in Nat /\ active_dns_queries \in Int
            BY Zenon, <1>1, CountsAreInt
        <3>2. active_dns_queries - Guards \in Int
            BY <3>1
        <3>3. Wrapped(active_dns_queries - Guards) \in 0..UsizeMax
            BY Zenon, <3>2, WrapIsUsize
        <3>. QED BY Zenon, <2>1, <3>3
    <2>3. 0 \in 0..packet_queue_depth /\ <<>> \in Seq(EngineEvent) /\ Len(<<>>) <= event_queue_depth
        BY TunAssumption
    <2>4. TypeOK'
        BY <1>1, <2>1, <2>2, <2>3 DEF TypeOK
    <2>5. QueriesAsk' /\ DnsGaugeExact' /\ EgressExact'
        BY <1>1, <2>1 DEF QueriesAsk, DnsGaugeExact, EgressExact, Holding, EgressClosed
    <2>6. Causes'
        BY <1>1, <2>1 DEF Causes
    <2>7. EndIsKnown' /\ OkMeansStopped'
        BY <1>1, <2>1 DEF EndIsKnown, Ended, OkMeansStopped, Published
    <2>. QED BY <2>4, <2>5, <2>6, <2>7 DEF IInv
<1>4. CASE Publish
    <2>1. /\ phase = "publish" /\ phase' = "clear"
          /\ IF actor.fatal_failure = "none" THEN state' = "Stopped" /\ failure' = failure
             ELSE failure' = (IF failure = "none" THEN actor.fatal_failure ELSE failure) /\ state' = "Failed"
          /\ UNCHANGED <<forced, active_dns_queries, cancel, io_stop, reader, unread, ingress, writer,
                         egress, egress_depth, events, worker, actor, join, call>>
        BY <1>4 DEF Publish, SetFailure, io, handle
    <2>2. failure' \in PacketRuntimeFailure \cup {"none"} /\ state' \in Terminal
        BY <1>1, <2>1 DEF TypeOK, Runtime, Terminal
    <2>3. TypeOK'
        BY <1>1, <2>1, <2>2 DEF TypeOK
    <2>4. QueriesAsk' /\ DnsGaugeExact' /\ EgressExact'
        BY <1>1, <2>1 DEF QueriesAsk, DnsGaugeExact, EgressExact, Holding, EgressClosed
    <2>5. Causes'
        BY <1>1, <2>1 DEF Causes, Queued, InQueue
    <2>6. EndIsKnown' /\ OkMeansStopped'
        BY <1>1, <2>1 DEF EndIsKnown, Ended, OkMeansStopped, Published
    <2>. QED BY <2>3, <2>4, <2>5, <2>6 DEF IInv
<1>5. CASE clear_live_state
    <2>1. /\ phase = "clear" /\ phase' = "notify" /\ active_dns_queries' = 0
          /\ UNCHANGED <<state, failure, forced, cancel, io_stop, reader, unread, ingress, writer, egress,
                         egress_depth, events, worker, actor, join, call>>
        BY <1>5 DEF clear_live_state, io, handle
    <2>2. 0 \in 0..UsizeMax
        BY TunAssumption
    <2>3. TypeOK'
        BY <1>1, <2>1, <2>2 DEF TypeOK
    <2>4. QueriesAsk' /\ DnsGaugeExact' /\ EgressExact'
        BY <1>1, <2>1 DEF QueriesAsk, DnsGaugeExact, EgressExact, Holding, EgressClosed
    <2>5. Causes'
        BY <1>1, <2>1 DEF Causes, Queued, InQueue
    <2>6. EndIsKnown' /\ OkMeansStopped'
        BY <1>1, <2>1 DEF EndIsKnown, Ended, OkMeansStopped, Published
    <2>. QED BY <2>3, <2>4, <2>5, <2>6 DEF IInv
<1>6. CASE NotifyWaiters
    <2>1. /\ phase = "notify" /\ phase' = "finished" /\ call' = Notified
          /\ UNCHANGED <<state, failure, forced, active_dns_queries, cancel, io_stop, reader, unread,
                         ingress, writer, egress, egress_depth, events, worker, actor, join>>
        BY <1>6 DEF NotifyWaiters, counters, io
    <2>2. TypeOK'
        BY <1>1, <2>1, NotifiedCalls DEF TypeOK, CallRecord
    <2>3. QueriesAsk' /\ DnsGaugeExact' /\ EgressExact'
        BY <1>1, <2>1 DEF QueriesAsk, DnsGaugeExact, EgressExact, Holding, EgressClosed
    <2>4. Causes'
        BY <1>1, <2>1 DEF Causes, Queued, InQueue
    <2>5. EndIsKnown'
        BY <1>1, <2>1, NotifiedCalls DEF EndIsKnown, Ended, Published
    <2>6. OkMeansStopped'
        <3>1. DOMAIN call = Callers /\ DOMAIN call' = Callers
            BY <1>1, <2>2 DEF TypeOK
        <3>. QED BY <1>1, <2>1, <3>1, NotifiedCalls DEF OkMeansStopped
    <2>. QED BY <2>2, <2>3, <2>4, <2>5, <2>6 DEF IInv
<1>. QED BY <1>2, <1>3, <1>4, <1>5, <1>6 DEF TaskEnds

-----------------------------------------------------------------------------
\* The calls of shutdown

\* A caller changes the calls, the token and the failure; the invariant is kept when an
\* end is known to those who report it and the token is cancelled for those who wait.
LEMMA CallFrame ==
    ASSUME IInv, UNCHANGED <<task, active_dns_queries>>, call' \in [Callers -> CallRecord],
           join' \in {"held", "taken"}, cancel' \in BOOLEAN, cancel => cancel', forced' \in BOOLEAN,
           \/ state' = state /\ failure' = failure
           \/ /\ state' = "Failed" /\ failure' \in PacketRuntimeFailure,
           \A c \in Callers : call'[c].at = "report" \/ call'[c].already_stopped => Ended',
           \A c \in Callers : call'[c].at \notin {"idle", "called"} => cancel',
           \A c \in Callers : call'[c].result = "ok" => call'[c].seen = "Stopped"
    PROVE  IInv'
<1>1. UNCHANGED <<phase, io_stop, reader, unread, ingress, writer, egress, egress_depth, events, worker,
                  actor, active_dns_queries>>
    BY DEF task, io
<1>2. TypeOK /\ EgressExact /\ QueriesAsk /\ DnsGaugeExact /\ Causes /\ EndIsKnown
    BY DEF IInv
<1>3. TypeOK'
    BY ZenonT(60), <1>1, <1>2 DEF TypeOK, CallRecord, Terminal, PacketRuntimeFailure
<1>4. QueriesAsk' /\ EgressExact'
    BY <1>1, <1>2 DEF QueriesAsk, EgressExact, Holding, EgressClosed
<1>5. DnsGaugeExact'
    BY <1>1, <1>2 DEF DnsGaugeExact, LiveQueries, Guards
<1>6. Causes'
    BY <1>1, <1>2 DEF Causes, Queued, InQueue
<1>7. EndIsKnown'
    BY <1>1, <1>2 DEF EndIsKnown, Ended, Published, PacketRuntimeFailure
<1>8. OkMeansStopped'
    BY DEF OkMeansStopped
<1>. QED BY <1>3, <1>4, <1>5, <1>6, <1>7, <1>8 DEF IInv

\* What EndIsKnown and OkMeansStopped say of a call.
LEMMA CallFacts ==
    ASSUME IInv, NEW d \in Callers
    PROVE  /\ call[d] \in CallRecord
           /\ call[d].at = "report" \/ call[d].already_stopped => Ended
           /\ call[d].at \notin {"idle", "called"} => cancel
           /\ call[d].result = "ok" => call[d].seen = "Stopped"
BY DEF IInv, TypeOK, CallRecord, EndIsKnown, OkMeansStopped

\* A caller goes to the next point of shutdown, and nobody else's call changes.
LEMMA MovedCalls ==
    ASSUME IInv, NEW c \in Callers,
           NEW p \in {"joining", "aborting", "check", "waiting", "failing", "report"}, At(c, p)
    PROVE  /\ call' \in [Callers -> CallRecord] /\ call'[c].at = p
           /\ \A d \in Callers : /\ d # c => call'[d].at = call[d].at
                                 /\ call'[d].already_stopped = call[d].already_stopped
                                 /\ call'[d].result = call[d].result /\ call'[d].seen = call[d].seen
<1>1. call \in [Callers -> CallRecord] /\ call' = [call EXCEPT ![c].at = p]
    BY DEF IInv, TypeOK, CallRecord, At
<1>2. ASSUME NEW r \in CallRecord
      PROVE  LET n == [r EXCEPT !.at = p]
             IN  /\ n \in CallRecord /\ n.at = p /\ n.already_stopped = r.already_stopped
                 /\ n.result = r.result /\ n.seen = r.seen
    BY DEF CallRecord
<1>3. call'[c] = [call[c] EXCEPT !.at = p] /\ \A d \in Callers : d # c => call'[d] = call[d]
    BY <1>1
<1>4. call[c] \in CallRecord
    BY <1>1
<1>5. /\ call'[c] \in CallRecord /\ call'[c].at = p
      /\ call'[c].already_stopped = call[c].already_stopped
      /\ call'[c].result = call[c].result /\ call'[c].seen = call[c].seen
    BY <1>2, <1>3, <1>4
<1>6. call' \in [Callers -> CallRecord]
    BY <1>1, <1>3, <1>5
<1>. QED BY <1>3, <1>5, <1>6

\* Moving on keeps the invariant when the token is cancelled and an end is known to
\* the caller that goes to report it.
LEMMA MoveKeeps ==
    ASSUME IInv, NEW c \in Callers,
           NEW p \in {"joining", "aborting", "check", "waiting", "failing", "report"}, At(c, p),
           UNCHANGED <<task, active_dns_queries>>, join' \in {"held", "taken"}, cancel', cancel' \in BOOLEAN,
           forced' \in BOOLEAN,
           \/ state' = state /\ failure' = failure
           \/ /\ state' = "Failed" /\ failure' \in PacketRuntimeFailure,
           Ended => Ended', p = "report" => Ended'
    PROVE  IInv'
BY ZenonT(60), MovedCalls, CallFacts, CallFrame

\* The task that is aborted takes its queue and its workers with it.
LEMMA AbortedKeeps ==
    ASSUME IInv, NEW c \in Callers, Aborted(c)
    PROVE  IInv'
<1>1. TypeOK /\ EgressExact /\ QueriesAsk /\ Causes /\ EndIsKnown /\ OkMeansStopped
    BY DEF IInv
<1>2. /\ call[c].at = "aborting" /\ At(c, "failing")
      /\ UNCHANGED <<state, failure, forced, cancel, io_stop, reader, unread, ingress, writer, egress,
                     egress_depth, actor, join>>
    BY DEF Aborted, io
<1>3. cancel /\ (Ended' <=> Ended)
    BY <1>2, CallFacts DEF Ended
<1>4. CASE phase = "finished" /\ UNCHANGED <<phase, events, worker, active_dns_queries>>
    <2>1. UNCHANGED <<task, active_dns_queries>>
        BY <1>2, <1>4 DEF task, io
    <2>. QED BY <1>1, <1>2, <1>3, <2>1, MoveKeeps DEF TypeOK
<1>5. CASE /\ phase \in {"run", "cleanup"} /\ phase' = "aborted" /\ events' = <<>>
           /\ worker' = [x \in Work |-> "none"]
           /\ active_dns_queries' = Wrapped(active_dns_queries - Guards - LiveQueries)
    <2>1. active_dns_queries' \in 0..UsizeMax
        BY <1>1, <1>5, CountsAreInt, WrapIsUsize
    <2>2. <<>> \in Seq(EngineEvent) /\ Len(<<>>) <= event_queue_depth
        BY TunAssumption
    <2>3. /\ call' \in [Callers -> CallRecord] /\ call'[c].at = "failing"
          /\ \A d \in Callers : /\ d # c => call'[d].at = call[d].at
                                /\ call'[d].already_stopped = call[d].already_stopped
                                /\ call'[d].result = call[d].result /\ call'[d].seen = call[d].seen
        BY <1>2, MovedCalls
    <2>4. TypeOK'
        BY <1>1, <1>2, <1>5, <2>1, <2>2, <2>3 DEF TypeOK, CallRecord
    <2>5. QueriesAsk' /\ DnsGaugeExact' /\ EgressExact'
        BY <1>1, <1>2, <1>5 DEF QueriesAsk, DnsGaugeExact, Work, EgressExact, Holding, EgressClosed
    <2>6. Causes'
        <3>1. ~(Queued("PacketEof")')
            BY <1>5 DEF Queued, InQueue
        <3>2. cancel' /\ cancel /\ io_stop' = io_stop /\ phase' # "run" /\ actor' = actor /\ reader' = reader
            BY <1>2, <1>3, <1>5
        <3>. QED BY <1>1, <3>1, <3>2 DEF Causes
    <2>7. EndIsKnown'
        BY <1>1, <1>2, <1>3, <1>5, <2>3 DEF EndIsKnown, Published
    <2>8. OkMeansStopped'
        BY <1>1, <2>3, CallFacts DEF OkMeansStopped
    <2>. QED BY <2>4, <2>5, <2>6, <2>7, <2>8 DEF IInv
<1>. QED BY <1>4, <1>5 DEF Aborted

\* The first failure is kept, and there is one afterwards.
LEMMA FailureIsKept ==
    ASSUME TypeOK, NEW f \in PacketRuntimeFailure, SetFailure(f)
    PROVE  state' = "Failed" /\ failure' \in PacketRuntimeFailure /\ Ended'
BY DEF SetFailure, TypeOK, Ended, PacketRuntimeFailure

\* Whatever a caller of shutdown does next.
LEMMA CallKeeps ==
    ASSUME IInv, NEW c \in Callers, CallStep(c)
    PROVE  IInv'
<1>1. /\ TypeOK /\ EndIsKnown /\ call \in [Callers -> CallRecord] /\ call[c] \in CallRecord
      /\ join \in {"held", "taken"} /\ cancel \in BOOLEAN /\ forced \in BOOLEAN
    BY DEF IInv, TypeOK, CallRecord
<1>2. CASE ShutdownCalled(c)
    <2>. DEFINE n == [call[c] EXCEPT !.at = "called", !.already_stopped = state \in Terminal]
    <2>1. /\ call[c].at = "idle" /\ call' = [call EXCEPT ![c] = n]
          /\ UNCHANGED <<state, failure, forced, active_dns_queries, cancel, task, join>>
        BY <1>2 DEF ShutdownCalled, counters
    <2>2. (state \in Terminal) \in BOOLEAN
        OBVIOUS
    <2>3. /\ n \in CallRecord /\ n.at = "called" /\ n.result = call[c].result /\ n.seen = call[c].seen
          /\ (n.already_stopped <=> state \in Terminal)
        BY <1>1, <2>2 DEF CallRecord
    <2>. HIDE DEF n
    <2>4. call'[c] = n /\ \A d \in Callers : d # c => call'[d] = call[d]
        BY <1>1, <2>1
    <2>5. call' \in [Callers -> CallRecord]
        BY <1>1, <2>1, <2>3
    <2>6. state \in Terminal => Ended
        BY <1>1 DEF EndIsKnown, Terminal, Ended
    <2>7. Ended' <=> Ended
        BY <2>1 DEF Ended
    <2>. QED BY <1>1, <2>1, <2>3, <2>4, <2>5, <2>6, <2>7, CallFacts, CallFrame
<1>3. CASE ShutdownCancels(c)
    <2>. DEFINE p == CASE join = "held" -> "joining"
                       [] join = "taken" /\ call[c].already_stopped -> "report"
                       [] OTHER -> "check"
    <2>1. /\ cancel' = TRUE /\ join' = "taken" /\ At(c, p)
          /\ UNCHANGED <<state, failure, forced, active_dns_queries, task>>
        BY <1>3 DEF ShutdownCancels, counters
    <2>2. p \in {"joining", "check", "report"} /\ (p = "report" => call[c].already_stopped)
        BY <1>1
    <2>. HIDE DEF p
    <2>3. Ended' <=> Ended
        BY <2>1 DEF Ended
    <2>. QED BY <1>1, <2>1, <2>2, <2>3, CallFacts, MoveKeeps
<1>4. CASE Joined(c)
    <2>1. /\ call[c].at = "joining" /\ phase = "finished" /\ At(c, "report")
          /\ IF actor.fatal_failure = "none" THEN UNCHANGED <<state, failure>>
             ELSE SetFailure(actor.fatal_failure)
          /\ UNCHANGED <<forced, active_dns_queries, cancel, task, join>>
        BY <1>4 DEF Joined
    <2>2. Ended
        BY <1>1, <2>1 DEF EndIsKnown, Published
    <2>3. cancel
        BY <2>1, CallFacts
    <2>4. CASE actor.fatal_failure = "none"
        <3>1. Ended' <=> Ended
            BY <2>1, <2>4 DEF Ended
        <3>. QED BY <1>1, <2>1, <2>2, <2>3, <2>4, <3>1, MoveKeeps
    <2>5. CASE actor.fatal_failure # "none"
        <3>1. actor.fatal_failure \in PacketRuntimeFailure
            BY <1>1, <2>5 DEF TypeOK, Runtime
        <3>2. state' = "Failed" /\ failure' \in PacketRuntimeFailure /\ Ended'
            BY <1>1, <2>1, <2>5, <3>1, FailureIsKept
        <3>. QED BY <1>1, <2>1, <2>3, <3>2, MoveKeeps
    <2>. QED BY <2>4, <2>5
<1>5. CASE Timeout(c)
    <2>1. /\ \/ call[c].at = "joining" /\ At(c, "aborting")
             \/ call[c].at \in {"check", "waiting", "notified"} /\ At(c, "failing")
          /\ UNCHANGED <<state, failure, forced, active_dns_queries, cancel, task, join>>
        BY <1>5 DEF Timeout, counters
    <2>2. (Ended' <=> Ended) /\ cancel
        BY <2>1, CallFacts DEF Ended
    <2>. QED BY <1>1, <2>1, <2>2, MoveKeeps
<1>6. CASE TimedOut(c)
    <2>1. /\ call[c].at = "failing" /\ At(c, "report") /\ forced' = TRUE
          /\ SetFailure("ShutdownTimedOut") /\ UNCHANGED <<active_dns_queries, cancel, task, join>>
        BY <1>6 DEF TimedOut
    <2>2. "ShutdownTimedOut" \in PacketRuntimeFailure
        BY DEF PacketRuntimeFailure
    <2>3. state' = "Failed" /\ failure' \in PacketRuntimeFailure /\ Ended'
        BY <1>1, <2>1, <2>2, FailureIsKept
    <2>4. cancel
        BY <2>1, CallFacts
    <2>. QED BY <1>1, <2>1, <2>3, <2>4, MoveKeeps
<1>7. CASE WaitForTerminal(c)
    <2>1. /\ \/ call[c].at \in {"check", "notified"} /\ state \in Terminal /\ At(c, "report")
             \/ call[c].at = "check" /\ At(c, "waiting")
             \/ call[c].at = "notified" /\ At(c, "check")
          /\ UNCHANGED <<state, failure, forced, active_dns_queries, cancel, task, join>>
        BY <1>7 DEF WaitForTerminal, counters
    <2>2. (Ended' <=> Ended) /\ (state \in Terminal => Ended)
        BY <1>1, <2>1 DEF Ended, EndIsKnown, Terminal
    <2>3. cancel
        BY <2>1, CallFacts
    <2>. QED BY <1>1, <2>1, <2>2, <2>3, MoveKeeps
<1>8. CASE Report(c)
    <2>. DEFINE n == [call[c] EXCEPT !.at = "returned", !.seen = state,
                                     !.result = IF failure = "none" THEN "ok" ELSE failure]
    <2>1. /\ call[c].at = "report" /\ call' = [Notified EXCEPT ![c] = n]
          /\ UNCHANGED <<state, failure, forced, active_dns_queries, cancel, task, join>>
        BY <1>8 DEF Report, counters
    <2>2. /\ state \in Terminal \cup {"none", "Running", "Draining"}
          /\ (IF failure = "none" THEN "ok" ELSE failure) \in PacketRuntimeFailure \cup {"none", "ok"}
          /\ failure # "ok"
        BY <1>1 DEF TypeOK, PacketRuntimeFailure
    <2>3. /\ n \in CallRecord /\ n.at = "returned" /\ n.seen = state
          /\ n.already_stopped = call[c].already_stopped
          /\ n.result = IF failure = "none" THEN "ok" ELSE failure
        BY <1>1, <2>2 DEF CallRecord
    <2>. HIDE DEF n
    <2>4. call'[c] = n /\ \A d \in Callers : d # c => call'[d] = Notified[d]
        BY <1>1, <2>1, NotifiedCalls
    <2>5. call' \in [Callers -> CallRecord]
        BY <1>1, <2>1, <2>3, NotifiedCalls
    <2>6. Ended /\ cancel /\ (Ended' <=> Ended)
        BY <2>1, CallFacts DEF Ended
    <2>7. n.result = "ok" => n.seen = "Stopped"
        BY <2>2, <2>3, <2>6 DEF Ended
    <2>. QED BY ZenonT(60), <1>1, <2>1, <2>3, <2>4, <2>5, <2>6, <2>7, NotifiedCalls, CallFacts, CallFrame
<1>. QED
    BY <1>2, <1>3, <1>4, <1>5, <1>6, <1>7, <1>8, AbortedKeeps DEF CallStep

-----------------------------------------------------------------------------
\* The invariant and what follows from it

\* start_packet_runtime establishes the invariant: nothing is queued, asked or called.
LEMMA InitKeeps ==
    ASSUME Init
    PROVE  IInv
<1>1. /\ 0 \in 0..UsizeMax /\ MaxPackets \in 0..MaxPackets /\ 0 \in 0..packet_queue_depth
      /\ <<>> \in Seq(EngineEvent) /\ Len(<<>>) <= event_queue_depth
      /\ 0 \in 0..Cardinality(Queries) /\ packet_queue_depth \in Nat
    BY TunAssumption, FS_CardinalityType
<1>2. actor \in Runtime
    BY <1>1 DEF Init, Runtime
<1>3. call \in [Callers -> CallRecord]
    BY DEF Init, NoCall, CallRecord
<1>4. TypeOK
    <2>1. /\ state \in {"Running", "Draining"} \cup Terminal
          /\ failure \in PacketRuntimeFailure \cup {"none"}
          /\ forced \in BOOLEAN /\ cancel \in BOOLEAN /\ io_stop \in BOOLEAN
          /\ reader \in Readers /\ writer \in Writers /\ join \in {"held", "taken"}
          /\ phase \in {"run", "cleanup", "publish", "clear", "notify", "finished", "aborted"}
        <3>1. /\ state = "Running" /\ failure = "none" /\ reader = "receive"
              /\ writer = "wait" /\ join = "held" /\ phase = "run"
            BY DEF Init
        <3>2. forced = FALSE /\ cancel = FALSE /\ io_stop = FALSE
            BY DEF Init
        <3>3. forced \in BOOLEAN /\ cancel \in BOOLEAN /\ io_stop \in BOOLEAN
            BY Zenon, <3>2
        <3>. QED BY <3>1, <3>3 DEF Readers, Writers
    <2>2. active_dns_queries = 0 /\ unread = MaxPackets /\ ingress = 0 /\ egress = 0 /\ egress_depth = 0
        BY DEF Init
    <2>3. /\ active_dns_queries \in 0..UsizeMax /\ unread \in 0..MaxPackets
          /\ ingress \in 0..packet_queue_depth /\ egress \in 0..packet_queue_depth
          /\ egress_depth \in 0..packet_queue_depth
        BY <1>1, <2>2
    <2>4. events = <<>> /\ worker = [x \in Work |-> "none"]
        BY DEF Init
    <2>5. events \in Seq(EngineEvent) /\ Len(events) <= event_queue_depth
        BY <1>1, <2>4
    <2>6. worker \in [Work -> {"none", "opening", "serving", "leaving", "finished", "panic"}]
        BY <2>4
    <2>. QED BY <1>2, <1>3, <2>1, <2>3, <2>5, <2>6 DEF TypeOK, CallRecord
<1>5. events = <<>> /\ \A q \in Queries : worker[q] = "none"
    <2>1. events = <<>> /\ worker = [x \in Work |-> "none"]
        BY DEF Init
    <2>2. Queries \subseteq Work
        BY DEF Work
    <2>. QED BY <2>1, <2>2
<1>6. LiveSet(worker) = {} /\ GuardSet(events) = {}
    <2>1. LiveSet(worker) = {}
        BY <1>5 DEF LiveSet
    <2>2. DOMAIN events = {}
        BY <1>5
    <2>. QED BY <2>1, <2>2 DEF GuardSet
<1>7. DnsGaugeExact
    <2>1. Cardinality({}) = 0
        BY FS_EmptySet
    <2>2. LiveQueries = 0 /\ Guards = 0
        BY <1>4, <1>6, <2>1, Counts
    <2>3. active_dns_queries = 0
        BY DEF Init
    <2>. QED BY <2>2, <2>3 DEF DnsGaugeExact
<1>8. QueriesAsk
    BY <1>5 DEF QueriesAsk
<1>9. EgressExact
    <2>1. writer = "wait" /\ egress = 0 /\ egress_depth = 0
        BY DEF Init
    <2>2. Holding = 0
        BY <2>1 DEF Holding
    <2>. QED BY <1>1, <2>1, <2>2 DEF EgressExact
<1>10. Causes
    <2>1. /\ ~actor.reader_eof_seen /\ actor.deadline = "none"
          /\ phase = "run" /\ ~io_stop /\ writer = "wait"
        BY DEF Init
    <2>2. ~Queued("PacketEof")
        BY <1>5 DEF Queued, InQueue
    <2>. QED BY <2>1, <2>2 DEF Causes, Draining
<1>11. EndIsKnown /\ OkMeansStopped
    <2>1. state = "Running" /\ phase = "run" /\ call = [c \in Callers |-> NoCall]
        BY DEF Init
    <2>. QED BY <2>1 DEF NoCall, EndIsKnown, Published, OkMeansStopped
<1>. QED BY <1>4, <1>7, <1>8, <1>9, <1>10, <1>11 DEF IInv

\* A step that changes nothing keeps it.
LEMMA StutterKeeps ==
    ASSUME IInv, UNCHANGED vars
    PROVE  IInv'
<1>1. UNCHANGED <<state, failure, forced, active_dns_queries, cancel, io_stop, reader, unread, ingress,
                  writer, egress, egress_depth, events, worker, actor, phase, join, call>>
    BY DEF vars, counters, io, handle
<1>2. TypeOK'
    BY <1>1 DEF IInv, TypeOK
<1>3. EgressExact' /\ QueriesAsk' /\ DnsGaugeExact'
    BY <1>1 DEF IInv, EgressExact, Holding, EgressClosed, QueriesAsk, DnsGaugeExact, LiveQueries, Guards
<1>4. Causes' /\ EndIsKnown' /\ OkMeansStopped'
    BY <1>1 DEF IInv, Causes, Queued, InQueue, EndIsKnown, Ended, OkMeansStopped
<1>. QED BY <1>2, <1>3, <1>4 DEF IInv

\* Every reachable state of the packet runtime is well typed, counts its egress packets
\* and its DNS queries exactly, knows why it drains and publishes its end before anybody
\* hears of it.
THEOREM Invariance == Spec => []IInv
<1>1. Init => IInv
    BY InitKeeps
<1>2. IInv /\ [Next]_vars => IInv'
    BY IoKeeps, ActorKeeps, DeadlineKeeps, TaskEndKeeps, WorkerKeeps, CallKeeps, StutterKeeps DEF Next
<1>. QED BY <1>1, <1>2, PTL DEF Spec

\* The variables of run_runtime, its device tasks and its callers keep their types; no
\* queue outgrows its depth and the gauge of DNS queries never wraps below zero.
THEOREM TypeCorrect == Spec => []TypeOK
<1>1. IInv => TypeOK
    BY DEF IInv
<1>. QED BY <1>1, Invariance, PTL

\* PacketRuntimeHandle::shutdown reports success only of a runtime that stopped, the
\* gauge of DNS queries is exact while the actor runs, and a stop without a failure was
\* asked for or follows the end of the device.
THEOREM StopsInOrder == Spec => []RuntimeStopsInOrder
<1>1. IInv => RuntimeStopsInOrder
    BY DEF IInv, RuntimeStopsInOrder, CleanStopHasCause, Causes
<1>. QED BY <1>1, Invariance, PTL

\* The actor leaves its loop while it drains, and unless it is forced to, with empty
\* queues.
LEMMA TurnEnds ==
    ASSUME NEW a, NEW w, NEW gauge, Turn(a, w, gauge)
    PROVE  TurnStops /\ UNCHANGED <<cancel, io_stop, reader, writer>>
<1>1. PICK left \in 0..a.incoming, filled \in a.outgoing..packet_queue_depth,
           closed \in SUBSET a.tcp, started \in SUBSET ((Associations \cup Queries) \ a.udp),
           held \in 0..a.pending_dns, connected \in BOOLEAN :
      LET b == drive_tcp(poll_engine(reap_completed_tasks(a, w), left, filled), closed)
          c == send_udp_responses(drain_udp_requests(b, started), held)
          d == flush_device_output(c)
          v == Started(Reaped(w), started)
      IN  /\ MayPoll(a, left, filled) /\ MayStart(b, Reaped(w), started, a.incoming - left, gauge)
          /\ active_dns_queries' = gauge + Cardinality(started \cap Queries)
          /\ egress' = IF EgressClosed THEN egress ELSE egress + Flushed(c)
          /\ egress_depth' = IF EgressClosed THEN egress_depth ELSE egress_depth + Flushed(c)
          /\ actor' = d /\ worker' = v
          /\ state' = IF Draining(d) /\ ~Draining(actor) THEN "Draining" ELSE state
          /\ phase' = IF should_stop(d, v, connected) THEN "cleanup" ELSE phase
          /\ forced' = (forced \/ (should_stop(d, v, connected)
                                   /\ ~(quiescent(d, v) /\ ~connected)))
          /\ UNCHANGED <<failure, cancel, io_stop, reader, unread, writer, handle>>
    BY Zenon DEF Turn
<1>2. /\ phase' = IF should_stop(actor', worker', connected) THEN "cleanup" ELSE phase
      /\ forced' = (forced \/ (should_stop(actor', worker', connected)
                               /\ ~(quiescent(actor', worker') /\ ~connected)))
      /\ UNCHANGED <<cancel, io_stop, reader, writer>>
    BY <1>1
<1>3. CASE should_stop(actor', worker', connected)
    BY <1>2, <1>3 DEF should_stop, quiescent, TurnStops
<1>4. CASE ~should_stop(actor', worker', connected)
    BY <1>2, <1>4 DEF TurnStops
<1>. QED BY <1>2, <1>3, <1>4

\* Only the actor leaves the loop.
LEMMA ActorLeaves ==
    ASSUME Next, phase = "run", phase' = "cleanup"
    PROVE  ActorStep
<1>1. ~IoStep
    BY DEF IoStep, ReaderReceives, ReaderQueues, ReaderReports, ReaderStops, WriterTakes, WriterSends,
       WriterReports, WriterStops, WriterDrains, others
<1>. QED BY <1>1 DEF Next, DeadlinePasses, TaskEnds, cleanup, RuntimeDropped, Publish, clear_live_state,
       NotifyWaiters, WorkerStep, CallStep, ShutdownCalled, ShutdownCancels, Joined, Timeout, Aborted,
       TimedOut, WaitForTerminal, Report, task

\* What the actor leaves behind when it leaves the loop.
LEMMA LoopEnds ==
    ASSUME Next, phase = "run", phase' = "cleanup"
    PROVE  TurnStops /\ UNCHANGED <<cancel, io_stop, reader, writer>>
<1>1. ActorStep
    BY ActorLeaves
<1>. QED BY <1>1, TurnEnds DEF ActorStep, TurnCancelled, TurnTick, TurnIngressClosed, TurnEvent, TurnPacket

\* When the device ends by itself, the runtime leaves its loop without force and without
\* a failure only once the reader is done, the queues are empty and the writer has
\* written all it was given.
THEOREM EofDrains == Spec => EofDrainsEverything
<1>. DEFINE Leaves == phase = "run" /\ phase' = "cleanup" /\ ~cancel /\ ~forced'
                        /\ actor'.fatal_failure = "none"
            Drained == reader = "done" /\ ingress' = 0 /\ egress' = 0 /\ writer = "wait" /\ events' = <<>>
<1>1. ASSUME IInv, IInv', Next, Leaves
      PROVE  Drained
    <2>1. TurnStops /\ UNCHANGED <<cancel, io_stop, reader, writer>>
        BY <1>1, LoopEnds
    <2>2. /\ Draining(actor') /\ egress_depth' = 0 /\ ingress' = 0 /\ events' = <<>>
          /\ ~cancel' /\ ~io_stop' /\ writer \in Writers
        BY <1>1, <2>1 DEF TurnStops, IInv, Causes, TypeOK
    <2>3. reader = "done"
        BY <1>1, <2>1, <2>2 DEF IInv, Causes
    <2>4. ~Queued("PacketWriteFailed")'
        BY <2>2 DEF Queued, InQueue
    <2>5. writer \notin {"drain", "drop", "done"}
        BY <1>1, <2>1, <2>2, <2>4 DEF IInv, Causes
    <2>6. writer \notin {"send", "error", "panicked"} /\ egress' = 0
        <3>1. egress' \in Nat /\ packet_queue_depth \in Nat
            <4>1. egress' \in 0..packet_queue_depth /\ packet_queue_depth \in Nat
                BY Zenon, <1>1, TunAssumption DEF IInv, TypeOK
            <4>. QED BY <4>1
        <3>2. writer # "panicked"
            BY <1>1, <2>1, <2>2 DEF IInv, EgressExact
        <3>3. egress' + Holding' = 0
            BY <1>1, <2>1, <2>2, <2>5, <3>2 DEF IInv, EgressExact, EgressClosed
        <3>4. Holding' = IF writer \in {"send", "error"} THEN 1 ELSE 0
            BY <2>1 DEF Holding
        <3>5. Holding' \in {0, 1}
            BY <3>4
        <3>6. \A n \in Nat : \A h \in {0, 1} : n + h = 0 => n = 0 /\ h = 0
            OBVIOUS
        <3>7. egress' = 0 /\ Holding' = 0
            BY <3>1, <3>3, <3>5, <3>6
        <3>8. writer # "send" /\ writer # "error"
            BY <3>4, <3>7
        <3>. QED BY <3>2, <3>7, <3>8
    <2>. QED BY <2>2, <2>3, <2>5, <2>6 DEF Writers
<1>2. IInv /\ IInv' /\ [Next]_vars => [Leaves => Drained]_vars
    BY <1>1
<1>. QED BY <1>2, Invariance, PTL DEF Spec, EofDrainsEverything
=============================================================================
