----------------------------- MODULE TunRuntime -----------------------------
(***************************************************************************)
(* The lifecycle of the packet runtime (crates/maverick-tun/src/runtime.rs)*)
(* : the reader and writer tasks of the packet device with their monitors, *)
(* the actor, the workers it spawns, draining and cleanup, and the callers *)
(* of PacketRuntimeHandle::shutdown.                                       *)
(*                                                                         *)
(* io_cancel and udp_dns_cancel are children of the token shutdown cancels.*)
(* What a TCP flow or an association carries is the matter of TunTcpFlow   *)
(* and TunDatagrams: here a worker is open, serving or leaving.            *)
(***************************************************************************)
EXTENDS Integers, Sequences, FiniteSets

CONSTANTS
    Callers, Flows, Associations, Queries,
    MaxPackets,                 \* packets the device delivers
    packet_queue_depth, event_queue_depth,
    Faults,                     \* what may fail: "read", "write", "panic"
    UsizeMax                    \* usize::MAX, scaled down

ASSUME TunAssumption ==
    /\ Flows \cap Associations = {} /\ Flows \cap Queries = {} /\ Associations \cap Queries = {}
    /\ MaxPackets \in Nat /\ packet_queue_depth \in Nat /\ event_queue_depth \in Nat
    /\ UsizeMax \in Nat /\ IsFiniteSet(Queries) /\ Cardinality(Queries) <= UsizeMax

VARIABLES
    state, failure, forced, active_dns_queries,         \* Counters
    cancel, io_stop,            \* the handle's token; cleanup's io_cancel.cancel()
    reader, unread, ingress,    \* the reader, packets left, the ingress queue
    writer, egress, egress_depth,
    events, worker, actor,
    phase,                      \* of the task start_packet_runtime spawns
    join, call                  \* HandleInner.join, the calls of shutdown

counters == <<state, failure, forced, active_dns_queries>>
io == <<reader, unread, ingress, writer, egress, egress_depth>>
handle == <<join, call>>
vars == <<counters, cancel, io_stop, io, events, worker, actor, phase, handle>>

Work == Flows \cup Associations \cup Queries
Terminal == {"Stopped", "Failed"}
PacketRuntimeFailure == {"PacketRead", "PacketWrite", "Task", "ShutdownTimedOut"}
EngineEvent == [type : {"PacketReadFailed", "PacketWriteFailed", "PacketEof"}]
               \cup [type : {"Done", "DnsResponse"}, of : Work]
Readers == {"receive", "hold", "eof", "error", "panicked", "done"}
Writers == {"wait", "send", "error", "panicked", "drain", "drop", "done"}

\* tcp and udp: the keys that have an entry; deadline: draining_deadline.
Runtime == [accepting : BOOLEAN, deadline : {"none", "set", "passed"},
            fatal_failure : PacketRuntimeFailure \cup {"none"},
            ingress_open : BOOLEAN, reader_eof_seen : BOOLEAN,
            tcp : SUBSET Flows, udp : SUBSET Associations,
            pending_dns : 0..Cardinality(Queries),
            incoming : 0..packet_queue_depth, outgoing : 0..packet_queue_depth]

TypeOK ==
    /\ state \in {"Running", "Draining"} \cup Terminal
    /\ failure \in PacketRuntimeFailure \cup {"none"}
    /\ forced \in BOOLEAN /\ active_dns_queries \in 0..UsizeMax
    /\ cancel \in BOOLEAN /\ io_stop \in BOOLEAN
    /\ reader \in Readers /\ unread \in 0..MaxPackets /\ ingress \in 0..packet_queue_depth
    /\ writer \in Writers /\ egress \in 0..packet_queue_depth
    /\ egress_depth \in 0..packet_queue_depth
    /\ events \in Seq(EngineEvent) /\ Len(events) <= event_queue_depth
    /\ worker \in [Work -> {"none", "opening", "serving", "leaving", "finished", "panic"}]
    /\ actor \in Runtime
    /\ phase \in {"run", "cleanup", "publish", "clear", "notify", "finished", "aborted"}
    /\ join \in {"held", "taken"}
    /\ call \in [Callers -> [at : {"idle", "called", "joining", "aborting", "check",
                                   "waiting", "notified", "failing", "report", "returned"},
                             already_stopped : BOOLEAN,
                             result : PacketRuntimeFailure \cup {"none", "ok"},
                             seen : Terminal \cup {"none", "Running", "Draining"}]]

NoCall == [at |-> "idle", already_stopped |-> FALSE, result |-> "none", seen |-> "none"]

\* start_packet_runtime and the start of run_runtime.
Init ==
    /\ state = "Running" /\ failure = "none" /\ forced = FALSE /\ active_dns_queries = 0
    /\ cancel = FALSE /\ io_stop = FALSE
    /\ reader = "receive" /\ unread = MaxPackets /\ ingress = 0
    /\ writer = "wait" /\ egress = 0 /\ egress_depth = 0
    /\ events = <<>> /\ worker = [x \in Work |-> "none"]
    /\ actor = [accepting |-> TRUE, deadline |-> "none", fatal_failure |-> "none",
                ingress_open |-> TRUE, reader_eof_seen |-> FALSE, tcp |-> {}, udp |-> {},
                pending_dns |-> 0, incoming |-> 0, outgoing |-> 0]
    /\ phase = "run" /\ join = "held" /\ call = [c \in Callers |-> NoCall]

Wrapped(n) == n % (UsizeMax + 1)
IoCancelled == cancel \/ io_stop
Draining(a) == a.deadline # "none"
WorkCancelled == cancel \/ Draining(actor)

\* fail: the first failure is kept.
SetFailure(f) == failure' = (IF failure = "none" THEN f ELSE failure) /\ state' = "Failed"

Send(e) == Len(events) < event_queue_depth /\ events' = Append(events, e)

-----------------------------------------------------------------------------
(* packet_reader_task, packet_writer_task and io_task_monitor.              *)

others == <<counters, cancel, io_stop, worker, actor, phase, handle>>
writing == <<writer, egress, egress_depth>>
reading == <<reader, unread, ingress>>

ReaderReceives ==
    /\ reader = "receive" /\ ~IoCancelled
    /\ \/ unread > 0 /\ reader' = "hold" /\ unread' = unread - 1
       \/ reader' = "eof" /\ UNCHANGED unread
       \/ "read" \in Faults /\ reader' \in {"error", "panicked"} /\ UNCHANGED unread
    /\ UNCHANGED <<ingress, writing, events, others>>

ReaderQueues ==
    /\ reader = "hold" /\ ingress < packet_queue_depth /\ phase \in {"run", "cleanup"}
    /\ ingress' = ingress + 1 /\ reader' = "receive"
    /\ UNCHANGED <<unread, writing, events, others>>

\* send_io_event, of the task or of its monitor after a panic.
ReaderReports ==
    /\ reader \in {"eof", "error", "panicked"}
    /\ Send([type |-> IF reader = "eof" THEN "PacketEof" ELSE "PacketReadFailed"])
    /\ reader' = "done"
    /\ UNCHANGED <<unread, ingress, writing, others>>

ReaderStops ==
    /\ reader # "done" /\ IoCancelled /\ reader' = "done"
    /\ UNCHANGED <<unread, ingress, writing, events, others>>

WriterTakes ==
    /\ writer = "wait" /\ egress > 0
    /\ writer' = "send" /\ egress' = egress - 1
    /\ UNCHANGED <<egress_depth, reading, events, others>>

WriterSends ==
    /\ writer = "send"
    /\ \/ /\ writer' = "wait" /\ egress_depth' = egress_depth - 1
          /\ UNCHANGED egress
       \/ "write" \in Faults /\ writer' = "error" /\ UNCHANGED <<egress, egress_depth>>
       \/ "write" \in Faults /\ writer' = "panicked" /\ egress' = 0 /\ UNCHANGED <<egress_depth>>
    /\ UNCHANGED <<reading, events, others>>

\* A panic of the writer leaves its packets in the gauge.
WriterReports ==
    /\ writer \in {"error", "panicked"} /\ Send([type |-> "PacketWriteFailed"])
    /\ \/ writer = "error" /\ writer' = "drain" /\ egress_depth' = egress_depth - 1
       \/ writer = "panicked" /\ writer' = "done" /\ UNCHANGED egress_depth
    /\ UNCHANGED <<egress, reading, others>>

WriterStops ==
    /\ IoCancelled
    /\ \/ writer = "wait" /\ writer' = "drain" /\ UNCHANGED egress_depth
       \/ writer \in {"send", "error"} /\ writer' = "drain" /\ egress_depth' = egress_depth - 1
       \/ writer = "panicked" /\ writer' = "done" /\ UNCHANGED egress_depth
    /\ UNCHANGED <<egress, reading, events, others>>

\* The loop over try_recv ends on an empty queue; the queue closes after it.
WriterDrains ==
    /\ \/ writer = "drain" /\ egress > 0
          /\ egress' = egress - 1 /\ egress_depth' = egress_depth - 1 /\ UNCHANGED writer
       \/ writer = "drain" /\ egress = 0 /\ writer' = "drop"
          /\ UNCHANGED <<egress, egress_depth>>
       \/ writer = "drop" /\ writer' = "done" /\ egress' = 0 /\ UNCHANGED egress_depth
    /\ UNCHANGED <<reading, events, others>>

IoStep == ReaderReceives \/ ReaderQueues \/ ReaderReports \/ ReaderStops
          \/ WriterTakes \/ WriterSends \/ WriterReports \/ WriterStops \/ WriterDrains

-----------------------------------------------------------------------------
(* The workers.  A TCP worker sees the cancellation of its own entry only.  *)

Cancelled(x) == IF x \in Flows THEN x \notin actor.tcp ELSE WorkCancelled

\* Mutant: a query that answers gives up its guard before the answer is taken.
WorkerStep_EarlyRelease(x) ==
    /\ phase = "run" /\ UNCHANGED <<state, failure, forced, cancel, io_stop, io, actor, phase, handle>>
    /\ \/ /\ worker[x] = "opening"
          /\ \E w \in {"leaving", "finished"} : worker' = [worker EXCEPT ![x] = w]
          /\ UNCHANGED <<events, active_dns_queries>>
       \/ /\ worker[x] = "leaving" /\ worker' = [worker EXCEPT ![x] = "finished"]
          /\ Send([type |-> IF x \in Queries THEN "DnsResponse" ELSE "Done", of |-> x])
          /\ active_dns_queries' = Wrapped(active_dns_queries - 1)

\* Cancelled while it opens or asks, a worker returns and reports nothing.
WorkerStep(x) ==
    /\ phase = "run"
    /\ \/ /\ worker[x] = "opening"
          /\ \/ \E w \in (IF x \in Queries THEN {"leaving", "finished"} ELSE {"serving", "leaving"})
                     \cup ({"panic"} \cap Faults) :
                  /\ worker' = [worker EXCEPT ![x] = w]
                  /\ active_dns_queries' =
                       IF x \in Queries /\ w # "leaving" THEN active_dns_queries - 1
                       ELSE active_dns_queries
             \/ /\ Cancelled(x) /\ worker' = [worker EXCEPT ![x] = "finished"]
                /\ active_dns_queries' = IF x \in Queries THEN active_dns_queries - 1
                                         ELSE active_dns_queries
          /\ UNCHANGED events
       \/ /\ worker[x] = "serving" /\ worker' = [worker EXCEPT ![x] = "leaving"]
          /\ UNCHANGED <<events, active_dns_queries>>
       \/ /\ worker[x] = "leaving" /\ worker' = [worker EXCEPT ![x] = "finished"]
          /\ Send([type |-> IF x \in Queries THEN "DnsResponse" ELSE "Done", of |-> x])
          /\ UNCHANGED active_dns_queries
    /\ UNCHANGED <<state, failure, forced, cancel, io_stop, io, actor, phase, handle>>

-----------------------------------------------------------------------------
(* The actor.  Each turn of Runtime::run handles one stimulus and then      *)
(* always reaps, polls, drives, flushes and decides whether to stop: the    *)
(* handlers below turn the actor's record a, and Turn does the rest.        *)

begin_draining(a, immediate) ==
    IF Draining(a) THEN [a EXCEPT !.deadline = IF immediate THEN "passed" ELSE @]
    ELSE [a EXCEPT !.accepting = FALSE, !.deadline = IF immediate THEN "passed" ELSE "set"]

record_failure(a, f) ==
    begin_draining([a EXCEPT !.fatal_failure = IF @ = "none" THEN f ELSE @], TRUE)

reap_completed_tasks(a, w) ==
    IF \E x \in Work : w[x] = "panic" THEN record_failure(a, "Task") ELSE a
Reaped(w) == [x \in Work |-> IF w[x] \in {"finished", "panic"} THEN "none" ELSE w[x]]

\* The polls of a turn.  The engine takes what came in, one packet after another, as
\* long as the device has room for an answer, and says what it has to say of its own.
MayPoll(a, left, filled) ==
    IF a.outgoing = packet_queue_depth THEN left = a.incoming /\ filled = a.outgoing
    ELSE left > 0 => left < a.incoming /\ filled = packet_queue_depth
poll_engine(a, left, filled) == [a EXCEPT !.incoming = left, !.outgoing = filled]

\* closed: the flows whose socket is.
drive_tcp(a, closed) == [a EXCEPT !.tcp = @ \ closed]

\* drain_udp_requests: every datagram the engine took may start an association or,
\* below the limit of queries, a query.
MayStart(a, v, started, datagrams, gauge) ==
    /\ started # {} => a.accepting /\ Cardinality(started) <= datagrams
    /\ \A x \in started : v[x] = "none"
    /\ started \cap Queries # {} =>
           gauge + Cardinality(started \cap Queries) <= Cardinality(Queries)
drain_udp_requests(a, started) == [a EXCEPT !.udp = @ \cup (started \cap Associations)]
Started(v, xs) == [x \in Work |-> IF x \in xs THEN "opening" ELSE v[x]]

\* left: the DNS responses whose socket has no room.
send_udp_responses(a, left) == [a EXCEPT !.pending_dns = left]

Permits == packet_queue_depth - egress - (IF writer \in {"send", "error"} THEN 1 ELSE 0)
\* Mutant: packets leave the device without a permit.
Flushed_NoPermit(a) == a.outgoing

Flushed(a) == IF a.outgoing <= Permits THEN a.outgoing ELSE Permits
EgressClosed == writer \in {"panicked", "done"}
flush_device_output(a) ==
    CASE a.outgoing = 0 -> a
      [] a.outgoing > 0 /\ EgressClosed -> [record_failure(a, "PacketWrite") EXCEPT !.outgoing = @ - 1]
      [] OTHER -> [a EXCEPT !.outgoing = @ - Flushed(a)]

\* Mutant: the packets of the egress queue are not waited for.
quiescent_EgressIgnored(a, w) ==
    /\ a.tcp = {} /\ a.udp = {} /\ active_dns_queries' = 0 /\ ingress' = 0 /\ events' = <<>>
    /\ \A x \in Work : w[x] = "none"
    /\ a.pending_dns = 0 /\ a.incoming = 0 /\ a.outgoing = 0

quiescent(a, w) ==
    /\ a.tcp = {} /\ a.udp = {} /\ active_dns_queries' = 0
    /\ ingress' = 0 /\ egress_depth' = 0 /\ events' = <<>>
    /\ \A x \in Work : w[x] = "none"
    /\ a.pending_dns = 0 /\ a.incoming = 0 /\ a.outgoing = 0

\* Mutant: draining has no deadline.
should_stop_NoDeadline(a, w, connected) == Draining(a) /\ quiescent(a, w) /\ ~connected

\* connected: the connector still has tasks or bytes of its own.
should_stop(a, w, connected) ==
    Draining(a) /\ ((quiescent(a, w) /\ ~connected) \/ a.deadline = "passed")

\* gauge: active_dns_queries after the stimulus.
Turn(a, w, gauge) ==
    \E left \in 0..a.incoming, filled \in a.outgoing..packet_queue_depth, closed \in SUBSET a.tcp,
       started \in SUBSET ((Associations \cup Queries) \ a.udp), held \in 0..a.pending_dns,
       connected \in BOOLEAN :
      LET b == drive_tcp(poll_engine(reap_completed_tasks(a, w), left, filled), closed)
          c == send_udp_responses(drain_udp_requests(b, started), held)
          d == flush_device_output(c)
          v == Started(Reaped(w), started)
      IN  /\ MayPoll(a, left, filled) /\ MayStart(b, Reaped(w), started, a.incoming - left, gauge)
          /\ active_dns_queries' = gauge + Cardinality(started \cap Queries)
          /\ egress' = IF EgressClosed THEN egress ELSE egress + Flushed(c)
          /\ egress_depth' = IF EgressClosed THEN egress_depth ELSE egress_depth + Flushed(c)
          /\ actor' = d /\ worker' = v
          /\ state' = IF Draining(d) /\ ~Draining(actor) THEN "Draining" ELSE state
          /\ phase' = IF should_stop(d, v, connected) THEN "cleanup" ELSE phase
          /\ forced' = (forced \/ (should_stop(d, v, connected)
                                   /\ ~(quiescent(d, v) /\ ~connected)))
          /\ UNCHANGED <<failure, cancel, io_stop, reader, unread, writer, handle>>

Running == phase = "run"

TurnCancelled ==
    /\ Running /\ cancel /\ ~Draining(actor) /\ UNCHANGED <<ingress, events>>
    /\ Turn(begin_draining(actor, FALSE), worker, active_dns_queries)

TurnTick ==
    Running /\ UNCHANGED <<ingress, events>> /\ Turn(actor, worker, active_dns_queries)

IngressClosed == reader \in {"panicked", "done"} /\ ingress = 0
\* Mutant: a closed ingress queue is taken for the end of the device.
TurnIngressClosed_Ends ==
    /\ Running /\ actor.ingress_open /\ IngressClosed /\ UNCHANGED <<ingress, events>>
    /\ Turn(begin_draining([actor EXCEPT !.ingress_open = FALSE], FALSE), worker, active_dns_queries)

TurnIngressClosed ==
    /\ Running /\ actor.ingress_open /\ IngressClosed /\ UNCHANGED <<ingress, events>>
    /\ LET a == [actor EXCEPT !.ingress_open = FALSE]
       IN  Turn(IF a.reader_eof_seen THEN begin_draining(a, FALSE) ELSE a, worker, active_dns_queries)

handle_io_event(a, type) ==
    CASE type = "PacketReadFailed" -> record_failure(a, "PacketRead")
      [] type = "PacketWriteFailed" -> record_failure(a, "PacketWrite")
      [] type = "PacketEof" ->
           LET b == [a EXCEPT !.reader_eof_seen = TRUE]
           IN  IF a.ingress_open THEN b ELSE begin_draining(b, FALSE)

\* A response that is taken gives up its query's guard.
TurnEvent ==
    /\ Running /\ events # <<>> /\ events' = Tail(events) /\ UNCHANGED ingress
    /\ LET e == Head(events) IN
       \/ /\ e.type = "DnsResponse"
          /\ Turn([actor EXCEPT !.pending_dns = IF @ < Cardinality(Queries) THEN @ + 1 ELSE @],
                  worker, active_dns_queries - 1)
       \/ /\ e.type = "Done"
          /\ \/ Turn([actor EXCEPT !.udp = @ \ {e.of}, !.tcp = @ \ {e.of}], worker, active_dns_queries)
             \/ e.of \in Flows /\ Turn(actor, worker, active_dns_queries)
       \/ /\ e.type \notin {"DnsResponse", "Done"}
          /\ Turn(handle_io_event(actor, e.type), worker, active_dns_queries)

\* BoundedDevice::receive lends room for an answer.
Polled == actor.outgoing < packet_queue_depth

\* handle_packet: a packet is rejected, goes to the engine or, the first of a flow that
\* the engine has room to take, starts the flow's worker.
TurnPacket ==
    /\ Running /\ actor.ingress_open /\ ingress > 0
    /\ ingress' = ingress - 1 /\ UNCHANGED events
    /\ \/ Turn(actor, worker, active_dns_queries)
       \/ /\ actor.incoming < packet_queue_depth
          /\ Turn([actor EXCEPT !.incoming = @ + 1], worker, active_dns_queries)
       \/ /\ actor.incoming < packet_queue_depth /\ actor.accepting /\ Polled
          /\ \E x \in Flows \ actor.tcp :
               /\ worker[x] = "none"
               /\ Turn([actor EXCEPT !.tcp = @ \cup {x}], Started(worker, {x}), active_dns_queries)

DeadlinePasses ==
    /\ Running /\ actor.deadline = "set" /\ actor' = [actor EXCEPT !.deadline = "passed"]
    /\ UNCHANGED <<counters, cancel, io_stop, io, events, worker, phase, handle>>

ActorStep == TurnCancelled \/ TurnTick \/ TurnIngressClosed \/ TurnEvent \/ TurnPacket

-----------------------------------------------------------------------------
(* The end of the task: cleanup, the join of the I/O tasks, the drop of the *)
(* runtime with what its queue still holds, and what it then publishes.     *)

LiveQueries == Cardinality({q \in Queries \cap DOMAIN worker : worker[q] \in {"opening", "leaving"}})
Guards == Cardinality({i \in DOMAIN events : events[i].type = "DnsResponse"})

cleanup ==
    /\ phase = "cleanup" /\ ~io_stop
    /\ io_stop' = TRUE /\ active_dns_queries' = 0
    /\ worker' = [x \in Work |-> "none"]
    /\ actor' = [actor EXCEPT !.accepting = FALSE, !.tcp = {}, !.udp = {}, !.pending_dns = 0]
    /\ UNCHANGED <<state, failure, forced, cancel, io, events, phase, handle>>

\* join_or_abort of both monitors, then run_runtime drops its Runtime.
RuntimeDropped ==
    /\ phase = "cleanup" /\ io_stop /\ reader = "done" /\ writer = "done"
    /\ phase' = "publish" /\ ingress' = 0 /\ egress_depth' = 0 /\ events' = <<>>
    /\ active_dns_queries' = Wrapped(active_dns_queries - Guards)
    /\ UNCHANGED <<state, failure, forced, cancel, io_stop, reader, unread, writer, egress,
                   worker, actor, handle>>

Publish ==
    /\ phase = "publish" /\ phase' = "clear"
    /\ IF actor.fatal_failure = "none" THEN state' = "Stopped" /\ UNCHANGED failure
       ELSE SetFailure(actor.fatal_failure)
    /\ UNCHANGED <<forced, active_dns_queries, cancel, io_stop, io, events, worker, actor,
                   handle>>

clear_live_state ==
    /\ phase = "clear" /\ phase' = "notify" /\ active_dns_queries' = 0
    /\ UNCHANGED <<state, failure, forced, cancel, io_stop, io, events, worker, actor, handle>>

Notified == [c \in Callers |-> IF call[c].at \in {"check", "waiting"}
                               THEN [call[c] EXCEPT !.at = "notified"] ELSE call[c]]

NotifyWaiters ==
    /\ phase = "notify" /\ phase' = "finished" /\ call' = Notified
    /\ UNCHANGED <<counters, cancel, io_stop, io, events, worker, actor, join>>

TaskEnds == cleanup \/ RuntimeDropped \/ Publish \/ clear_live_state \/ NotifyWaiters

-----------------------------------------------------------------------------
(* PacketRuntimeHandle::shutdown.  The wait of a caller, shutdown_timeout   *)
(* and two seconds, is longer than the task takes to stop unless the task   *)
(* is starved: Timeout stands for that.                                     *)

At(c, p) == call' = [call EXCEPT ![c].at = p]
task == <<phase, io_stop, io, events, worker, actor>>

ShutdownCalled(c) ==
    /\ call[c].at = "idle"
    /\ call' = [call EXCEPT ![c] = [@ EXCEPT !.at = "called", !.already_stopped = state \in Terminal]]
    /\ UNCHANGED <<counters, cancel, task, join>>

\* Mutant: a second caller does not wait for the first.
ShutdownCancels_NoWait(c) ==
    /\ call[c].at = "called" /\ cancel' = TRUE /\ join' = "taken"
    /\ At(c, IF join = "held" THEN "joining" ELSE "report")
    /\ UNCHANGED <<counters, task>>

\* cancel.cancel() and join.lock().await.take()
ShutdownCancels(c) ==
    /\ call[c].at = "called" /\ cancel' = TRUE /\ join' = "taken"
    /\ At(c, CASE join = "held" -> "joining"
               [] join = "taken" /\ call[c].already_stopped -> "report"
               [] OTHER -> "check")
    /\ UNCHANGED <<counters, task>>

Joined(c) ==
    /\ call[c].at = "joining" /\ phase = "finished" /\ At(c, "report")
    /\ IF actor.fatal_failure = "none" THEN UNCHANGED <<state, failure>>
       ELSE SetFailure(actor.fatal_failure)
    /\ UNCHANGED <<forced, active_dns_queries, cancel, task, join>>

Timeout(c) ==
    /\ \/ call[c].at = "joining" /\ At(c, "aborting")
       \/ call[c].at \in {"check", "waiting", "notified"} /\ At(c, "failing")
    /\ phase # "finished"
    /\ UNCHANGED <<counters, cancel, task, join>>

\* The aborted task is dropped with all it holds, at an await, or finishes.
Aborted(c) ==
    /\ call[c].at = "aborting" /\ At(c, "failing")
    /\ \/ /\ phase \in {"run", "cleanup"} /\ phase' = "aborted" /\ events' = <<>>
          /\ worker' = [x \in Work |-> "none"]
          /\ active_dns_queries' = Wrapped(active_dns_queries - Guards - LiveQueries)
       \/ phase = "finished" /\ UNCHANGED <<phase, events, worker, active_dns_queries>>
    /\ UNCHANGED <<state, failure, forced, cancel, io_stop, io, actor, join>>

TimedOut(c) ==
    /\ call[c].at = "failing" /\ At(c, "report")
    /\ forced' = TRUE /\ SetFailure("ShutdownTimedOut")
    /\ UNCHANGED <<active_dns_queries, cancel, task, join>>

\* wait_for_terminal: the future of the next notification exists before the
\* state is looked at, so that it counts from then on.
WaitForTerminal(c) ==
    /\ \/ call[c].at \in {"check", "notified"} /\ state \in Terminal /\ At(c, "report")
       \/ call[c].at = "check" /\ state \notin Terminal /\ At(c, "waiting")
       \/ call[c].at = "notified" /\ state \notin Terminal /\ At(c, "check")
    /\ UNCHANGED <<counters, cancel, task, join>>

\* notify_waiters, then the snapshot the report is made of.
Report(c) ==
    /\ call[c].at = "report"
    /\ call' = [Notified EXCEPT ![c] = [call[c] EXCEPT
                  !.at = "returned", !.seen = state,
                  !.result = IF failure = "none" THEN "ok" ELSE failure]]
    /\ UNCHANGED <<counters, cancel, task, join>>

CallStep(c) == ShutdownCalled(c) \/ ShutdownCancels(c) \/ Joined(c) \/ Timeout(c)
               \/ Aborted(c) \/ TimedOut(c) \/ WaitForTerminal(c) \/ Report(c)

Next ==
    \/ IoStep \/ ActorStep \/ DeadlinePasses \/ TaskEnds
    \/ \E x \in Work : WorkerStep(x)
    \/ \E c \in Callers : CallStep(c)

Spec == Init /\ [][Next]_vars

\* Tokio runs every ready task and its timers; a receive, a send or a worker
\* that waits for the outside may wait for ever.  The channels are first come,
\* first served, so a sender that waits for room gets it.
IoEnds == ReaderStops \/ WriterStops \/ WriterDrains
CallGoesOn(c) == ShutdownCancels(c) \/ Joined(c) \/ Aborted(c) \/ TimedOut(c)
                 \/ WaitForTerminal(c) \/ Report(c)
-----------------------------------------------------------------------------

\* A shutdown that reports success has seen the runtime Stopped, whoever of
\* several callers it was, whether it waited for the task or for the
\* notification, and whatever failed or timed out meanwhile.
OkMeansStopped == \A c \in DOMAIN call : call[c].result = "ok" => call[c].seen = "Stopped"

\* The gauge of DNS queries that admission and should_stop rely on counts the
\* queries at work and the responses on their way to the actor: the guard
\* travels from the worker through the event queue and is dropped once.
DnsGaugeExact == phase = "run" => active_dns_queries = LiveQueries + Guards

\* The runtime stops without a failure only when it was told to or when the
\* device reported its end: a reader that failed or panicked is never taken
\* for one that reached the end (the comment in Runtime::run).
CleanStopHasCause ==
    phase # "run" /\ actor.fatal_failure = "none" => cancel \/ actor.reader_eof_seen

\* A shutdown that reports success has seen the runtime stopped, a runtime that stops
\* without a failure had a reason to, and the gauge of DNS queries that both rely on
\* is exact, through failing readers and writers, panics, timeouts and several callers.
RuntimeStopsInOrder == OkMeansStopped /\ DnsGaugeExact /\ CleanStopHasCause

\* When the device ends by itself and the runtime stops without force, all that
\* was read has been handled and all there was to say has been written.
EofDrainsEverything ==
    [][phase = "run" /\ phase' = "cleanup" /\ ~cancel /\ ~forced' /\ actor'.fatal_failure = "none"
         => reader = "done" /\ ingress' = 0 /\ egress' = 0 /\ writer = "wait" /\ events' = <<>>]_vars

ReaderFailed ==
    \/ reader \in {"error", "panicked"} \/ actor.fatal_failure = "PacketRead"
    \/ \E i \in DOMAIN events : events[i].type = "PacketReadFailed"

\* Nothing is owed: every call of shutdown has returned (the drain has a deadline and
\* cleanup aborts what is left), and a reader that failed has ended the runtime,
\* though nobody called shutdown.
RuntimeSettled ==
    /\ \A c \in Callers : call[c].at \in {"idle", "returned"}
    /\ ReaderFailed => phase \in {"finished", "aborted"}
=============================================================================
