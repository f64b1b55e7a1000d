---------------------------- MODULE TunDatagrams ----------------------------
(***************************************************************************)
(* UDP and DNS in the packet runtime (crates/maverick-tun/src/runtime.rs): *)
(* the sockets bound for each target, the associations and DNS queries     *)
(* started for the datagrams they receive, the workers that exchange them, *)
(* and the responses on their way back to a socket that may be reaped.     *)
(*                                                                         *)
(* Each step of the actor is a datagram, an event or a tick, and then the  *)
(* rest of its turn: the responses that can be sent, and the idle targets. *)
(* The actor accepts throughout; TunRuntime has the end of it.             *)
(***************************************************************************)
EXTENDS Integers, Sequences, FiniteSets, FiniteSetsExt

CONSTANTS
    Apps, Targets,
    DnsTargets,                 \* targets with port 53, whose datagrams are intercepted
    Queries,                    \* identities of DNS queries: bounds those under way
    Congested,                  \* targets whose socket may have no room to send
    max_udp_targets, max_udp_associations, max_dns_queries,
    udp_channel_depth, event_queue_depth

VARIABLES
    targets,                    \* udp_targets
    idle,                       \* those without activity for udp_idle_timeout
    associations,               \* udp_associations, with their pending_response
    worker,                     \* the udp_worker of each association
    query,                      \* the DNS queries and where each one is
    events,                     \* the event queue
    pending_dns_responses

vars == <<targets, idle, associations, worker, query, events, pending_dns_responses>>

UdpAssociationKey == [app : Apps, target : Targets]
NoQuery == [at |-> "none"]
NoWorker == [at |-> "none", commands |-> 0]
EngineEvent == [type : {"UdpResponse"}, key : UdpAssociationKey, expected : BOOLEAN]
               \cup [type : {"UdpDone"}, key : UdpAssociationKey]
               \cup [type : {"DnsResponse"}, query : Queries]

Entries(a) == {k \in UdpAssociationKey : a[k] # "absent"}

\* active_dns_queries: the guard of a query is dropped with its event.
ActiveDns(q) == {i \in Queries : q[i].at \in {"ask", "answer", "queued"}}

TypeOK ==
    /\ targets \subseteq Targets /\ Cardinality(targets) <= max_udp_targets
    /\ idle \subseteq targets
    /\ associations \in [UdpAssociationKey -> {"absent", "entry", "pending_response"}]
    /\ Cardinality(Entries(associations)) <= max_udp_associations
    /\ worker \in [UdpAssociationKey ->
          [at : {"none", "opening", "recv", "exchange", "respond", "wait", "closing", "leaving"},
           commands : 0..udp_channel_depth]]
    /\ query \in [Queries -> {NoQuery} \cup
          [at : {"ask", "answer", "queued", "pending"}, key : UdpAssociationKey]]
    /\ Cardinality(ActiveDns(query)) <= max_dns_queries
    /\ events \in Seq(EngineEvent) /\ Len(events) <= event_queue_depth
    /\ pending_dns_responses \in Seq(Queries) /\ Len(pending_dns_responses) <= max_dns_queries

Init ==
    /\ targets = {} /\ idle = {} /\ events = <<>> /\ pending_dns_responses = <<>>
    /\ associations = [k \in UdpAssociationKey |-> "absent"]
    /\ worker = [k \in UdpAssociationKey |-> NoWorker]
    /\ query = [q \in Queries |-> NoQuery]

-----------------------------------------------------------------------------
(* The actor, over a record d of what it changes in a turn.                 *)

State == [targets |-> targets, idle |-> idle, associations |-> associations,
          worker |-> worker, query |-> query, pending |-> pending_dns_responses]

\* The target has a socket, unless as many as may be bound are.
ensure_udp_target(d, t) ==
    IF t \in d.targets \/ Cardinality(d.targets) < max_udp_targets
    THEN [d EXCEPT !.targets = @ \cup {t}, !.idle = @ \ {t}]
    ELSE d

\* Mutant: the limit is not checked.
start_dns_query_NoLimit(d, k, q) ==
    [d EXCEPT !.query[q] = [at |-> "ask", key |-> k]]

start_dns_query(d, k, q) ==
    IF Cardinality(ActiveDns(d.query)) >= max_dns_queries THEN d
    ELSE [d EXCEPT !.query[q] = [at |-> "ask", key |-> k]]

start_udp_worker(d, k) ==
    [d EXCEPT !.associations[k] = "entry", !.worker[k] = [at |-> "opening", commands |-> 0]]

\* A full command channel, or that of a worker that has left, drops the datagram.
TrySend(d, k) ==
    IF d.worker[k].at # "none" /\ d.worker[k].commands < udp_channel_depth
    THEN [d EXCEPT !.worker[k].commands = @ + 1] ELSE d

dispatch_udp(d, k) ==
    IF d.associations[k] # "absent" THEN TrySend(d, k)
    ELSE IF Cardinality(Entries(d.associations)) >= max_udp_associations THEN d
    ELSE TrySend(start_udp_worker(d, k), k)

\* The datagram the target's socket took, if it has one.
drain_udp_requests(d, k, q) ==
    IF k.target \notin d.targets THEN d
    ELSE LET r == [d EXCEPT !.idle = @ \ {k.target}]
         IN  IF k.target \in DnsTargets THEN start_dns_query(r, k, q) ELSE dispatch_udp(r, k)

\* A response whose target has no socket counts as sent.
try_send_udp_response(d, t, full) == t \notin d.targets \/ t \notin full

SendAssociations(d, full) ==
    LET sent == {k \in UdpAssociationKey : /\ d.associations[k] = "pending_response"
                                           /\ try_send_udp_response(d, k.target, full)}
    IN  [d EXCEPT
          !.associations = [k \in UdpAssociationKey |-> IF k \in sent THEN "entry" ELSE @[k]],
          !.worker = [k \in UdpAssociationKey |-> IF k \in sent THEN [@[k] EXCEPT !.at = "recv"]
                                                 ELSE @[k]]]

\* Mutant: the response that did not fit goes back to the front.
SendDns_Front(d, full) ==
    LET fails == {i \in DOMAIN d.pending :
                    ~try_send_udp_response(d, d.query[d.pending[i]].key.target, full)}
        n == IF fails = {} THEN Len(d.pending)
             ELSE Min(fails) - 1
        rest == SubSeq(d.pending, n + 1, Len(d.pending))
    IN  [d EXCEPT !.pending = rest,
                  !.query = [q \in Queries |-> IF \E i \in 1..n : d.pending[i] = q
                                               THEN NoQuery ELSE @[q]]]

\* In order, up to the first that does not fit, which goes to the back.
SendDns(d, full) ==
    LET fails == {i \in DOMAIN d.pending :
                    ~try_send_udp_response(d, d.query[d.pending[i]].key.target, full)}
        n == IF fails = {} THEN Len(d.pending)
             ELSE Min(fails) - 1
        rest == SubSeq(d.pending, n + 1, Len(d.pending))
    IN  [d EXCEPT !.pending = IF rest = <<>> THEN rest ELSE Append(Tail(rest), Head(rest)),
                  !.query = [q \in Queries |-> IF \E i \in 1..n : d.pending[i] = q
                                               THEN NoQuery ELSE @[q]]]

\* Mutant: a pending DNS response does not keep its target.
InUse_NoPending(d, t) ==
    \/ \E k \in Entries(d.associations) : k.target = t
    \/ ActiveDns(d.query) # {} /\ t \in DnsTargets

InUse(d, t) ==
    \/ \E k \in Entries(d.associations) : k.target = t
    \/ ActiveDns(d.query) # {} /\ t \in DnsTargets
    \/ \E i \in DOMAIN d.pending : d.query[d.pending[i]].key.target = t

reap_udp_targets(d) ==
    LET kept == {t \in d.targets : t \notin d.idle \/ InUse(d, t)}
    IN  [d EXCEPT !.targets = kept, !.idle = @ \cap kept]

\* The rest of a turn, send_udp_responses and reap_udp_targets: full are the sockets without room, due the reap interval.
TurnWith(d, full) ==
    \E due \in BOOLEAN :
        \E a \in {SendAssociations(d, full)} : \E s \in {SendDns(a, full)} :
        \E r \in {IF due THEN reap_udp_targets(s) ELSE s} :
            /\ targets' = r.targets /\ idle' = r.idle /\ associations' = r.associations
            /\ worker' = r.worker /\ query' = r.query /\ pending_dns_responses' = r.pending

Turn(d) == \E full \in SUBSET Congested : TurnWith(d, full)

Free == {q \in Queries : query[q] = NoQuery}

\* A datagram of an app; the device may have no room for it, or it is too large.
handle_packet(k) ==
    /\ Free # {} /\ UNCHANGED events
    /\ LET d == ensure_udp_target(State, k.target)
       IN  Turn(d) \/ Turn(drain_udp_requests(d, k, Min(Free)))

tick == UNCHANGED events /\ Turn(State)

\* Mutant: the worker is not told that its response was dropped.
UdpResponse_Silent(d, e) ==
    IF e.expected /\ d.associations[e.key] = "entry"
    THEN [d EXCEPT !.associations[e.key] = "pending_response"]
    ELSE d

\* The answer of another endpoint is dropped and the worker goes on.
UdpResponse(d, e) ==
    IF e.expected /\ d.associations[e.key] = "entry"
    THEN [d EXCEPT !.associations[e.key] = "pending_response"]
    ELSE [d EXCEPT !.worker[e.key].at = "recv"]

\* Mutant: the entry of a worker that has left stays.
UdpDone_Keeps(d, e) == d

UdpDone(d, e) == [d EXCEPT !.associations[e.key] = "absent"]

DnsResponse(d, e) ==
    IF Len(d.pending) < max_dns_queries
    THEN [d EXCEPT !.pending = Append(@, e.query), !.query[e.query].at = "pending"]
    ELSE [d EXCEPT !.query[e.query] = NoQuery]

handle_event ==
    /\ events # <<>> /\ events' = Tail(events)
    /\ LET e == Head(events) IN
       Turn(CASE e.type = "UdpResponse" -> UdpResponse(State, e)
              [] e.type = "UdpDone" -> UdpDone(State, e)
              [] e.type = "DnsResponse" -> DnsResponse(State, e))

-----------------------------------------------------------------------------
(* udp_worker and the task of a DNS query.                                  *)

actor == <<targets, idle, associations, pending_dns_responses>>
Send(e) == Len(events) < event_queue_depth /\ events' = Append(events, e)
Go(k, at) == worker' = [worker EXCEPT ![k].at = at]

Opening(k) ==
    /\ worker[k].at = "opening" /\ (Go(k, "recv") \/ Go(k, "leaving"))
    /\ UNCHANGED <<actor, query, events>>

\* A command, or none for idle_timeout.
Receive(k) ==
    /\ worker[k].at = "recv"
    /\ IF worker[k].commands > 0
       THEN worker' = [worker EXCEPT ![k] = [at |-> "exchange", commands |-> @.commands - 1]]
       ELSE Go(k, "closing")
    /\ UNCHANGED <<actor, query, events>>

\* An answer; or an error, a timeout or an answer that is too large.
Exchange(k) ==
    /\ worker[k].at = "exchange" /\ (Go(k, "respond") \/ Go(k, "closing"))
    /\ UNCHANGED <<actor, query, events>>

\* The worker then waits until the actor has accepted the response.
Respond(k) ==
    /\ worker[k].at = "respond" /\ Go(k, "wait")
    /\ \E expected \in BOOLEAN :
         Send([type |-> "UdpResponse", key |-> k, expected |-> expected])
    /\ UNCHANGED <<actor, query>>

Close(k) ==
    /\ worker[k].at = "closing" /\ Go(k, "leaving") /\ UNCHANGED <<actor, query, events>>

Leave(k) ==
    /\ worker[k].at = "leaving" /\ Send([type |-> "UdpDone", key |-> k])
    /\ worker' = [worker EXCEPT ![k] = NoWorker]
    /\ UNCHANGED <<actor, query>>

udp_worker(k) ==
    Opening(k) \/ Receive(k) \/ Exchange(k) \/ Respond(k) \/ Close(k) \/ Leave(k)

\* An answer; or an error, a timeout or an answer that is too large.
ExchangeDns(q) ==
    /\ query[q].at = "ask"
    /\ \/ query' = [query EXCEPT ![q].at = "answer"]
       \/ query' = [query EXCEPT ![q] = NoQuery]
    /\ UNCHANGED <<actor, worker, events>>

AnswerDns(q) ==
    /\ query[q].at = "answer" /\ Send([type |-> "DnsResponse", query |-> q])
    /\ query' = [query EXCEPT ![q].at = "queued"]
    /\ UNCHANGED <<actor, worker>>

\* udp_idle_timeout passes without a datagram for the target.
Quiet(t) ==
    /\ t \in targets \ idle /\ idle' = idle \cup {t}
    /\ UNCHANGED <<targets, associations, worker, query, events, pending_dns_responses>>

Next ==
    \/ \E k \in UdpAssociationKey : handle_packet(k)
    \/ tick \/ handle_event
    \/ \E k \in UdpAssociationKey : udp_worker(k)
    \/ \E q \in Queries : ExchangeDns(q) \/ AnswerDns(q)
    \/ \E t \in Targets : Quiet(t)

Spec == Init /\ [][Next]_vars

-----------------------------------------------------------------------------

\* Whoever is to answer through a target's socket finds it bound: reaping, which
\* looks at associations, at a counter of queries and at the pending responses,
\* never takes the socket of an exchange under way, whose response would then
\* count as sent and be lost.
ResponsesHaveTheirSocket ==
    /\ \A k \in Entries(associations) : k.target \in targets
    /\ \A q \in Queries : query[q] # NoQuery => query[q].key.target \in targets

\* A worker waits for exactly the response the actor has: in the queue or pending
\* with its association, in one place; otherwise it would wait until shutdown.
WaitsForItsResponse ==
    \A k \in UdpAssociationKey :
        LET queued == {i \in DOMAIN events : events[i].type = "UdpResponse" /\ events[i].key = k}
        IN  /\ associations[k] = "pending_response" => worker[k].at = "wait" /\ queued = {}
            /\ worker[k].at = "wait" =>
                 associations[k] = "pending_response" \/ Cardinality(queued) = 1

\* An association whose worker has left is removed, so that the next datagram of
\* the app opens another one instead of being dropped for good.
Attended(k) == associations[k] # "absent" => worker[k].at # "none"

\* A DNS response for a target whose socket has room is sent, whatever the
\* sockets of the other targets do: a response that does not fit goes to the
\* back of pending_dns_responses.
NoneHeldUp == \A q \in Queries : query[q].at = "pending" => query[q].key.target \in Congested
=============================================================================
