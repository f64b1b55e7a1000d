------------------------------- MODULE H2Pool -------------------------------
(***************************************************************************)
(* The client's pooled HTTP/2 connection (crates/maverick-client/src/      *)
(* connection_manager.rs).  Every proxied flow runs ClientTunnelPool::     *)
(* open_h2 as a task of its own; all of them share ONE cached connection,  *)
(* guarded by a mutex (the lock sections below are atomic actions) and by  *)
(* an asynchronous connect gate that is held across the connect.           *)
(*                                                                         *)
(* A task is at an await point (it may time out, fail or be cancelled      *)
(* there) or about to enter a lock section.  Which leases are alive        *)
(* follows from where the tasks are: see LeaseStates.                      *)
(***************************************************************************)
EXTENDS Integers, FiniteSets

CONSTANTS
    Tasks,           \* the proxied flows that ask the pool for a stream
    MaxOpens,        \* bound: open_h2 calls made in one behaviour
    MaxConnections,  \* bound: connects that succeed in one behaviour
    NoTask,          \* connect_gate is free
    NoConnection     \* nothing is cached

VARIABLES
    connection,       \* the cached connection, or NoConnection
    next_generation,  \* the generation given to the last installed connection
    active_streams,   \* the pool-wide gauge of leased streams
    shutdown,         \* the pool was shut down
    stats,            \* the counters of H2ConnectionPoolState
    connect_gate,     \* the task holding the asynchronous connect gate
    pc,               \* where each task is
    generation,       \* each task's local variable of that name (0: none)
    attempt,          \* open_h2's attempt (0, 1)
    ready_attempt,    \* acquire's attempt (0, 1)
    recovery,         \* open_h2's timeout_recovery_pending
    opens             \* open_h2 calls so far, for MaxOpens

pool == <<connection, next_generation, active_streams, shutdown, stats>>
task == <<pc, generation, attempt, ready_attempt, recovery>>
vars == <<pool, connect_gate, task, opens>>

MAX_READY_ATTEMPTS == 2

\* The await points of open_h2 and the places where it takes the mutex.
AwaitStates == {"gate_wait", "connecting", "ready", "handshake", "open"}
LockStates == {"checkout", "recheck", "install", "readiness_failed",
               "readiness_invalidated", "handshake_timeout",
               "stream_open_failed"}
TaskStates == {"idle"} \cup AwaitStates \cup LockStates

\* The states in which the task owns an H2ConnectionLease.
LeaseStates == {"ready", "readiness_failed", "readiness_invalidated",
                "handshake", "open"}
\* The states in which the task holds the connect gate.
GateStates == {"recheck", "connecting", "install"}

Counters == {"connections_created", "streams_opened", "streams_reused",
             "reconnects", "readiness_failures", "stream_open_failures",
             "handshake_timeouts", "timeout_retirements",
             "timeout_recoveries", "idle_retirements", "closed_retirements",
             "runtime_stream_resets", "runtime_send_stalls"}

\* idle_since is None while leased; its age matters only against idle_timeout.
IdleSince == {"none", "fresh", "elapsed"}
Connections == [generation : Nat, active_streams : Nat,
                idle_since : IdleSince, connection_closed : BOOLEAN]

ASSUME PoolAssumption ==
    /\ IsFiniteSet(Tasks)
    /\ MaxOpens \in Nat /\ MaxConnections \in Nat
    /\ NoTask \notin Tasks
    /\ NoConnection \notin Connections

Holders == {t \in Tasks : pc[t] \in LeaseStates}
HoldersOf(g) == {t \in Holders : generation[t] = g}

-----------------------------------------------------------------------------
Init ==
    /\ connection = NoConnection
    /\ next_generation = 0
    /\ active_streams = 0
    /\ shutdown = FALSE
    /\ stats = [c \in Counters |-> 0]
    /\ connect_gate = NoTask
    /\ pc = [t \in Tasks |-> "idle"]
    /\ generation = [t \in Tasks |-> 0]
    /\ attempt = [t \in Tasks |-> 0]
    /\ ready_attempt = [t \in Tasks |-> 0]
    /\ recovery = [t \in Tasks |-> FALSE]
    /\ opens = 0

Saturating_sub1(n) == IF n = 0 THEN 0 ELSE n - 1

Bump(c) == [stats EXCEPT ![c] = @ + 1]
Bump2(c, d) == [stats EXCEPT ![c] = @ + 1, ![d] = @ + 1]

Cached(g) == connection # NoConnection /\ connection.generation = g

\* The future returns (or is dropped): its locals go out of scope.
Leave(t) ==
    /\ pc' = [pc EXCEPT ![t] = "idle"]
    /\ generation' = [generation EXCEPT ![t] = 0]
    /\ attempt' = [attempt EXCEPT ![t] = 0]
    /\ ready_attempt' = [ready_attempt EXCEPT ![t] = 0]
    /\ recovery' = [recovery EXCEPT ![t] = FALSE]

Goto(t, s) ==
    /\ pc' = [pc EXCEPT ![t] = s]
    /\ UNCHANGED <<generation, attempt, ready_attempt, recovery>>

ReleaseGate(t) ==
    connect_gate' = IF connect_gate = t THEN NoTask ELSE connect_gate

\* Mutant: the lease's generation is not compared with the cached one.
DropLease_AnyGeneration(g) ==
    /\ active_streams' = Saturating_sub1(active_streams)
    /\ connection' =
        IF connection # NoConnection
        THEN LET left == Saturating_sub1(connection.active_streams)
             IN  [connection EXCEPT
                    !.active_streams = left,
                    !.idle_since = IF left = 0 THEN "fresh" ELSE @]
        ELSE connection

\* Mutant: the last lease does not start the idle clock.
DropLease_NoIdleClock(g) ==
    /\ active_streams' = Saturating_sub1(active_streams)
    /\ connection' =
        IF Cached(g)
        THEN [connection EXCEPT
                !.active_streams = Saturating_sub1(connection.active_streams)]
        ELSE connection

\* Drop for H2ConnectionLease: the pool gauge always falls; the connection's
\* own count only when the lease belongs to the generation now cached.
DropLease(g) ==
    /\ active_streams' = Saturating_sub1(active_streams)
    /\ connection' =
        IF Cached(g)
        THEN LET left == Saturating_sub1(connection.active_streams)
             IN  [connection EXCEPT
                    !.active_streams = left,
                    !.idle_since = IF left = 0 THEN "fresh" ELSE @]
        ELSE connection

-----------------------------------------------------------------------------
\* open_h2 is called: one proxied flow asks for a tunnel.
Open(t) ==
    /\ pc[t] = "idle"
    /\ opens < MaxOpens
    /\ opens' = opens + 1
    /\ Goto(t, "checkout")
    /\ UNCHANGED <<pool, connect_gate>>

\* checkout_cached found nothing: wait for the gate, or connect if the gate
\* is already held.
CheckoutMiss(t) ==
    /\ Goto(t, IF pc[t] = "checkout" THEN "gate_wait" ELSE "connecting")
    /\ UNCHANGED <<next_generation, active_streams, shutdown, connect_gate,
                   opens>>

\* checkout_cached: fail after shutdown, drop a closed connection, and
\* otherwise lease the cached one.  Run before and again under the gate.
checkout_cached(t) ==
    /\ pc[t] \in {"checkout", "recheck"}
    /\ \/ /\ shutdown
          /\ Leave(t)
          /\ ReleaseGate(t)
          /\ UNCHANGED <<pool, opens>>
       \/ /\ ~shutdown
          /\ connection = NoConnection
          /\ CheckoutMiss(t)
          /\ UNCHANGED <<connection, stats>>
       \/ /\ ~shutdown
          /\ connection # NoConnection
          /\ connection.connection_closed
          /\ connection' = NoConnection
          /\ stats' = Bump("closed_retirements")
          /\ CheckoutMiss(t)
       \/ /\ ~shutdown
          /\ connection # NoConnection
          /\ ~connection.connection_closed
          /\ connection' = [connection EXCEPT !.active_streams = @ + 1,
                                              !.idle_since = "none"]
          /\ active_streams' = active_streams + 1
          /\ stats' = Bump2("streams_opened", "streams_reused")
          /\ generation' = [generation EXCEPT ![t] = connection.generation]
          /\ pc' = [pc EXCEPT ![t] = "ready"]
          /\ ReleaseGate(t)
          /\ UNCHANGED <<next_generation, shutdown, attempt, ready_attempt,
                         recovery, opens>>

\* Mutant: the cache is not checked again under the gate.
AwaitGate_NoRecheck(t) ==
    /\ pc[t] = "gate_wait"
    /\ UNCHANGED <<pool, opens>>
    /\ \/ /\ connect_gate = NoTask
          /\ connect_gate' = t
          /\ Goto(t, "connecting")
       \/ /\ Leave(t)
          /\ UNCHANGED connect_gate

\* The connect gate is granted, or the wait for it times out.
AwaitGate(t) ==
    /\ pc[t] = "gate_wait"
    /\ UNCHANGED <<pool, opens>>
    /\ \/ /\ connect_gate = NoTask
          /\ connect_gate' = t
          /\ Goto(t, "recheck")
       \/ /\ Leave(t)
          /\ UNCHANGED connect_gate

\* connect_with_status succeeds, or fails or times out and frees the gate.
Connect(t) ==
    /\ pc[t] = "connecting"
    /\ UNCHANGED <<pool, opens>>
    /\ \/ /\ next_generation < MaxConnections
          /\ Goto(t, "install")
          /\ UNCHANGED connect_gate
       \/ /\ Leave(t)
          /\ ReleaseGate(t)

\* Installing the connection as generation g.
Install(t, g) ==
    /\ next_generation' = next_generation + 1
    /\ connection' = [generation |-> g, active_streams |-> 1,
                      idle_since |-> "none", connection_closed |-> FALSE]
    /\ active_streams' = active_streams + 1
    /\ stats' = [stats EXCEPT
                   !["reconnects"] =
                       IF stats["connections_created"] > 0 THEN @ + 1 ELSE @,
                   !["connections_created"] = @ + 1,
                   !["streams_opened"] = @ + 1]
    /\ generation' = [generation EXCEPT ![t] = g]
    /\ pc' = [pc EXCEPT ![t] = "ready"]
    /\ UNCHANGED <<shutdown, attempt, ready_attempt, recovery>>

\* Mutant: the generation is read before it is incremented.
install_and_checkout_StaleGeneration(t) ==
    /\ pc[t] = "install"
    /\ ReleaseGate(t)
    /\ IF shutdown \/ connection # NoConnection
       THEN Leave(t) /\ UNCHANGED pool
       ELSE Install(t, next_generation)
    /\ UNCHANGED opens

\* install_and_checkout: the new connection is cached with its first lease,
\* unless the pool was shut down or filled while connecting.
install_and_checkout(t) ==
    /\ pc[t] = "install"
    /\ ReleaseGate(t)
    /\ IF shutdown \/ connection # NoConnection
       THEN Leave(t) /\ UNCHANGED pool
       ELSE Install(t, next_generation + 1)
    /\ UNCHANGED opens

\* Mutant: no timeout while the peer's concurrent stream limit is reached.
AwaitReady_NoTimeout(t) ==
    /\ pc[t] = "ready"
    /\ connection # NoConnection => connection.active_streams < 2
    /\ Goto(t, "handshake")
    /\ UNCHANGED <<pool, connect_gate, opens>>

\* acquire waits for SendRequest::ready: it succeeds, fails, or times out
\* (the lease is dropped and the open fails, the connection stays cached).
AwaitReady(t) ==
    /\ pc[t] = "ready"
    /\ UNCHANGED <<next_generation, shutdown, stats, connect_gate, opens>>
    /\ \/ /\ \E s \in {"handshake", "readiness_failed"} : Goto(t, s)
          /\ UNCHANGED <<connection, active_streams>>
       \/ /\ Leave(t)
          /\ DropLease(generation[t])

\* The cached connection is taken out when it is still generation g.
Take(g) == connection' = IF Cached(g) THEN NoConnection ELSE connection

invalidate_after_readiness_failure(t) ==
    /\ pc[t] = "readiness_failed"
    /\ Take(generation[t])
    /\ stats' = Bump("readiness_failures")
    /\ Goto(t, "readiness_invalidated")
    /\ UNCHANGED <<next_generation, active_streams, shutdown, connect_gate,
                   opens>>

\* End of acquire's loop body: the checkout's lease is dropped, and acquire
\* tries again or gives up.
RetryAcquire(t) ==
    /\ pc[t] = "readiness_invalidated"
    /\ DropLease(generation[t])
    /\ IF ready_attempt[t] + 1 < MAX_READY_ATTEMPTS
       THEN /\ pc' = [pc EXCEPT ![t] = "checkout"]
            /\ generation' = [generation EXCEPT ![t] = 0]
            /\ ready_attempt' = [ready_attempt EXCEPT ![t] = @ + 1]
            /\ UNCHANGED <<attempt, recovery>>
       ELSE Leave(t)
    /\ UNCHANGED <<next_generation, shutdown, stats, connect_gate, opens>>

\* open_managed_h2 under connect_timeout: it succeeds and the tunnel keeps
\* the lease; or the lease is dropped with the failed or timed-out future
\* before open_h2 looks at the outcome: a stall or timeout, an h2 error, or
\* any other error.
AwaitHandshake(t) ==
    /\ pc[t] = "handshake"
    /\ UNCHANGED <<next_generation, shutdown, connect_gate, opens>>
    /\ \/ /\ stats' = IF recovery[t] THEN Bump("timeout_recoveries") ELSE stats
          /\ pc' = [pc EXCEPT ![t] = "open"]
          /\ recovery' = [recovery EXCEPT ![t] = FALSE]
          /\ attempt' = [attempt EXCEPT ![t] = 0]
          /\ ready_attempt' = [ready_attempt EXCEPT ![t] = 0]
          /\ UNCHANGED <<connection, active_streams, generation>>
       \/ /\ DropLease(generation[t])
          /\ \E s \in {"handshake_timeout", "stream_open_failed"} : Goto(t, s)
          /\ UNCHANGED stats
       \/ /\ DropLease(generation[t])
          /\ Leave(t)
          /\ UNCHANGED stats

\* open_h2's next attempt: acquire starts afresh.
NextAttempt(t) ==
    /\ pc' = [pc EXCEPT ![t] = "checkout"]
    /\ generation' = [generation EXCEPT ![t] = 0]
    /\ attempt' = [attempt EXCEPT ![t] = @ + 1]
    /\ ready_attempt' = [ready_attempt EXCEPT ![t] = 0]

\* Mutant: a generation other flows still lease is retired, too.
retire_after_handshake_timeout_Shared(t) ==
    /\ pc[t] = "handshake_timeout"
    /\ IF Cached(generation[t])
       THEN /\ connection' = NoConnection
            /\ stats' = Bump2("handshake_timeouts", "timeout_retirements")
            /\ IF attempt[t] + 1 < MAX_READY_ATTEMPTS
               THEN /\ NextAttempt(t)
                    /\ recovery' = [recovery EXCEPT ![t] = TRUE]
               ELSE Leave(t)
       ELSE /\ stats' = Bump("handshake_timeouts")
            /\ Leave(t)
            /\ UNCHANGED connection
    /\ UNCHANGED <<next_generation, active_streams, shutdown, connect_gate,
                   opens>>

\* Mutant: the open is retried, as a recovery, although nothing was retired.
retire_after_handshake_timeout_AlwaysRetry(t) ==
    /\ pc[t] = "handshake_timeout"
    /\ IF Cached(generation[t]) /\ connection.active_streams = 0
       THEN /\ connection' = NoConnection
            /\ stats' = Bump2("handshake_timeouts", "timeout_retirements")
       ELSE /\ stats' = Bump("handshake_timeouts")
            /\ UNCHANGED connection
    /\ IF attempt[t] + 1 < MAX_READY_ATTEMPTS
       THEN /\ NextAttempt(t)
            /\ recovery' = [recovery EXCEPT ![t] = TRUE]
       ELSE Leave(t)
    /\ UNCHANGED <<next_generation, active_streams, shutdown, connect_gate,
                   opens>>

\* The timed-out generation is retired only if no other task leases it, and
\* only then is the open retried.
retire_after_handshake_timeout_if_unshared(t) ==
    /\ pc[t] = "handshake_timeout"
    /\ IF Cached(generation[t]) /\ connection.active_streams = 0
       THEN /\ connection' = NoConnection
            /\ stats' = Bump2("handshake_timeouts", "timeout_retirements")
            /\ IF attempt[t] + 1 < MAX_READY_ATTEMPTS
               THEN /\ NextAttempt(t)
                    /\ recovery' = [recovery EXCEPT ![t] = TRUE]
               ELSE Leave(t)
       ELSE /\ stats' = Bump("handshake_timeouts")
            /\ Leave(t)
            /\ UNCHANGED connection
    /\ UNCHANGED <<next_generation, active_streams, shutdown, connect_gate,
                   opens>>

invalidate_after_stream_open_failure(t) ==
    /\ pc[t] = "stream_open_failed"
    /\ Take(generation[t])
    /\ stats' = Bump("stream_open_failures")
    /\ IF attempt[t] + 1 < MAX_READY_ATTEMPTS
       THEN NextAttempt(t) /\ UNCHANGED recovery
       ELSE Leave(t)
    /\ UNCHANGED <<next_generation, active_streams, shutdown, connect_gate,
                   opens>>

\* The flow ends and its tunnel is dropped, after a stream reset or a send
\* stall was counted on its lease, or after neither.
CloseTunnel(t) ==
    /\ pc[t] = "open"
    /\ DropLease(generation[t])
    /\ Leave(t)
    /\ \/ UNCHANGED stats
       \/ \E c \in {"runtime_stream_resets", "runtime_send_stalls"} :
             stats' = Bump(c)
    /\ UNCHANGED <<next_generation, shutdown, connect_gate, opens>>

\* The task is aborted or its caller's timeout fires: the future is dropped at
\* the await point it is suspended on, and with it the lease and the gate.
Cancel(t) ==
    /\ pc[t] \in AwaitStates \ {"open"}
    /\ Leave(t)
    /\ ReleaseGate(t)
    /\ IF pc[t] \in LeaseStates
       THEN DropLease(generation[t])
       ELSE UNCHANGED <<connection, active_streams>>
    /\ UNCHANGED <<next_generation, shutdown, stats, opens>>

-----------------------------------------------------------------------------
\* ClientTunnelPool::shutdown.
Shutdown ==
    /\ ~shutdown
    /\ shutdown' = TRUE
    /\ connection' = NoConnection
    /\ UNCHANGED <<next_generation, active_streams, stats, connect_gate, task,
                   opens>>

\* One tick of spawn_idle_maintenance that finds something to retire.
retire_inactive_connection ==
    /\ connection # NoConnection
    /\ \/ /\ connection.connection_closed
          /\ stats' = Bump("closed_retirements")
       \/ /\ ~connection.connection_closed
          /\ connection.active_streams = 0
          /\ connection.idle_since = "elapsed"
          /\ stats' = Bump("idle_retirements")
    /\ connection' = NoConnection
    /\ UNCHANGED <<next_generation, active_streams, shutdown, connect_gate,
                   task, opens>>

\* idle_timeout passes since idle_since was set.
IdleTimeoutElapses ==
    /\ connection # NoConnection
    /\ connection.idle_since = "fresh"
    /\ connection' = [connection EXCEPT !.idle_since = "elapsed"]
    /\ UNCHANGED <<next_generation, active_streams, shutdown, stats,
                   connect_gate, task, opens>>

\* The task driving the cached connection ends and raises connection_closed.
DriverEnds ==
    /\ connection # NoConnection
    /\ ~connection.connection_closed
    /\ connection' = [connection EXCEPT !.connection_closed = TRUE]
    /\ UNCHANGED <<next_generation, active_streams, shutdown, stats,
                   connect_gate, task, opens>>

-----------------------------------------------------------------------------
\* What the runtime drives once open_h2 was called.
OpenStep(t) ==
    \/ checkout_cached(t)
    \/ AwaitGate(t)
    \/ Connect(t)
    \/ install_and_checkout(t)
    \/ AwaitReady(t)
    \/ invalidate_after_readiness_failure(t)
    \/ RetryAcquire(t)
    \/ AwaitHandshake(t)
    \/ retire_after_handshake_timeout_if_unshared(t)
    \/ invalidate_after_stream_open_failure(t)

Next ==
    \/ \E t \in Tasks : Open(t) \/ OpenStep(t) \/ CloseTunnel(t) \/ Cancel(t)
    \/ Shutdown
    \/ retire_inactive_connection
    \/ IdleTimeoutElapses
    \/ DriverEnds

Spec == Init /\ [][Next]_vars

-----------------------------------------------------------------------------
\* Type invariant.
TypeOK ==
    /\ connection \in Connections \cup {NoConnection}
    /\ next_generation \in Nat
    /\ active_streams \in Nat
    /\ shutdown \in BOOLEAN
    /\ stats \in [Counters -> Nat]
    /\ connect_gate \in Tasks \cup {NoTask}
    /\ pc \in [Tasks -> TaskStates]
    /\ generation \in [Tasks -> Nat]
    /\ attempt \in [Tasks -> 0 .. MAX_READY_ATTEMPTS - 1]
    /\ ready_attempt \in [Tasks -> 0 .. MAX_READY_ATTEMPTS - 1]
    /\ recovery \in [Tasks -> BOOLEAN]
    /\ opens \in Nat

\* The gauges are exact whatever is invalidated, retired or cancelled in
\* between: the pool's active_streams counts the live leases, the cached
\* connection's counts the live leases of its own generation (a lease of an
\* older generation never changes it), and idle_since is set exactly while
\* that count is zero.
LeasesCounted ==
    /\ active_streams = Cardinality(Holders)
    /\ connection # NoConnection =>
         /\ connection.active_streams
                = Cardinality(HoldersOf(connection.generation))
         /\ (connection.idle_since = "none") <=> (connection.active_streams > 0)

\* The double check under the connect gate works: while a task connects or is
\* about to install, it alone holds the gate and nothing is cached, so
\* install_and_checkout never reports "H2 connection pool changed while
\* connecting" and no second outer connection is installed over a first.
OneConnectAtATime ==
    \A t \in Tasks :
        /\ (connect_gate = t) <=> (pc[t] \in GateStates)
        /\ pc[t] \in {"connecting", "install"} => connection = NoConnection

\* The numbers of the shutdown summary add up at every moment: each stream was
\* opened on a reused or on a new connection, every connection but the first
\* is a reconnect, a recovery follows a retirement by timeout, which follows a
\* timeout, and every connection that left the cache is accounted for by a
\* counter or by the shutdown.
CountersAddUp ==
    /\ stats["streams_opened"]
           = stats["streams_reused"] + stats["connections_created"]
    /\ stats["reconnects"] = IF stats["connections_created"] = 0 THEN 0
                             ELSE stats["connections_created"] - 1
    /\ stats["timeout_recoveries"] <= stats["timeout_retirements"]
    /\ stats["timeout_retirements"] <= stats["handshake_timeouts"]
    /\ stats["connections_created"]
           <= (IF connection = NoConnection THEN 0 ELSE 1)
              + stats["readiness_failures"] + stats["stream_open_failures"]
              + stats["timeout_retirements"] + stats["idle_retirements"]
              + stats["closed_retirements"] + (IF shutdown THEN 1 ELSE 0)

\* Idle maintenance and the handshake-timeout path never take a connection
\* away from a flow that still leases it (open_h2 keeps a shared generation
\* cached "instead of silently bypassing its capacity").
RetiresOnlyUnleased ==
    [][ \/ stats'["timeout_retirements"] > stats["timeout_retirements"]
        \/ stats'["idle_retirements"] > stats["idle_retirements"]
        => HoldersOf(connection.generation) = {} ]_vars

\* From shutdown on nothing is cached and no task obtains a lease, also not
\* one that was connecting when the pool was shut down.
ShutdownIsFinal ==
    [][ shutdown => /\ shutdown' /\ connection' = NoConnection
                    /\ Holders' \subseteq Holders ]_vars

\* Seen through the generation it offers and the leases it has given, the pool
\* is a SharedConnection.
Abstract == INSTANCE SharedConnection WITH
    Users <- Tasks,
    current <- IF connection = NoConnection THEN 0 ELSE connection.generation,
    issued <- next_generation,
    held <- [t \in Tasks |-> IF t \in Holders THEN generation[t] ELSE 0],
    down <- shutdown

ImplementsSharedConnection == Abstract!Spec

\* Every call of open_h2 returns, with a tunnel or an error.
OpenReturns ==
    \A t \in Tasks : pc[t] = "checkout" ~> pc[t] \in {"idle", "open"}

\* A connection nobody leases is not kept for ever.
UnleasedIsRetired ==
    []<>(connection = NoConnection \/ connection.active_streams > 0)
=============================================================================
