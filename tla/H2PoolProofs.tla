---------------------------- MODULE H2PoolProofs ----------------------------
(***************************************************************************)
(* Proofs about H2Pool, for any finite set of tasks and any bounds: the    *)
(* types, the exactness of the lease gauges, the exclusion provided by the *)
(* connect gate, the two action properties, and the refinement of          *)
(* SharedConnection.                                                       *)
(***************************************************************************)
EXTENDS H2Pool, FiniteSetTheorems, TLAPS

(***************************************************************************)
(* Types                                                                   *)
(***************************************************************************)

\* Dropping a lease (Drop for H2ConnectionLease) keeps both gauges naturals.
LEMMA DropLeaseType ==
    ASSUME TypeOK, NEW g, DropLease(g)
    PROVE  /\ connection' \in Connections \cup {NoConnection}
           /\ active_streams' \in Nat
           /\ Cached(g) => /\ connection' \in Connections
                           /\ connection'.generation = g
<1>1. active_streams' \in Nat
  BY DEF TypeOK, DropLease, Saturating_sub1
<1>2. CASE Cached(g)
  <2> DEFINE left == Saturating_sub1(connection.active_streams)
             since == IF left = 0 THEN "fresh" ELSE connection.idle_since
  <2>1. connection \in Connections
    BY <1>2 DEF TypeOK, Cached
  <2>2. left \in Nat /\ since \in IdleSince
    BY <2>1 DEF Connections, Saturating_sub1, IdleSince
  <2>3. connection' = [connection EXCEPT !.active_streams = left,
                                         !.idle_since = since]
    BY <1>2 DEF DropLease
  <2> HIDE DEF left, since
  <2>4. connection' \in Connections /\ connection'.generation = g
    BY <1>2, <2>1, <2>2, <2>3 DEF Connections, Cached
  <2> QED
    BY <1>1, <2>4
<1>3. CASE ~Cached(g)
  BY <1>1, <1>3 DEF DropLease, TypeOK
<1> QED
  BY <1>2, <1>3

\* One more lease on a cached connection (checkout_cached).
LEMMA LeasedType ==
    ASSUME NEW c \in Connections
    PROVE  [c EXCEPT !.active_streams = @ + 1, !.idle_since = "none"]
               \in Connections
<1>1. c.active_streams + 1 \in Nat /\ "none" \in IdleSince
  BY DEF Connections, IdleSince
<1> QED
  BY <1>1 DEF Connections

\* Leaving open_h2, from wherever, keeps the task's locals in their types.
LEMMA LeaveType ==
    ASSUME TypeOK, NEW t \in Tasks, Leave(t)
    PROVE  /\ pc' \in [Tasks -> TaskStates]
           /\ generation' \in [Tasks -> Nat]
           /\ attempt' \in [Tasks -> 0 .. MAX_READY_ATTEMPTS - 1]
           /\ ready_attempt' \in [Tasks -> 0 .. MAX_READY_ATTEMPTS - 1]
           /\ recovery' \in [Tasks -> BOOLEAN]
BY DEF TypeOK, Leave, TaskStates, MAX_READY_ATTEMPTS

\* Moving to another control point keeps the task's locals in their types.
LEMMA GotoType ==
    ASSUME TypeOK, NEW t \in Tasks, NEW s \in TaskStates, Goto(t, s)
    PROVE  /\ pc' \in [Tasks -> TaskStates]
           /\ generation' \in [Tasks -> Nat]
           /\ attempt' \in [Tasks -> 0 .. MAX_READY_ATTEMPTS - 1]
           /\ ready_attempt' \in [Tasks -> 0 .. MAX_READY_ATTEMPTS - 1]
           /\ recovery' \in [Tasks -> BOOLEAN]
BY DEF TypeOK, Goto

\* The control points, spelled out for the steps below.
LEMMA States ==
    TaskStates = {"idle", "gate_wait", "connecting", "ready", "handshake",
                  "open", "checkout", "recheck", "install",
                  "readiness_failed", "readiness_invalidated",
                  "handshake_timeout", "stream_open_failed"}
BY DEF TaskStates, AwaitStates, LockStates

\* Every step of the pool and of its tasks preserves the types.
LEMMA TypeStep ==
    ASSUME TypeOK, [Next]_vars
    PROVE  TypeOK'
<1> USE States
<1>1. ASSUME NEW t \in Tasks, Open(t)
      PROVE  TypeOK'
  <2>1. Goto(t, "checkout")
    BY <1>1 DEF Open
  <2> QED
    BY <1>1, <2>1, GotoType DEF Open, TypeOK, pool
<1>2. ASSUME NEW t \in Tasks, checkout_cached(t)
      PROVE  TypeOK'
  <2>1. CASE /\ shutdown
             /\ Leave(t)
             /\ ReleaseGate(t)
             /\ UNCHANGED <<pool, opens>>
    BY <2>1, LeaveType DEF TypeOK, pool, ReleaseGate
  <2>2. CASE /\ CheckoutMiss(t)
             /\ UNCHANGED <<connection, stats>>
    BY <2>2, GotoType DEF TypeOK, CheckoutMiss
  <2>3. CASE /\ connection' = NoConnection
             /\ stats' = Bump("closed_retirements")
             /\ CheckoutMiss(t)
    BY <2>3, GotoType DEF TypeOK, CheckoutMiss, Bump, Counters
  <2>4. CASE /\ connection # NoConnection
             /\ connection' = [connection EXCEPT !.active_streams = @ + 1,
                                                 !.idle_since = "none"]
             /\ active_streams' = active_streams + 1
             /\ stats' = Bump2("streams_opened", "streams_reused")
             /\ generation' = [generation EXCEPT ![t] = connection.generation]
             /\ pc' = [pc EXCEPT ![t] = "ready"]
             /\ ReleaseGate(t)
             /\ UNCHANGED <<next_generation, shutdown, attempt, ready_attempt,
                            recovery, opens>>
    <3>1. connection \in Connections /\ connection.generation \in Nat
      BY <2>4 DEF TypeOK, Connections
    <3>2. connection' \in Connections
      BY <2>4, <3>1, LeasedType
    <3> QED
      BY <2>4, <3>1, <3>2 DEF TypeOK, Bump2, Counters, ReleaseGate
  <2> QED
    BY <1>2, <2>1, <2>2, <2>3, <2>4 DEF checkout_cached
<1>3. ASSUME NEW t \in Tasks, AwaitGate(t)
      PROVE  TypeOK'
  BY <1>3, GotoType, LeaveType DEF AwaitGate, TypeOK, pool
<1>4. ASSUME NEW t \in Tasks, Connect(t)
      PROVE  TypeOK'
  BY <1>4, GotoType, LeaveType DEF Connect, TypeOK, pool, ReleaseGate
<1>5. ASSUME NEW t \in Tasks, install_and_checkout(t)
      PROVE  TypeOK'
  <2>1. CASE Leave(t) /\ UNCHANGED pool
    BY <1>5, <2>1, LeaveType DEF install_and_checkout, TypeOK, pool,
       ReleaseGate
  <2>2. CASE Install(t, next_generation + 1)
    BY <1>5, <2>2 DEF install_and_checkout, Install, TypeOK, ReleaseGate,
       Connections, IdleSince, Counters
  <2> QED
    BY <1>5, <2>1, <2>2 DEF install_and_checkout
<1>6. ASSUME NEW t \in Tasks, AwaitReady(t)
      PROVE  TypeOK'
  BY <1>6, GotoType, LeaveType, DropLeaseType DEF AwaitReady, TypeOK
<1>7. ASSUME NEW t \in Tasks, invalidate_after_readiness_failure(t)
      PROVE  TypeOK'
  BY <1>7, GotoType DEF invalidate_after_readiness_failure, TypeOK, Take,
     Bump, Counters
<1>8. ASSUME NEW t \in Tasks, RetryAcquire(t)
      PROVE  TypeOK'
  <2>1. CASE Leave(t)
    BY <1>8, <2>1, LeaveType, DropLeaseType DEF RetryAcquire, TypeOK
  <2>2. CASE ready_attempt[t] + 1 < MAX_READY_ATTEMPTS
    <3>1. ready_attempt' \in [Tasks -> 0 .. MAX_READY_ATTEMPTS - 1]
      BY <1>8, <2>2 DEF RetryAcquire, TypeOK, MAX_READY_ATTEMPTS
    <3> QED
      BY <1>8, <2>2, <3>1, DropLeaseType DEF RetryAcquire, TypeOK
  <2> QED
    BY <1>8, <2>1, <2>2 DEF RetryAcquire
<1>9. ASSUME NEW t \in Tasks, AwaitHandshake(t)
      PROVE  TypeOK'
  <2>1. CASE /\ pc' = [pc EXCEPT ![t] = "open"]
             /\ stats' = IF recovery[t] THEN Bump("timeout_recoveries")
                         ELSE stats
             /\ recovery' = [recovery EXCEPT ![t] = FALSE]
             /\ attempt' = [attempt EXCEPT ![t] = 0]
             /\ ready_attempt' = [ready_attempt EXCEPT ![t] = 0]
             /\ UNCHANGED <<connection, active_streams, generation>>
    BY <1>9, <2>1 DEF AwaitHandshake, TypeOK, Bump, Counters,
       MAX_READY_ATTEMPTS
  <2>2. CASE /\ DropLease(generation[t])
             /\ \E s \in {"handshake_timeout", "stream_open_failed"} :
                    Goto(t, s)
             /\ UNCHANGED stats
    BY <1>9, <2>2, GotoType, DropLeaseType DEF AwaitHandshake, TypeOK
  <2>3. CASE DropLease(generation[t]) /\ Leave(t) /\ UNCHANGED stats
    BY <1>9, <2>3, LeaveType, DropLeaseType DEF AwaitHandshake, TypeOK
  <2> QED
    BY <1>9, <2>1, <2>2, <2>3 DEF AwaitHandshake
<1>10. ASSUME NEW t \in Tasks, retire_after_handshake_timeout_if_unshared(t)
       PROVE  TypeOK'
  <2>1. connection' \in Connections \cup {NoConnection}
        /\ stats' \in [Counters -> Nat]
    BY <1>10 DEF retire_after_handshake_timeout_if_unshared, TypeOK, Bump,
       Bump2, Counters
  <2>2. CASE Leave(t)
    BY <1>10, <2>1, <2>2, LeaveType
       DEF retire_after_handshake_timeout_if_unshared, TypeOK
  <2>3. CASE /\ attempt[t] + 1 < MAX_READY_ATTEMPTS
             /\ NextAttempt(t)
             /\ recovery' = [recovery EXCEPT ![t] = TRUE]
    BY <1>10, <2>1, <2>3 DEF retire_after_handshake_timeout_if_unshared,
       NextAttempt, TypeOK, MAX_READY_ATTEMPTS
  <2> QED
    BY <1>10, <2>2, <2>3 DEF retire_after_handshake_timeout_if_unshared
<1>11. ASSUME NEW t \in Tasks, invalidate_after_stream_open_failure(t)
       PROVE  TypeOK'
  <2>1. connection' \in Connections \cup {NoConnection}
        /\ stats' \in [Counters -> Nat]
    BY <1>11 DEF invalidate_after_stream_open_failure, TypeOK, Bump, Take,
       Counters
  <2>2. CASE Leave(t)
    BY <1>11, <2>1, <2>2, LeaveType
       DEF invalidate_after_stream_open_failure, TypeOK
  <2>3. CASE /\ attempt[t] + 1 < MAX_READY_ATTEMPTS
             /\ NextAttempt(t)
             /\ UNCHANGED recovery
    BY <1>11, <2>1, <2>3 DEF invalidate_after_stream_open_failure,
       NextAttempt, TypeOK, MAX_READY_ATTEMPTS
  <2> QED
    BY <1>11, <2>2, <2>3 DEF invalidate_after_stream_open_failure
<1>12. ASSUME NEW t \in Tasks, CloseTunnel(t)
       PROVE  TypeOK'
  BY <1>12, LeaveType, DropLeaseType DEF CloseTunnel, TypeOK, Bump, Counters
<1>13. ASSUME NEW t \in Tasks, Cancel(t)
       PROVE  TypeOK'
  BY <1>13, LeaveType, DropLeaseType DEF Cancel, TypeOK, ReleaseGate
<1>14. CASE Shutdown
  BY <1>14 DEF Shutdown, TypeOK, task
<1>15. CASE retire_inactive_connection
  BY <1>15 DEF retire_inactive_connection, TypeOK, task, Bump, Counters
<1>16. CASE IdleTimeoutElapses
  BY <1>16 DEF IdleTimeoutElapses, TypeOK, task, Connections, IdleSince
<1>17. CASE DriverEnds
  BY <1>17 DEF DriverEnds, TypeOK, task, Connections
<1>18. CASE UNCHANGED vars
  BY <1>18 DEF vars, pool, task, TypeOK
<1> QED
  BY <1>1, <1>2, <1>3, <1>4, <1>5, <1>6, <1>7, <1>8, <1>9, <1>10, <1>11,
     <1>12, <1>13, <1>14, <1>15, <1>16, <1>17, <1>18 DEF Next, OpenStep

\* The pool and its tasks start with their types.
LEMMA TypeInit ==
    Init => TypeOK
<1> SUFFICES ASSUME Init
             PROVE  TypeOK
  OBVIOUS
<1>1. stats \in [Counters -> Nat] /\ recovery \in [Tasks -> BOOLEAN]
  BY DEF Init
<1>2. /\ pc \in [Tasks -> TaskStates]
      /\ generation \in [Tasks -> Nat]
      /\ attempt \in [Tasks -> 0 .. MAX_READY_ATTEMPTS - 1]
      /\ ready_attempt \in [Tasks -> 0 .. MAX_READY_ATTEMPTS - 1]
  BY States DEF Init, MAX_READY_ATTEMPTS
<1> QED
  BY <1>1, <1>2 DEF Init, TypeOK

\* Type correctness of the pool and of every task's locals.
THEOREM TypeCorrect ==
    Spec => []TypeOK
BY TypeInit, TypeStep, PTL DEF Spec

(***************************************************************************)
(* The four kinds of step, as far as leases are concerned                  *)
(***************************************************************************)

\* Only task t moves.
Alone(t) == \A u \in Tasks \ {t} :
                pc'[u] = pc[u] /\ generation'[u] = generation[u]

\* No lease is given or dropped; the connection is kept or taken out.
Quiet ==
    /\ \A u \in Tasks : /\ (pc'[u] \in LeaseStates) <=> (pc[u] \in LeaseStates)
                        /\ pc[u] \in LeaseStates => generation'[u] = generation[u]
    /\ UNCHANGED <<active_streams, next_generation>>
    /\ \/ connection' = NoConnection
       \/ connection' = connection
       \/ /\ connection # NoConnection /\ connection' # NoConnection
          /\ connection'.generation = connection.generation
          /\ connection'.active_streams = connection.active_streams
          /\ (connection'.idle_since = "none")
                 <=> (connection.idle_since = "none")
    /\ \/ shutdown' = shutdown
       \/ ~shutdown /\ shutdown' /\ connection' = NoConnection

\* Task t drops its lease.
Drops(t) ==
    /\ pc[t] \in LeaseStates
    /\ pc'[t] \notin LeaseStates
    /\ Alone(t)
    /\ DropLease(generation[t])
    /\ UNCHANGED <<next_generation, shutdown>>

\* Task t leases the cached connection.
Takes(t) ==
    /\ pc[t] \notin LeaseStates
    /\ pc'[t] \in LeaseStates
    /\ Alone(t)
    /\ ~shutdown
    /\ connection # NoConnection
    /\ connection' = [connection EXCEPT !.active_streams = @ + 1,
                                        !.idle_since = "none"]
    /\ active_streams' = active_streams + 1
    /\ generation'[t] = connection.generation
    /\ UNCHANGED <<next_generation, shutdown>>

\* Task t installs a new connection and leases it.
Installs(t) ==
    /\ pc[t] \notin LeaseStates
    /\ pc'[t] \in LeaseStates
    /\ Alone(t)
    /\ ~shutdown
    /\ connection = NoConnection
    /\ next_generation' = next_generation + 1
    /\ connection' = [generation |-> next_generation + 1, active_streams |-> 1,
                      idle_since |-> "none", connection_closed |-> FALSE]
    /\ active_streams' = active_streams + 1
    /\ generation'[t] = next_generation + 1
    /\ UNCHANGED shutdown

\* Every step of the code is one of the four kinds.
LEMMA Kinds ==
    ASSUME TypeOK, [Next]_vars
    PROVE  Quiet \/ \E t \in Tasks : Drops(t) \/ Takes(t) \/ Installs(t)
<1> USE DEF TypeOK, LeaseStates
<1>1. ASSUME NEW t \in Tasks, Open(t)
      PROVE  Quiet
  BY <1>1 DEF Open, Goto, pool, Quiet
<1>2. ASSUME NEW t \in Tasks, checkout_cached(t)
      PROVE  Quiet \/ Takes(t)
  BY <1>2 DEF checkout_cached, CheckoutMiss, Leave, Goto, pool, Quiet, Takes,
     Alone
<1>3. ASSUME NEW t \in Tasks, AwaitGate(t)
      PROVE  Quiet
  BY <1>3 DEF AwaitGate, Leave, Goto, pool, Quiet
<1>4. ASSUME NEW t \in Tasks, Connect(t)
      PROVE  Quiet
  BY <1>4 DEF Connect, Leave, Goto, pool, Quiet
<1>5. ASSUME NEW t \in Tasks, install_and_checkout(t)
      PROVE  Quiet \/ Installs(t)
  <2>1. CASE Leave(t) /\ UNCHANGED pool
    BY <1>5, <2>1 DEF install_and_checkout, Leave, pool, Quiet
  <2>2. CASE ~shutdown /\ connection = NoConnection
             /\ Install(t, next_generation + 1)
    BY <1>5, <2>2 DEF install_and_checkout, Install, Installs, Alone
  <2> QED
    BY <1>5, <2>1, <2>2 DEF install_and_checkout
<1>6. ASSUME NEW t \in Tasks, AwaitReady(t)
      PROVE  Quiet \/ Drops(t)
  BY <1>6 DEF AwaitReady, Leave, Goto, Quiet, Drops, Alone
<1>7. ASSUME NEW t \in Tasks, invalidate_after_readiness_failure(t)
      PROVE  Quiet
  BY <1>7 DEF invalidate_after_readiness_failure, Take, Goto, Quiet
<1>8. ASSUME NEW t \in Tasks, RetryAcquire(t)
      PROVE  Drops(t)
  BY <1>8 DEF RetryAcquire, Leave, Drops, Alone
<1>9. ASSUME NEW t \in Tasks, AwaitHandshake(t)
      PROVE  Quiet \/ Drops(t)
  BY <1>9 DEF AwaitHandshake, Leave, Goto, Quiet, Drops, Alone
<1>10. ASSUME NEW t \in Tasks, retire_after_handshake_timeout_if_unshared(t)
       PROVE  Quiet
  BY <1>10 DEF retire_after_handshake_timeout_if_unshared, Leave, NextAttempt,
     Quiet
<1>11. ASSUME NEW t \in Tasks, invalidate_after_stream_open_failure(t)
       PROVE  Quiet
  BY <1>11 DEF invalidate_after_stream_open_failure, Take, Leave, NextAttempt,
     Quiet
<1>12. ASSUME NEW t \in Tasks, CloseTunnel(t)
       PROVE  Drops(t)
  BY <1>12 DEF CloseTunnel, Leave, Drops, Alone
<1>13. ASSUME NEW t \in Tasks, Cancel(t)
       PROVE  Quiet \/ Drops(t)
  BY <1>13 DEF Cancel, AwaitStates, Leave, Quiet, Drops, Alone
<1>14. CASE Shutdown
  BY <1>14 DEF Shutdown, task, Quiet
<1>15. CASE retire_inactive_connection
  BY <1>15 DEF retire_inactive_connection, task, Quiet
<1>16. CASE IdleTimeoutElapses
  <2>1. connection \in Connections
    BY <1>16 DEF IdleTimeoutElapses
  <2> QED
    BY <1>16, <2>1, PoolAssumption DEF IdleTimeoutElapses, task, Quiet,
       Connections
<1>17. CASE DriverEnds
  <2>1. connection \in Connections
    BY <1>17 DEF DriverEnds
  <2> QED
    BY <1>17, <2>1, PoolAssumption DEF DriverEnds, task, Quiet, Connections
<1>18. CASE UNCHANGED vars
  BY <1>18 DEF vars, pool, task, Quiet
<1> QED
  BY <1>1, <1>2, <1>3, <1>4, <1>5, <1>6, <1>7, <1>8, <1>9, <1>10, <1>11,
     <1>12, <1>13, <1>14, <1>15, <1>16, <1>17, <1>18 DEF Next, OpenStep

(***************************************************************************)
(* The connect gate                                                        *)
(***************************************************************************)

\* OneConnectAtATime is inductive over the types: the gate is released exactly
\* when its holder leaves the states in which it needs it, and only its holder
\* can fill an empty cache.
LEMMA GateStep ==
    ASSUME TypeOK, OneConnectAtATime, [Next]_vars
    PROVE  OneConnectAtATime'
<1> USE PoolAssumption DEF TypeOK, GateStates, OneConnectAtATime
<1>1. ASSUME NEW t \in Tasks, Open(t)
      PROVE  OneConnectAtATime'
  BY <1>1 DEF Open, Goto, pool
<1>2. ASSUME NEW t \in Tasks, checkout_cached(t)
      PROVE  OneConnectAtATime'
  BY <1>2 DEF checkout_cached, CheckoutMiss, Leave, Goto, ReleaseGate, pool
<1>3. ASSUME NEW t \in Tasks, AwaitGate(t)
      PROVE  OneConnectAtATime'
  BY <1>3 DEF AwaitGate, Leave, Goto, pool
<1>4. ASSUME NEW t \in Tasks, Connect(t)
      PROVE  OneConnectAtATime'
  BY <1>4 DEF Connect, Leave, Goto, ReleaseGate, pool
<1>5. ASSUME NEW t \in Tasks, install_and_checkout(t)
      PROVE  OneConnectAtATime'
  BY <1>5 DEF install_and_checkout, Install, Leave, ReleaseGate, pool
<1>6. ASSUME NEW t \in Tasks, AwaitReady(t)
      PROVE  OneConnectAtATime'
  BY <1>6 DEF AwaitReady, Leave, Goto, DropLease, Cached
<1>7. ASSUME NEW t \in Tasks, invalidate_after_readiness_failure(t)
      PROVE  OneConnectAtATime'
  BY <1>7 DEF invalidate_after_readiness_failure, Goto, Take
<1>8. ASSUME NEW t \in Tasks, RetryAcquire(t)
      PROVE  OneConnectAtATime'
  BY <1>8 DEF RetryAcquire, Leave, DropLease, Cached
<1>9. ASSUME NEW t \in Tasks, AwaitHandshake(t)
      PROVE  OneConnectAtATime'
  BY <1>9 DEF AwaitHandshake, Leave, Goto, DropLease, Cached
<1>10. ASSUME NEW t \in Tasks, retire_after_handshake_timeout_if_unshared(t)
       PROVE  OneConnectAtATime'
  BY <1>10 DEF retire_after_handshake_timeout_if_unshared, Leave, NextAttempt
<1>11. ASSUME NEW t \in Tasks, invalidate_after_stream_open_failure(t)
       PROVE  OneConnectAtATime'
  BY <1>11 DEF invalidate_after_stream_open_failure, Leave, NextAttempt, Take
<1>12. ASSUME NEW t \in Tasks, CloseTunnel(t)
       PROVE  OneConnectAtATime'
  BY <1>12 DEF CloseTunnel, Leave, DropLease, Cached
<1>13. ASSUME NEW t \in Tasks, Cancel(t)
       PROVE  OneConnectAtATime'
  BY <1>13 DEF Cancel, Leave, ReleaseGate, DropLease, Cached, AwaitStates,
     LeaseStates
<1>14. CASE Shutdown
  BY <1>14 DEF Shutdown, task
<1>15. CASE retire_inactive_connection
  BY <1>15 DEF retire_inactive_connection, task
<1>16. CASE IdleTimeoutElapses
  BY <1>16 DEF IdleTimeoutElapses, task
<1>17. CASE DriverEnds
  BY <1>17 DEF DriverEnds, task
<1>18. CASE UNCHANGED vars
  BY <1>18 DEF vars, pool, task
<1> QED
  BY <1>1, <1>2, <1>3, <1>4, <1>5, <1>6, <1>7, <1>8, <1>9, <1>10, <1>11,
     <1>12, <1>13, <1>14, <1>15, <1>16, <1>17, <1>18 DEF Next, OpenStep

\* While one task connects or installs, it alone holds the gate and nothing is
\* cached, for any number of flows.
THEOREM ConnectExclusion ==
    Spec => []OneConnectAtATime
<1>1. Init => OneConnectAtATime
  BY PoolAssumption DEF Init, OneConnectAtATime, GateStates
<1> QED
  BY <1>1, TypeCorrect, GateStep, PTL DEF Spec

(***************************************************************************)
(* Leases and generations                                                  *)
(***************************************************************************)

\* What ties generations to leases: the cached connection is the last one
\* issued, every lease is of an issued generation, and nothing is cached after
\* shutdown.
Generations ==
    /\ connection # NoConnection =>
         connection.generation = next_generation /\ next_generation > 0
    /\ \A t \in Tasks : pc[t] \in LeaseStates =>
         generation[t] > 0 /\ generation[t] <= next_generation
    /\ shutdown => connection = NoConnection

\* Each kind of step preserves it.
LEMMA GenerationsStep ==
    ASSUME TypeOK, Generations, [Next]_vars
    PROVE  Generations'
<1> USE DEF TypeOK, Generations
<1>1. CASE Quiet
  BY <1>1 DEF Quiet
<1>2. ASSUME NEW t \in Tasks, Drops(t)
      PROVE  Generations'
  <2>1. connection' # NoConnection =>
            /\ connection # NoConnection
            /\ connection'.generation = connection.generation
    BY <1>2 DEF Drops, DropLease, Cached, Connections
  <2> QED
    BY <1>2, <2>1 DEF Drops, Alone, DropLease, Cached
<1>3. ASSUME NEW t \in Tasks, Takes(t)
      PROVE  Generations'
  <2>1. connection \in Connections
    BY <1>3 DEF Takes
  <2>2. connection'.generation = connection.generation
    BY <1>3, <2>1 DEF Takes, Connections
  <2> QED
    BY <1>3, <2>2 DEF Takes, Alone
<1>4. ASSUME NEW t \in Tasks, Installs(t)
      PROVE  Generations'
  BY <1>4 DEF Installs, Alone
<1> QED
  BY <1>1, <1>2, <1>3, <1>4, Kinds

\* The lease holders are finitely many, so their number is a natural.
LEMMA HoldersFinite ==
    /\ IsFiniteSet(Holders)
    /\ \A g : IsFiniteSet(HoldersOf(g))
<1>1. Holders \in SUBSET Tasks /\ \A g : HoldersOf(g) \in SUBSET Tasks
  BY DEF Holders, HoldersOf
<1> QED
  BY <1>1, PoolAssumption, FS_Subset

\* The holders of generation g after the step.
HoldersOfNext(g) ==
    {u \in Tasks : pc'[u] \in LeaseStates /\ generation'[u] = g}

\* LeasesCounted after the step, in terms of HoldersOfNext.
LEMMA LeasesCountedNext ==
    ASSUME active_streams' = Cardinality(Holders'),
           connection' # NoConnection =>
              /\ connection'.active_streams
                    = Cardinality(HoldersOfNext(connection'.generation))
              /\ (connection'.idle_since = "none")
                     <=> (connection'.active_streams > 0)
    PROVE  LeasesCounted'
<1>1. HoldersOf(connection.generation)' = HoldersOfNext(connection'.generation)
  BY DEF HoldersOf, HoldersOfNext, Holders
<1> QED
  BY <1>1 DEF LeasesCounted

\* A task that leases generation g adds one to the leases and to those of g.
LEMMA HoldersAdd ==
    ASSUME NEW t \in Tasks, pc[t] \notin LeaseStates, pc'[t] \in LeaseStates,
           Alone(t), NEW g, generation'[t] = g
    PROVE  /\ Cardinality(Holders') = Cardinality(Holders) + 1
           /\ Cardinality(HoldersOfNext(g)) = Cardinality(HoldersOf(g)) + 1
<1>1. Holders' = Holders \cup {t} /\ t \notin Holders
  BY DEF Holders, Alone
<1>2. HoldersOfNext(g) = HoldersOf(g) \cup {t}
  BY DEF HoldersOf, HoldersOfNext, Holders, Alone
<1>3. t \notin HoldersOf(g)
  BY DEF HoldersOf, Holders
<1> QED
  BY <1>1, <1>2, <1>3, HoldersFinite, FS_AddElement

\* A task that drops its lease takes one from the leases and, of all
\* generations, only from its own.
LEMMA HoldersRemove ==
    ASSUME NEW t \in Tasks, pc[t] \in LeaseStates, pc'[t] \notin LeaseStates,
           Alone(t), NEW g
    PROVE  /\ Cardinality(Holders) \in Nat \ {0}
           /\ Cardinality(Holders') = Cardinality(Holders) - 1
           /\ generation[t] = g =>
                /\ Cardinality(HoldersOf(g)) \in Nat \ {0}
                /\ Cardinality(HoldersOfNext(g)) = Cardinality(HoldersOf(g)) - 1
           /\ generation[t] # g => HoldersOfNext(g) = HoldersOf(g)
<1>1. Holders' = Holders \ {t} /\ t \in Holders
  BY DEF Holders, Alone
<1>2. Cardinality(Holders) \in Nat \ {0}
      /\ Cardinality(Holders') = Cardinality(Holders) - 1
  <2>1. Holders # {}
    BY <1>1
  <2> QED
    BY <1>1, <2>1, HoldersFinite, FS_RemoveElement, FS_CardinalityType,
       FS_EmptySet
<1>3. ASSUME generation[t] = g
      PROVE  /\ Cardinality(HoldersOf(g)) \in Nat \ {0}
             /\ Cardinality(HoldersOfNext(g)) = Cardinality(HoldersOf(g)) - 1
  <2>1. HoldersOfNext(g) = HoldersOf(g) \ {t} /\ t \in HoldersOf(g)
    BY <1>3 DEF HoldersOf, HoldersOfNext, Holders, Alone
  <2>2. HoldersOf(g) # {}
    BY <2>1
  <2>3. IsFiniteSet(HoldersOf(g)) /\ Cardinality(HoldersOf(g)) \in Nat
    BY HoldersFinite, FS_CardinalityType
  <2>4. Cardinality(HoldersOf(g)) # 0
    BY <2>2, <2>3, FS_EmptySet
  <2>5. Cardinality(HoldersOf(g) \ {t}) = Cardinality(HoldersOf(g)) - 1
    BY <2>1, <2>3, FS_RemoveElement
  <2> QED
    BY <2>1, <2>3, <2>4, <2>5
<1>4. ASSUME generation[t] # g
      PROVE  HoldersOfNext(g) = HoldersOf(g)
  BY <1>4 DEF HoldersOf, HoldersOfNext, Holders, Alone
<1> QED
  BY <1>2, <1>3, <1>4

\* The gauges stay exact through each kind of step.  For a new connection this
\* needs Generations: no lease of its generation exists yet.
LEMMA LeasesStep ==
    ASSUME TypeOK, Generations, LeasesCounted, [Next]_vars
    PROVE  LeasesCounted'
<1> USE DEF TypeOK
<1>1. CASE Quiet
  <2>1. Holders' = Holders
    BY <1>1 DEF Quiet, Holders
  <2>2. \A g : HoldersOfNext(g) = HoldersOf(g)
    BY <1>1 DEF Quiet, HoldersOf, HoldersOfNext, Holders
  <2> QED
    BY <1>1, <2>1, <2>2, LeasesCountedNext DEF Quiet, LeasesCounted
<1>2. ASSUME NEW t \in Tasks, Drops(t)
      PROVE  LeasesCounted'
  <2>0. /\ pc[t] \in LeaseStates /\ pc'[t] \notin LeaseStates /\ Alone(t)
        /\ DropLease(generation[t])
    BY <1>2 DEF Drops
  <2>1. active_streams' = Cardinality(Holders')
    BY <2>0, HoldersRemove DEF DropLease, Saturating_sub1, LeasesCounted
  <2>2. CASE Cached(generation[t])
    <3> DEFINE g == generation[t]
               left == Saturating_sub1(connection.active_streams)
    <3>1. /\ connection \in Connections /\ connection.generation = g
          /\ connection # NoConnection
      BY <2>2 DEF Cached
    <3>2. /\ connection.active_streams = Cardinality(HoldersOf(g))
          /\ (connection.idle_since = "none")
                 <=> (connection.active_streams > 0)
      BY <3>1 DEF LeasesCounted
    <3>3. /\ Cardinality(HoldersOf(g)) \in Nat \ {0}
          /\ Cardinality(HoldersOfNext(g)) = Cardinality(HoldersOf(g)) - 1
      BY <2>0, HoldersRemove
    <3>4. left \in Nat /\ left = Cardinality(HoldersOfNext(g))
      BY <3>2, <3>3 DEF Saturating_sub1
    <3>5. connection' =
            [connection EXCEPT
               !.active_streams = left,
               !.idle_since = IF left = 0 THEN "fresh" ELSE @]
      BY <2>0, <2>2 DEF DropLease
    <3> HIDE DEF left, g
    <3>6. /\ connection'.generation = g
          /\ connection'.active_streams = left
          /\ connection'.idle_since
                 = IF left = 0 THEN "fresh" ELSE connection.idle_since
      BY <3>1, <3>5 DEF Connections
    <3>7. (connection'.idle_since = "none") <=> (left > 0)
      BY <3>2, <3>3, <3>4, <3>6
    <3> QED
      BY <2>1, <3>4, <3>6, <3>7, LeasesCountedNext
  <2>3. CASE ~Cached(generation[t])
    <3>1. connection' = connection
      BY <2>0, <2>3 DEF DropLease
    <3>2. connection # NoConnection =>
             HoldersOfNext(connection.generation)
                 = HoldersOf(connection.generation)
      BY <2>0, <2>3, HoldersRemove DEF Cached
    <3> QED
      BY <2>1, <3>1, <3>2, LeasesCountedNext DEF LeasesCounted
  <2> QED
    BY <2>2, <2>3
<1>3. ASSUME NEW t \in Tasks, Takes(t)
      PROVE  LeasesCounted'
  <2>1. connection \in Connections
    BY <1>3 DEF Takes
  <2>2. /\ connection'.generation = connection.generation
        /\ connection'.active_streams = connection.active_streams + 1
        /\ connection'.idle_since = "none"
        /\ connection.active_streams \in Nat
    BY <1>3, <2>1 DEF Takes, Connections
  <2>3. /\ Cardinality(Holders') = Cardinality(Holders) + 1
        /\ Cardinality(HoldersOfNext(connection.generation))
               = Cardinality(HoldersOf(connection.generation)) + 1
    BY <1>3, HoldersAdd DEF Takes
  <2> QED
    BY <1>3, <2>2, <2>3, LeasesCountedNext DEF Takes, LeasesCounted
<1>4. ASSUME NEW t \in Tasks, Installs(t)
      PROVE  LeasesCounted'
  <2>1. HoldersOf(next_generation + 1) = {}
    BY DEF Generations, HoldersOf, Holders
  <2>2. /\ Cardinality(Holders') = Cardinality(Holders) + 1
        /\ Cardinality(HoldersOfNext(next_generation + 1))
               = Cardinality(HoldersOf(next_generation + 1)) + 1
    BY <1>4, HoldersAdd DEF Installs
  <2>3. Cardinality(HoldersOfNext(next_generation + 1)) = 1
    <3>1. Cardinality(HoldersOf(next_generation + 1)) = 0
      BY <2>1, FS_EmptySet, Zenon
    <3> QED
      BY <2>2, <3>1
  <2> QED
    <3>1. active_streams' = Cardinality(Holders')
      BY <1>4, <2>2 DEF Installs, LeasesCounted
    <3>2. /\ connection'.generation = next_generation + 1
          /\ connection'.active_streams = 1
          /\ connection'.idle_since = "none"
      BY <1>4 DEF Installs
    <3> QED
      BY <2>3, <3>1, <3>2, LeasesCountedNext
<1> QED
  BY <1>1, <1>2, <1>3, <1>4, Kinds

\* The invariant the action properties and the refinement are proved from.
IInv == TypeOK /\ Generations /\ LeasesCounted

\* It holds throughout.
LEMMA Invariance ==
    Spec => []IInv
<1>1. Init => IInv
  <2>1. Init => Holders = {}
    BY DEF Init, Holders, LeaseStates
  <2> QED
    BY <2>1, TypeInit, FS_EmptySet
       DEF IInv, Init, Generations, LeasesCounted, LeaseStates
<1>2. IInv /\ [Next]_vars => IInv'
  BY TypeStep, GenerationsStep, LeasesStep DEF IInv
<1> QED
  BY <1>1, <1>2, PTL DEF Spec

\* The pool's stream gauges are exact for any number of flows, whatever is
\* invalidated, retired or cancelled between checkout and drop.
THEOREM LeasesExact ==
    Spec => []LeasesCounted
BY Invariance, PTL DEF IInv

(***************************************************************************)
(* What a step may never do                                                *)
(***************************************************************************)

\* After shutdown nothing is cached again and no task obtains a lease, also
\* not one whose connect finishes late.
THEOREM NothingAfterShutdown ==
    Spec => ShutdownIsFinal
<1>1. IInv /\ [Next]_vars =>
          [shutdown => /\ shutdown' /\ connection' = NoConnection
                       /\ Holders' \subseteq Holders]_vars
  <2> SUFFICES ASSUME IInv, [Next]_vars, shutdown
               PROVE  /\ shutdown' /\ connection' = NoConnection
                      /\ Holders' \subseteq Holders
    OBVIOUS
  <2>1. TypeOK /\ connection = NoConnection
    BY DEF IInv, Generations
  <2>2. CASE Quiet
    BY <2>1, <2>2 DEF Quiet, Holders
  <2>3. ASSUME NEW t \in Tasks, Drops(t)
        PROVE  /\ shutdown' /\ connection' = NoConnection
               /\ Holders' \subseteq Holders
    BY <2>1, <2>3 DEF Drops, DropLease, Cached, Holders, Alone
  <2> QED
    BY <2>1, <2>2, <2>3, Kinds DEF Takes, Installs
<1> QED
  BY <1>1, Invariance, PTL DEF Spec, ShutdownIsFinal

\* The two counters of retirements move only in the action that retires for
\* that reason.
LEMMA RetirementCounters ==
    ASSUME TypeOK, [Next]_vars,
           \/ stats'["timeout_retirements"] > stats["timeout_retirements"]
           \/ stats'["idle_retirements"] > stats["idle_retirements"]
    PROVE  connection # NoConnection /\ connection.active_streams = 0
<1>1. /\ stats \in [Counters -> Nat]
      /\ {"timeout_retirements", "idle_retirements"} \subseteq Counters
      /\ stats["timeout_retirements"] \in Nat
      /\ stats["idle_retirements"] \in Nat
  BY DEF TypeOK, Counters
<1>2. ~ UNCHANGED stats
  BY <1>1
<1>3. ASSUME NEW c \in Counters, c # "timeout_retirements",
             c # "idle_retirements"
      PROVE  stats' # Bump(c)
  BY <1>1, <1>3 DEF Bump
<1>4. ASSUME NEW t \in Tasks, retire_after_handshake_timeout_if_unshared(t)
      PROVE  connection # NoConnection /\ connection.active_streams = 0
  BY <1>3, <1>4 DEF retire_after_handshake_timeout_if_unshared, Cached, Counters
<1>5. CASE retire_inactive_connection
  BY <1>3, <1>5 DEF retire_inactive_connection, Counters
<1>6. ASSUME NEW t \in Tasks, checkout_cached(t)
      PROVE  FALSE
  <2>1. stats' # Bump2("streams_opened", "streams_reused")
    BY <1>1 DEF Bump2
  <2> QED
    BY <1>2, <1>3, <1>6, <2>1 DEF checkout_cached, Counters, pool
<1>7. ASSUME NEW t \in Tasks, install_and_checkout(t)
      PROVE  FALSE
  BY <1>1, <1>2, <1>7 DEF install_and_checkout, Install, pool
<1>8. ASSUME NEW t \in Tasks,
             \/ Open(t) \/ AwaitGate(t) \/ Connect(t) \/ AwaitReady(t)
             \/ RetryAcquire(t) \/ Cancel(t)
      PROVE  FALSE
  BY <1>2, <1>8 DEF Open, AwaitGate, Connect, AwaitReady, RetryAcquire, Cancel,
     pool
<1>9. ASSUME NEW t \in Tasks,
             \/ invalidate_after_readiness_failure(t)
             \/ invalidate_after_stream_open_failure(t)
             \/ AwaitHandshake(t) \/ CloseTunnel(t)
      PROVE  FALSE
  BY <1>2, <1>3, <1>9 DEF invalidate_after_readiness_failure,
     invalidate_after_stream_open_failure, AwaitHandshake, CloseTunnel, Counters
<1>10. ~(Shutdown \/ IdleTimeoutElapses \/ DriverEnds \/ UNCHANGED vars)
  BY <1>2 DEF Shutdown, IdleTimeoutElapses, DriverEnds, vars, pool
<1> QED
  BY <1>4, <1>5, <1>6, <1>7, <1>8, <1>9, <1>10 DEF Next, OpenStep

\* Neither idle maintenance nor a handshake timeout takes a connection away
\* from a flow that leases it: the gauge they test is exact.
THEOREM RetirementIsSafe ==
    Spec => RetiresOnlyUnleased
<1>1. IInv /\ [Next]_vars =>
        [ \/ stats'["timeout_retirements"] > stats["timeout_retirements"]
          \/ stats'["idle_retirements"] > stats["idle_retirements"]
          => HoldersOf(connection.generation) = {} ]_vars
  BY RetirementCounters, HoldersFinite, FS_EmptySet DEF IInv, LeasesCounted
<1> QED
  BY <1>1, Invariance, PTL DEF Spec, RetiresOnlyUnleased

(***************************************************************************)
(* The pool implements SharedConnection                                    *)
(***************************************************************************)

\* The refinement mapping, with names of its own.
Offered == IF connection = NoConnection THEN 0 ELSE connection.generation
Held == [t \in Tasks |-> IF t \in Holders THEN generation[t] ELSE 0]

\* A step in which only task t's lease changes updates Held at t alone.
LEMMA HeldUpdate ==
    ASSUME NEW t \in Tasks, Alone(t)
    PROVE  Held' = [Held EXCEPT ![t] = IF pc'[t] \in LeaseStates
                                       THEN generation'[t] ELSE 0]
BY DEF Held, Holders, Alone

\* Each kind of step is a step of SharedConnection, or invisible to it.
LEMMA RefinementStep ==
    ASSUME IInv, [Next]_vars
    PROVE  [Abstract!Next]_(Abstract!vars)
<1> USE DEF IInv, Generations, TypeOK
<1>1. CASE Quiet
  <2>1. Held' = Held /\ next_generation' = next_generation
    BY <1>1 DEF Quiet, Held, Holders
  <2>2. CASE Offered' = Offered /\ shutdown' = shutdown
    BY <2>1, <2>2 DEF Held, Offered, Abstract!vars
  <2>3. CASE Offered' # Offered /\ shutdown' = shutdown
    <3>1. Offered' = 0
      BY <1>1, <2>3 DEF Quiet, Offered
    <3>2. Abstract!Withdraw
      BY <2>1, <2>3, <3>1 DEF Held, Offered, Abstract!Withdraw
    <3> QED
      BY <3>2 DEF Abstract!Next
  <2>4. CASE shutdown' # shutdown
    <3>1. shutdown' = TRUE /\ Offered' = 0
      BY <1>1, <2>4 DEF Quiet, Offered
    <3>2. Abstract!Shut
      BY <2>1, <3>1 DEF Held, Offered, Abstract!Shut
    <3> QED
      BY <3>2 DEF Abstract!Next
  <2> QED
    BY <2>2, <2>3, <2>4
<1>2. ASSUME NEW t \in Tasks, Drops(t)
      PROVE  Abstract!Return(t)
  <2>1. Offered' = Offered
    <3>1. CASE Cached(generation[t])
      <4>1. connection' \in Connections /\ connection'.generation = generation[t]
        BY <1>2, <3>1, DropLeaseType DEF Drops
      <4> QED
        BY <3>1, <4>1, PoolAssumption DEF Cached, Offered
    <3>2. CASE ~Cached(generation[t])
      BY <1>2, <3>2 DEF Drops, DropLease, Offered
    <3> QED
      BY <3>1, <3>2
  <2>2. Held[t] # 0
    BY <1>2 DEF Drops, Held, Holders
  <2>3. Held' = [Held EXCEPT ![t] = 0]
    BY <1>2, HeldUpdate DEF Drops
  <2> QED
    BY <1>2, <2>1, <2>2, <2>3
       DEF Drops, Held, Offered, Abstract!Return
<1>3. ASSUME NEW t \in Tasks, Takes(t)
      PROVE  Abstract!Lease(t)
  <2>1. connection \in Connections
    BY <1>3 DEF Takes
  <2>2. Offered' = Offered /\ Offered = connection.generation /\ Offered # 0
    <3>1. connection' \in Connections
      BY <1>3, <2>1, LeasedType DEF Takes
    <3>2. connection'.generation = connection.generation
      BY <1>3, <2>1 DEF Takes, Connections
    <3> QED
      BY <1>3, <2>1, <3>1, <3>2, PoolAssumption DEF Takes, Offered
  <2>3. Held[t] = 0
    BY <1>3 DEF Takes, Held, Holders
  <2>4. Held' = [Held EXCEPT ![t] = Offered]
    BY <1>3, <2>2, HeldUpdate DEF Takes
  <2> QED
    BY <1>3, <2>2, <2>3, <2>4 DEF Takes, Held, Offered, Abstract!Lease
<1>4. ASSUME NEW t \in Tasks, Installs(t)
      PROVE  Abstract!Connect(t)
  <2>1. connection' \in Connections
    <3>1. /\ connection' = [generation |-> next_generation + 1, active_streams |-> 1,
                             idle_since |-> "none", connection_closed |-> FALSE]
      BY <1>4 DEF Installs
    <3>2. next_generation + 1 \in Nat
      BY DEF TypeOK
    <3> QED
      BY <3>1, <3>2 DEF Connections, IdleSince
  <2>2. Offered = 0 /\ Offered' = next_generation + 1
    BY <1>4, <2>1, PoolAssumption DEF Installs, Offered
  <2>3. Held[t] = 0
    BY <1>4 DEF Installs, Held, Holders
  <2>4. Held' = [Held EXCEPT ![t] = next_generation + 1]
    BY <1>4, HeldUpdate DEF Installs
  <2> QED
    BY <1>4, <2>2, <2>3, <2>4 DEF Installs, Held, Offered, Abstract!Connect
<1> QED
  BY <1>1, <1>2, <1>3, <1>4, Kinds DEF Abstract!Next

\* The pool implements SharedConnection: at most one connection on offer, a
\* generation for each, leases only on the one offered, nothing after shutdown.
THEOREM Refinement ==
    Spec => ImplementsSharedConnection
<1>1. Init => Abstract!Init
  BY DEF Init, Abstract!Init, Holders, LeaseStates
<1> QED
  BY <1>1, Invariance, RefinementStep, PTL
     DEF Spec, ImplementsSharedConnection, Abstract!Spec
=============================================================================
