-------------------------- MODULE SharedConnection --------------------------
(***************************************************************************)
(* What the client's connection pool promises its users: at most one       *)
(* connection is on offer, a user holds a lease on at most one connection, *)
(* a lease is only ever given on the connection on offer, every connection *)
(* has a generation of its own, and after shutdown nothing is offered or   *)
(* leased any more.  When a connection stops being offered is left open.   *)
(***************************************************************************)
EXTENDS Naturals

CONSTANT Users

VARIABLES
    current,  \* generation on offer, 0 if none
    issued,   \* generations created so far
    held,     \* generation each user holds a lease on, 0 if none
    down      \* the pool was shut down

vars == <<current, issued, held, down>>

Init ==
    /\ current = 0
    /\ issued = 0
    /\ held = [u \in Users |-> 0]
    /\ down = FALSE

Connect(u) ==
    /\ ~down /\ current = 0 /\ held[u] = 0
    /\ issued' = issued + 1
    /\ current' = issued + 1
    /\ held' = [held EXCEPT ![u] = issued + 1]
    /\ UNCHANGED down

Lease(u) ==
    /\ ~down /\ current # 0 /\ held[u] = 0
    /\ held' = [held EXCEPT ![u] = current]
    /\ UNCHANGED <<current, issued, down>>

Return(u) ==
    /\ held[u] # 0
    /\ held' = [held EXCEPT ![u] = 0]
    /\ UNCHANGED <<current, issued, down>>

Withdraw ==
    /\ current # 0
    /\ current' = 0
    /\ UNCHANGED <<issued, held, down>>

Shut ==
    /\ down' = TRUE
    /\ current' = 0
    /\ UNCHANGED <<issued, held>>

Next ==
    \/ \E u \in Users : Connect(u) \/ Lease(u) \/ Return(u)
    \/ Withdraw
    \/ Shut

Spec == Init /\ [][Next]_vars
=============================================================================
