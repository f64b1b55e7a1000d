----------------------------- MODULE RateLimiter -----------------------------
(***************************************************************************)
(* The policies of the server's users: how many flows one may have, and    *)
(* the rate limiter its flows share.  A tick of time is what one byte      *)
(* costs, so delay_for(n) is n ticks.                                      *)
(***************************************************************************)
EXTENDS Integers, FiniteSetsExt, FiniteSetTheorems, TLAPS

CONSTANTS Users,        \* user ids of the configuration
          UserConfig,   \* user -> [enabled, max_concurrent_flows, rate_limit]; 0 for an absent limit
          Flows,        \* flow tasks
          DefaultFlows, \* max_concurrent_flows_per_user
          Sizes,        \* bytes one throttle call asks for
          MaxTime       \* bound on the clock and on what is reserved

VARIABLES now,
          owner,           \* flow -> its user, or "none"
          next_available,  \* user -> first instant not yet reserved
          wake,            \* flow -> when its sleep ends, 0 while it does not sleep
          asked,           \* flow -> the bytes it waits for
          passed,          \* user -> bytes let through so far
          lost             \* user -> bytes reserved by flows that ended in their sleep

vars == <<now, owner, next_available, wake, asked, passed, lost>>

\* ServerPolicies::from_config: enabled users only, at least one flow each.
policies ==
    [u \in {v \in Users : UserConfig[v].enabled} |->
        [flow_limit |-> Max({1, IF UserConfig[u].max_concurrent_flows = 0 THEN DefaultFlows
                                ELSE UserConfig[u].max_concurrent_flows}),
         limited |-> UserConfig[u].rate_limit]]

Start == 1   \* the clock at RateLimiter::new; 0 means no sleep

FlowsOf(u) == {f \in Flows : owner[f] = u}
Sleeping(f) == wake[f] # 0

\* for_user, then a permit of the user's flow_limit; without either the flow is refused.
OpenFlow(f, u) ==
    /\ owner[f] = "none" /\ u \in DOMAIN policies
    /\ Cardinality(FlowsOf(u)) < policies[u].flow_limit
    /\ owner' = [owner EXCEPT ![f] = u]
    /\ UNCHANGED <<now, next_available, wake, asked, passed, lost>>

\* Mutant: the delay is counted from now on.
throttle_Now(f, n) ==
    /\ owner[f] # "none" /\ ~Sleeping(f) /\ policies[owner[f]].limited /\ n > 0
    /\ LET u == owner[f] IN
       /\ next_available' = [next_available EXCEPT ![u] = now + n]
       /\ wake' = [wake EXCEPT ![f] = now + n]
    /\ asked' = [asked EXCEPT ![f] = n]
    /\ UNCHANGED <<now, owner, passed, lost>>

\* Mutant: the sleep ends where the reservation starts.
throttle_Start(f, n) ==
    /\ owner[f] # "none" /\ ~Sleeping(f) /\ policies[owner[f]].limited /\ n > 0
    /\ LET u == owner[f]
           start_at == Max({next_available[u], now}) IN
       /\ next_available' = [next_available EXCEPT ![u] = start_at + n]
       /\ wake' = [wake EXCEPT ![f] = start_at]
    /\ asked' = [asked EXCEPT ![f] = n]
    /\ UNCHANGED <<now, owner, passed, lost>>

\* Mutant: the delay is added to the reservation twice.
throttle_Twice(f, n) ==
    /\ owner[f] # "none" /\ ~Sleeping(f) /\ policies[owner[f]].limited /\ n > 0
    /\ LET u == owner[f]
           start_at == Max({next_available[u], now}) IN
       /\ next_available' = [next_available EXCEPT ![u] = start_at + n + n]
       /\ wake' = [wake EXCEPT ![f] = start_at + n]
    /\ asked' = [asked EXCEPT ![f] = n]
    /\ UNCHANGED <<now, owner, passed, lost>>

\* RateLimiter::throttle up to its sleep; nothing awaits while the mutex is held.  A call
\* for no bytes, or of a user without a rate, returns at once and changes nothing.
throttle(f, n) ==
    /\ owner[f] # "none" /\ ~Sleeping(f) /\ policies[owner[f]].limited /\ n > 0
    /\ LET u == owner[f]
           start_at == Max({next_available[u], now}) IN
       /\ next_available' = [next_available EXCEPT ![u] = start_at + n]
       /\ wake' = [wake EXCEPT ![f] = start_at + n]
    /\ asked' = [asked EXCEPT ![f] = n]
    /\ UNCHANGED <<now, owner, passed, lost>>

\* sleep_until returns, at its instant or later.
Wakes(f) ==
    /\ Sleeping(f) /\ now >= wake[f]
    /\ passed' = [passed EXCEPT ![owner[f]] = @ + asked[f]]
    /\ wake' = [wake EXCEPT ![f] = 0] /\ asked' = [asked EXCEPT ![f] = 0]
    /\ UNCHANGED <<now, owner, next_available, lost>>

\* The flow's task ends; in its sleep only if it is cancelled, and what it reserved stays
\* reserved.
CloseFlow(f) ==
    /\ owner[f] # "none"
    /\ lost' = [lost EXCEPT ![owner[f]] = @ + asked[f]]
    /\ owner' = [owner EXCEPT ![f] = "none"]
    /\ wake' = [wake EXCEPT ![f] = 0] /\ asked' = [asked EXCEPT ![f] = 0]
    /\ UNCHANGED <<now, next_available, passed>>

Tick ==
    /\ now < MaxTime /\ now' = now + 1
    /\ UNCHANGED <<owner, next_available, wake, asked, passed, lost>>

Init ==
    /\ now = Start /\ owner = [f \in Flows |-> "none"] /\ next_available = [u \in Users |-> Start]
    /\ wake = [f \in Flows |-> 0] /\ asked = [f \in Flows |-> 0]
    /\ passed = [u \in Users |-> 0] /\ lost = [u \in Users |-> 0]

Next ==
    \/ \E f \in Flows, u \in Users : OpenFlow(f, u)
    \/ \E f \in Flows, n \in Sizes :
          owner[f] # "none" /\ Max({now, next_available[owner[f]]}) + n <= MaxTime /\ throttle(f, n)
    \/ \E f \in Flows : Wakes(f) \/ CloseFlow(f)
    \/ Tick

Spec == Init /\ [][Next]_vars

-----------------------------------------------------------------------------
\* All the flows of a limited user together never pass more than the time since the start
\* pays for, and what was passed or given up was reserved.
RateIsShared ==
    \A u \in DOMAIN policies :
        policies[u].limited => passed[u] + lost[u] <= next_available[u] - Start /\ passed[u] <= now - Start

\* Two flows of a user never wait for the same stretch of time, in whatever order they
\* called and whichever was cancelled.
ReservationsAreDisjoint ==
    \A f, g \in Flows :
        (f # g /\ Sleeping(f) /\ Sleeping(g) /\ owner[f] = owner[g]) =>
            wake[f] <= wake[g] - asked[g] \/ wake[g] <= wake[f] - asked[f]

\* A flow waits no longer than for what is reserved ahead of it: the bytes of the user's
\* sleeping flows and of those cancelled in their sleep.
WaitIsBounded ==
    \A u \in DOMAIN policies :
        next_available[u] - now <= lost[u] + MapThenSumSet(LAMBDA f : asked[f], FlowsOf(u))

-----------------------------------------------------------------------------
(* The proofs.  No sum over flows is needed: the ticks between the start    *)
(* and T that no sleeping flow of a user has reserved are a set, and the    *)
(* bytes passed and given up are counted against its size.                  *)

\* What the configuration gives: user ids are names, a call asks for some bytes.
RateConstants == "none" \notin Users /\ Sizes \subseteq Nat /\ MaxTime \in Nat

RateTypes ==
    /\ now \in Nat /\ now >= Start
    /\ owner \in [Flows -> Users \cup {"none"}] /\ next_available \in [Users -> Nat]
    /\ wake \in [Flows -> Nat] /\ asked \in [Flows -> Nat]
    /\ passed \in [Users -> Nat] /\ lost \in [Users -> Nat]

\* A reservation lies between the start and what its user has reserved.
Reserved ==
    /\ \A u \in Users : next_available[u] >= Start
    /\ \A f \in Flows :
         IF Sleeping(f) THEN /\ owner[f] \in Users /\ Start <= wake[f] - asked[f]
                             /\ wake[f] <= next_available[owner[f]]
         ELSE asked[f] = 0

Stretch(wk, as, f) == (wk[f] - as[f])..(wk[f] - 1)
\* The ticks before T that no flow of u waits for.
Free(ow, wk, as, u, T) == {t \in Start..(T - 1) : \A f \in Flows : ow[f] = u => t \notin Stretch(wk, as, f)}

\* What was passed is paid for by free ticks that are over, and with what was given up by
\* free ticks that were reserved.
Accounts ==
    \A u \in Users :
      /\ passed[u] <= Cardinality(Free(owner, wake, asked, u, now))
      /\ passed[u] + lost[u] <= Cardinality(Free(owner, wake, asked, u, next_available[u]))

RateInv == RateTypes /\ Reserved /\ ReservationsAreDisjoint /\ Accounts

\* The later of two instants.
LEMMA MaxOfTwo ==
    ASSUME NEW a \in Nat, NEW b \in Nat
    PROVE  /\ Max({a, b}) \in Nat /\ Max({a, b}) >= a /\ Max({a, b}) >= b
           /\ Max({a, b}) \in {a, b}
<1>1. \E x \in {a, b} : \A y \in {a, b} : x >= y
    <2>1. CASE a >= b
        BY <2>1
    <2>2. CASE b >= a
        BY <2>2
    <2>. QED BY <2>1, <2>2
<1>2. Max({a, b}) \in {a, b} /\ \A y \in {a, b} : Max({a, b}) >= y
    BY <1>1 DEF Max
<1>. QED BY <1>2

\* The free ticks can be counted, and there are at most as many as have gone by.
LEMMA FreeFinite ==
    ASSUME NEW ow, NEW wk, NEW as, NEW u, NEW T \in Nat, T >= Start
    PROVE  /\ IsFiniteSet(Free(ow, wk, as, u, T)) /\ Cardinality(Free(ow, wk, as, u, T)) \in Nat
           /\ Cardinality(Free(ow, wk, as, u, T)) <= T - Start
<1>1. Start \in Int /\ T - 1 \in Int
    BY DEF Start
<1>2. IsFiniteSet(Start..(T - 1)) /\ Cardinality(Start..(T - 1)) = T - Start
    <2>1. /\ IsFiniteSet(Start..(T - 1))
          /\ Cardinality(Start..(T - 1)) = IF Start > T - 1 THEN 0 ELSE (T - 1) - Start + 1
        BY <1>1, FS_Interval
    <2>. QED BY <2>1 DEF Start
<1>3. Free(ow, wk, as, u, T) \in SUBSET (Start..(T - 1))
    BY DEF Free
<1>4. /\ IsFiniteSet(Free(ow, wk, as, u, T))
      /\ Cardinality(Free(ow, wk, as, u, T)) <= Cardinality(Start..(T - 1))
    BY <1>2, <1>3, FS_Subset
<1>. QED BY <1>2, <1>4, FS_CardinalityType

\* What stays free is counted again.
LEMMA FreeGrows ==
    ASSUME NEW ow, NEW wk, NEW as, NEW u, NEW T \in Nat, T >= Start,
           NEW ox, NEW wx, NEW ax, NEW U \in Nat, U >= Start,
           Free(ow, wk, as, u, T) \subseteq Free(ox, wx, ax, u, U)
    PROVE  Cardinality(Free(ow, wk, as, u, T)) <= Cardinality(Free(ox, wx, ax, u, U))
BY FreeFinite, FS_Subset

\* A flow that gives its stretch back, having slept through it or not, frees as many ticks
\* as it asked for bytes: nobody else of its user has reserved one of them.
LEMMA StretchFreed ==
    ASSUME RateTypes, Reserved, ReservationsAreDisjoint,
           NEW f \in Flows, Sleeping(f), NEW T \in Nat, wake[f] <= T,
           NEW ox, NEW wx, NEW ax, ox[f] = owner[f] => wx[f] = 0 /\ ax[f] = 0,
           \A g \in Flows \ {f} : ox[g] = owner[g] /\ wx[g] = wake[g] /\ ax[g] = asked[g]
    PROVE  Cardinality(Free(ox, wx, ax, owner[f], T))
             = Cardinality(Free(owner, wake, asked, owner[f], T)) + asked[f]
<1>. DEFINE u == owner[f]
            A == Free(owner, wake, asked, u, T)
            B == Free(ox, wx, ax, u, T)
            S == Stretch(wake, asked, f)
<1>1. /\ wake[f] \in Nat /\ asked[f] \in Nat /\ Start <= wake[f] - asked[f] /\ T >= Start
      /\ Start \in Nat
    BY DEF RateTypes, Reserved, Start
<1>2. S \subseteq Start..(T - 1)
    BY <1>1 DEF Stretch
<1>3. ASSUME NEW g \in Flows \ {f}, ox[g] = u
      PROVE  Stretch(wx, ax, g) = Stretch(wake, asked, g) /\ Stretch(wake, asked, g) \cap S = {}
    <2>1. owner[g] = u /\ Stretch(wx, ax, g) = Stretch(wake, asked, g)
        BY <1>3 DEF Stretch
    <2>2. wake[g] \in Nat /\ asked[g] \in Nat
        BY DEF RateTypes
    <2>3. CASE Sleeping(g)
        <3>1. wake[f] <= wake[g] - asked[g] \/ wake[g] <= wake[f] - asked[f]
            BY <2>1, <2>3 DEF ReservationsAreDisjoint
        <3>. QED BY <1>1, <2>1, <2>2, <3>1 DEF Stretch
    <2>4. CASE ~Sleeping(g)
        <3>1. wake[g] = 0 /\ asked[g] = 0
            BY <2>4 DEF Sleeping, Reserved
        <3>. QED BY <1>1, <2>1, <3>1 DEF Stretch
    <2>. QED BY <2>3, <2>4
<1>4. ox[f] = u => Stretch(wx, ax, f) = {}
    BY DEF Stretch
<1>5. B = A \cup S
    <2>1. ASSUME NEW t \in Start..(T - 1), t \in B
          PROVE  t \in A \/ t \in S
        BY <2>1, <1>3 DEF Free
    <2>2. ASSUME NEW t \in Start..(T - 1), t \in A \/ t \in S
          PROVE  t \in B
        BY <2>2, <1>3, <1>4 DEF Free
    <2>. QED BY <1>2, <2>1, <2>2 DEF Free
<1>6. A \cap S = {}
    BY DEF Free
<1>7. IsFiniteSet(A) /\ Cardinality(A) \in Nat
    BY <1>1, FreeFinite
<1>8. IsFiniteSet(S) /\ Cardinality(S) = asked[f]
    <2>1. wake[f] - asked[f] \in Int /\ wake[f] - 1 \in Int
        BY <1>1
    <2>2. /\ IsFiniteSet(S)
          /\ Cardinality(S) = IF wake[f] - asked[f] > wake[f] - 1 THEN 0
                              ELSE (wake[f] - 1) - (wake[f] - asked[f]) + 1
        BY <2>1, FS_Interval DEF Stretch
    <2>. QED BY <1>1, <2>2
<1>9. Cardinality(A \cup S) = Cardinality(A) + Cardinality(S) - Cardinality(A \cap S)
    BY <1>7, <1>8, FS_Union
<1>10. Cardinality({}) = 0
    BY FS_EmptySet
<1>11. Cardinality(B) = Cardinality(A) + asked[f]
    <2>1. Cardinality(A \cap S) = 0
        BY <1>6, <1>10
    <2>. HIDE DEF A, B, S
    <2>. QED BY <1>1, <1>5, <1>7, <1>8, <1>9, <2>1
<1>. QED BY <1>11

\* A flow is opened awake.
LEMMA OpenKeeps ==
    ASSUME RateConstants, RateInv, NEW f \in Flows, NEW u \in Users, OpenFlow(f, u)
    PROVE  RateInv'
<1>1. /\ owner[f] = "none" /\ owner' = [owner EXCEPT ![f] = u]
      /\ UNCHANGED <<now, next_available, wake, asked, passed, lost>>
      /\ RateTypes /\ Reserved /\ ReservationsAreDisjoint /\ Accounts
    BY DEF OpenFlow, RateInv
<1>2. wake[f] = 0 /\ asked[f] = 0
    BY <1>1 DEF Reserved, Sleeping, RateConstants
<1>3. owner'[f] = u /\ \A g \in Flows \ {f} : owner'[g] = owner[g]
    BY <1>1 DEF RateTypes
<1>4. RateTypes'
    BY <1>1 DEF RateTypes
<1>5. Reserved'
    BY <1>1, <1>2, <1>3 DEF Reserved, Sleeping
<1>6. ReservationsAreDisjoint'
    BY <1>1, <1>2, <1>3 DEF ReservationsAreDisjoint, Sleeping
<1>7. Accounts'
    <2>1. Stretch(wake, asked, f) = {}
        BY <1>2 DEF Stretch
    <2>2. ASSUME NEW v \in Users, NEW T
          PROVE  Free(owner', wake', asked', v, T) = Free(owner, wake, asked, v, T)
        BY <1>1, <1>3, <2>1 DEF Free
    <2>. QED BY <1>1, <2>2 DEF Accounts
<1>. QED BY <1>4, <1>5, <1>6, <1>7 DEF RateInv

\* A reservation begins where the last one of the user ends, or now.
LEMMA ThrottleKeeps ==
    ASSUME RateConstants, RateInv, NEW f \in Flows, NEW n \in Sizes, throttle(f, n)
    PROVE  RateInv'
<1>. DEFINE u == owner[f]
            start_at == Max({next_available[u], now})
<1>1. /\ u # "none" /\ ~Sleeping(f) /\ n > 0
      /\ next_available' = [next_available EXCEPT ![u] = start_at + n]
      /\ wake' = [wake EXCEPT ![f] = start_at + n] /\ asked' = [asked EXCEPT ![f] = n]
      /\ UNCHANGED <<now, owner, passed, lost>>
      /\ RateTypes /\ Reserved /\ ReservationsAreDisjoint /\ Accounts
    BY DEF throttle, RateInv
<1>2. u \in Users /\ n \in Nat /\ wake[f] = 0 /\ asked[f] = 0
    BY <1>1 DEF RateTypes, Reserved, RateConstants, Sleeping
<1>3. start_at \in Nat /\ start_at >= next_available[u] /\ start_at >= now
    <2>1. next_available[u] \in Nat /\ now \in Nat
        BY <1>1, <1>2 DEF RateTypes
    <2>. QED BY <2>1, MaxOfTwo
<1>. HIDE DEF start_at
<1>4. /\ wake'[f] = start_at + n /\ asked'[f] = n
      /\ \A g \in Flows \ {f} : wake'[g] = wake[g] /\ asked'[g] = asked[g]
      /\ next_available'[u] = start_at + n
      /\ \A v \in Users \ {u} : next_available'[v] = next_available[v]
    BY <1>1, <1>2 DEF RateTypes
<1>5. /\ now \in Nat /\ now >= Start /\ Start \in Nat
      /\ \A v \in Users : next_available[v] \in Nat /\ next_available[v] >= Start
      /\ \A g \in Flows : wake[g] \in Nat /\ asked[g] \in Nat
    BY <1>1 DEF RateTypes, Reserved, Start
<1>6. RateTypes'
    <2>1. start_at + n \in Nat
        BY <1>2, <1>3
    <2>. QED BY <1>1, <1>2, <2>1 DEF RateTypes
<1>7. Reserved'
    <2>1. \A v \in Users : next_available'[v] >= next_available[v] /\ next_available'[v] >= Start
        BY <1>2, <1>3, <1>4, <1>5
    <2>2. Start <= wake'[f] - asked'[f] /\ wake'[f] <= next_available'[u] /\ wake'[f] # 0
        BY <1>1, <1>2, <1>3, <1>4, <1>5
    <2>3. ASSUME NEW g \in Flows \ {f}
          PROVE  IF wake'[g] # 0 THEN /\ owner'[g] \in Users /\ Start <= wake'[g] - asked'[g]
                                      /\ wake'[g] <= next_available'[owner'[g]]
                 ELSE asked'[g] = 0
        <3>1. CASE wake[g] # 0
            <4>1. /\ owner[g] \in Users /\ Start <= wake[g] - asked[g]
                  /\ wake[g] <= next_available[owner[g]]
                BY <1>1, <3>1 DEF Reserved, Sleeping
            <4>2. next_available'[owner[g]] >= next_available[owner[g]] /\ next_available'[owner[g]] \in Nat
                BY <1>6, <2>1, <4>1 DEF RateTypes
            <4>3. wake[g] <= next_available'[owner[g]]
                BY <1>5, <4>1, <4>2
            <4>. QED BY <1>1, <1>4, <3>1, <4>1, <4>3
        <3>2. CASE wake[g] = 0
            BY <1>1, <1>4, <3>2 DEF Reserved, Sleeping
        <3>. QED BY <3>1, <3>2
    <2>. QED BY <1>1, <1>2, <2>1, <2>2, <2>3 DEF Reserved, Sleeping
<1>8. ReservationsAreDisjoint'
    <2>1. ASSUME NEW g \in Flows \ {f}, wake[g] # 0, owner[g] = u
          PROVE  wake'[g] <= wake'[f] - asked'[f]
        <3>1. wake[g] <= next_available[u]
            BY <1>1, <2>1 DEF Reserved, Sleeping
        <3>. QED BY <1>2, <1>3, <1>4, <1>5, <3>1
    <2>. QED BY <1>1, <1>4, <2>1 DEF ReservationsAreDisjoint, Sleeping
<1>9. Accounts'
    <2>1. ASSUME NEW v \in Users \ {u}, NEW T
          PROVE  Free(owner', wake', asked', v, T) = Free(owner, wake, asked, v, T)
        <3>1. \A g \in Flows : owner[g] = v => Stretch(wake', asked', g) = Stretch(wake, asked, g)
            BY <1>4, <2>1 DEF Stretch
        <3>. QED BY <1>1, <3>1 DEF Free
    <2>2. ASSUME NEW T \in Nat, T <= start_at
          PROVE  Free(owner, wake, asked, u, T) \subseteq Free(owner', wake', asked', u, T)
        <3>1. \A g \in Flows \ {f} : Stretch(wake', asked', g) = Stretch(wake, asked, g)
            BY <1>4 DEF Stretch
        <3>2. \A t \in Start..(T - 1) : t \notin Stretch(wake', asked', f)
            BY <1>2, <1>3, <1>4, <1>5, <2>2 DEF Stretch
        <3>. QED BY <1>1, <3>1, <3>2 DEF Free
    <2>3. Cardinality(Free(owner, wake, asked, u, now)) <= Cardinality(Free(owner', wake', asked', u, now))
        BY <1>3, <1>5, <2>2, FreeGrows
    <2>4. Cardinality(Free(owner, wake, asked, u, next_available[u]))
            <= Cardinality(Free(owner', wake', asked', u, next_available'[u]))
        <3>1. Free(owner', wake', asked', u, next_available[u]) \subseteq
                Free(owner', wake', asked', u, next_available'[u])
            BY <1>2, <1>3, <1>4, <1>5 DEF Free
        <3>2. Free(owner, wake, asked, u, next_available[u]) \subseteq
                Free(owner', wake', asked', u, next_available'[u])
            BY <1>2, <1>3, <1>5, <2>2, <3>1
        <3>3. next_available'[u] \in Nat /\ next_available'[u] >= Start
            BY <1>2, <1>3, <1>4, <1>5
        <3>. QED BY <1>2, <1>5, <3>2, <3>3, FreeGrows
    <2>5. /\ passed'[u] <= Cardinality(Free(owner', wake', asked', u, now'))
          /\ passed'[u] + lost'[u] <= Cardinality(Free(owner', wake', asked', u, next_available'[u]))
        <3>1. /\ passed[u] \in Nat /\ lost[u] \in Nat
              /\ passed[u] <= Cardinality(Free(owner, wake, asked, u, now))
              /\ passed[u] + lost[u] <= Cardinality(Free(owner, wake, asked, u, next_available[u]))
            BY <1>1, <1>2 DEF Accounts, RateTypes
        <3>2. /\ Cardinality(Free(owner, wake, asked, u, now)) \in Nat
              /\ Cardinality(Free(owner, wake, asked, u, next_available[u])) \in Nat
            BY <1>2, <1>5, FreeFinite
        <3>3. /\ Cardinality(Free(owner', wake', asked', u, now)) \in Nat
              /\ Cardinality(Free(owner', wake', asked', u, next_available'[u])) \in Nat
            BY <1>2, <1>3, <1>4, <1>5, FreeFinite
        <3>. QED BY <1>1, <2>3, <2>4, <3>1, <3>2, <3>3
    <2>6. ASSUME NEW v \in Users \ {u}
          PROVE  /\ passed'[v] <= Cardinality(Free(owner', wake', asked', v, now'))
                 /\ passed'[v] + lost'[v] <= Cardinality(Free(owner', wake', asked', v, next_available'[v]))
        <3>1. /\ Free(owner', wake', asked', v, now) = Free(owner, wake, asked, v, now)
              /\ Free(owner', wake', asked', v, next_available[v]) = Free(owner, wake, asked, v, next_available[v])
            BY <2>1
        <3>2. passed'[v] = passed[v] /\ lost'[v] = lost[v] /\ now' = now /\ next_available'[v] = next_available[v]
            BY <1>1, <1>4
        <3>3. /\ passed[v] <= Cardinality(Free(owner, wake, asked, v, now))
              /\ passed[v] + lost[v] <= Cardinality(Free(owner, wake, asked, v, next_available[v]))
            BY <1>1 DEF Accounts
        <3>. QED BY <3>1, <3>2, <3>3
    <2>. QED BY <2>5, <2>6 DEF Accounts
<1>. QED BY <1>6, <1>7, <1>8, <1>9 DEF RateInv

\* A flow stops waiting: its stretch is free, and its bytes are passed or given up.
LEMMA RestKeeps ==
    ASSUME RateConstants, RateInv, NEW f \in Flows, owner[f] # "none",
           wake' = [wake EXCEPT ![f] = 0], asked' = [asked EXCEPT ![f] = 0],
           \/ /\ Sleeping(f) /\ now >= wake[f] /\ passed' = [passed EXCEPT ![owner[f]] = @ + asked[f]]
              /\ UNCHANGED <<owner, lost>>
           \/ /\ lost' = [lost EXCEPT ![owner[f]] = @ + asked[f]]
              /\ owner' = [owner EXCEPT ![f] = "none"] /\ UNCHANGED passed,
           UNCHANGED <<now, next_available>>
    PROVE  RateInv'
<1>. DEFINE u == owner[f]
<1>1. RateTypes /\ Reserved /\ ReservationsAreDisjoint /\ Accounts
    BY DEF RateInv
<1>2. u \in Users
    BY <1>1 DEF RateTypes
<1>3. /\ wake'[f] = 0 /\ asked'[f] = 0
      /\ \A g \in Flows \ {f} : wake'[g] = wake[g] /\ asked'[g] = asked[g] /\ owner'[g] = owner[g]
    BY <1>1 DEF RateTypes
<1>4. /\ now \in Nat /\ now >= Start /\ Start \in Nat
      /\ \A v \in Users : /\ next_available[v] \in Nat /\ next_available[v] >= Start
                          /\ passed[v] \in Nat /\ lost[v] \in Nat
      /\ wake[f] \in Nat /\ asked[f] \in Nat
    BY <1>1 DEF RateTypes, Reserved, Start
<1>5. RateTypes'
    <2>1. passed[u] + asked[f] \in Nat /\ lost[u] + asked[f] \in Nat
        BY <1>2, <1>4
    <2>. QED BY <1>1, <1>2, <2>1 DEF RateTypes
<1>6. Reserved'
    BY <1>1, <1>3 DEF Reserved, Sleeping
<1>7. ReservationsAreDisjoint'
    BY <1>1, <1>3 DEF ReservationsAreDisjoint, Sleeping
<1>8. ASSUME NEW v \in Users, NEW T \in Nat, T >= Start
      PROVE  /\ Free(owner, wake, asked, v, T) \subseteq Free(owner', wake', asked', v, T)
             /\ Cardinality(Free(owner, wake, asked, v, T)) <= Cardinality(Free(owner', wake', asked', v, T))
             /\ Cardinality(Free(owner, wake, asked, v, T)) \in Nat
             /\ Cardinality(Free(owner', wake', asked', v, T)) \in Nat
    <2>1. /\ Stretch(wake', asked', f) = {}
          /\ \A g \in Flows \ {f} : Stretch(wake', asked', g) = Stretch(wake, asked, g)
        BY <1>3 DEF Stretch
    <2>2. Free(owner, wake, asked, v, T) \subseteq Free(owner', wake', asked', v, T)
        BY <1>3, <2>1 DEF Free
    <2>. QED BY <1>8, <2>2, FreeFinite, FreeGrows
<1>9. ASSUME NEW T \in Nat, T >= Start, wake[f] <= T
      PROVE  Cardinality(Free(owner', wake', asked', u, T))
               = Cardinality(Free(owner, wake, asked, u, T)) + asked[f]
    <2>1. CASE Sleeping(f)
        <3>1. PICK ox, wx, ax : ox = owner' /\ wx = wake' /\ ax = asked'
            OBVIOUS
        <3>2. /\ ox[f] = owner[f] => wx[f] = 0 /\ ax[f] = 0
              /\ \A g \in Flows \ {f} : ox[g] = owner[g] /\ wx[g] = wake[g] /\ ax[g] = asked[g]
            BY <1>3, <3>1
        <3>3. Cardinality(Free(ox, wx, ax, owner[f], T))
                = Cardinality(Free(owner, wake, asked, owner[f], T)) + asked[f]
            BY <1>1, <1>9, <2>1, <3>2, StretchFreed
        <3>. QED BY <3>1, <3>3
    <2>2. CASE ~Sleeping(f)
        <3>1. wake[f] = 0 /\ asked[f] = 0
            BY <1>1, <2>2 DEF Reserved, Sleeping
        <3>2. \A g \in Flows \ {f} : Stretch(wake', asked', g) = Stretch(wake, asked, g)
            BY <1>3 DEF Stretch
        <3>3. Stretch(wake, asked, f) = {} /\ Stretch(wake', asked', f) = {}
            BY <1>3, <3>1 DEF Stretch
        <3>4. Free(owner', wake', asked', u, T) = Free(owner, wake, asked, u, T)
            BY <1>3, <3>2, <3>3 DEF Free
        <3>5. Cardinality(Free(owner, wake, asked, u, T)) \in Nat
            BY <1>9, FreeFinite
        <3>. QED BY <3>1, <3>4, <3>5
    <2>. QED BY <2>1, <2>2
<1>10. wake[f] <= next_available[u]
    <2>1. CASE Sleeping(f)
        BY <1>1, <2>1 DEF Reserved
    <2>2. CASE ~Sleeping(f)
        BY <1>2, <1>4, <2>2 DEF Sleeping
    <2>. QED BY <2>1, <2>2
<1>11. ASSUME NEW v \in Users
       PROVE  /\ passed'[v] <= Cardinality(Free(owner', wake', asked', v, now))
              /\ passed'[v] + lost'[v] <= Cardinality(Free(owner', wake', asked', v, next_available[v]))
    <2>1. /\ passed[v] <= Cardinality(Free(owner, wake, asked, v, now))
          /\ passed[v] + lost[v] <= Cardinality(Free(owner, wake, asked, v, next_available[v]))
        BY <1>1 DEF Accounts
    <2>2. /\ Cardinality(Free(owner, wake, asked, v, now))
               <= Cardinality(Free(owner', wake', asked', v, now))
          /\ Cardinality(Free(owner, wake, asked, v, now)) \in Nat
          /\ Cardinality(Free(owner', wake', asked', v, now)) \in Nat
        BY <1>4, <1>8
    <2>3. /\ Cardinality(Free(owner, wake, asked, v, next_available[v]))
               <= Cardinality(Free(owner', wake', asked', v, next_available[v]))
          /\ Cardinality(Free(owner, wake, asked, v, next_available[v])) \in Nat
          /\ Cardinality(Free(owner', wake', asked', v, next_available[v])) \in Nat
        BY <1>4, <1>8
    <2>4. CASE v # u
        <3>1. passed'[v] = passed[v] /\ lost'[v] = lost[v]
            BY <1>1, <1>2, <2>4 DEF RateTypes
        <3>. QED BY <1>4, <2>1, <2>2, <2>3, <3>1
    <2>5. CASE v = u
        <3>1. Cardinality(Free(owner', wake', asked', u, next_available[u]))
                = Cardinality(Free(owner, wake, asked, u, next_available[u])) + asked[f]
            BY <1>2, <1>4, <1>9, <1>10
        <3>2. CASE /\ Sleeping(f) /\ now >= wake[f] /\ UNCHANGED <<owner, lost>>
                   /\ passed' = [passed EXCEPT ![owner[f]] = @ + asked[f]]
            <4>1. passed'[u] = passed[u] + asked[f] /\ lost'[u] = lost[u]
                BY <1>1, <1>2, <3>2 DEF RateTypes
            <4>2. Cardinality(Free(owner', wake', asked', u, now))
                    = Cardinality(Free(owner, wake, asked, u, now)) + asked[f]
                BY <1>4, <1>9, <3>2
            <4>. QED BY <1>2, <1>4, <2>1, <2>2, <2>3, <2>5, <3>1, <4>1, <4>2
        <3>3. CASE /\ lost' = [lost EXCEPT ![owner[f]] = @ + asked[f]] /\ UNCHANGED passed
            <4>1. passed'[u] = passed[u] /\ lost'[u] = lost[u] + asked[f]
                BY <1>1, <1>2, <3>3 DEF RateTypes
            <4>. QED BY <1>2, <1>4, <2>1, <2>2, <2>3, <2>5, <3>1, <4>1
        <3>. QED BY <3>2, <3>3
    <2>. QED BY <2>4, <2>5
<1>12. Accounts'
    BY <1>11 DEF Accounts
<1>. QED BY <1>5, <1>6, <1>7, <1>12 DEF RateInv

\* Time only adds free ticks.
LEMMA TickKeeps ==
    ASSUME RateConstants, RateInv, Tick
    PROVE  RateInv'
<1>1. /\ now' = now + 1 /\ UNCHANGED <<owner, next_available, wake, asked, passed, lost>>
      /\ RateTypes /\ Reserved /\ ReservationsAreDisjoint /\ Accounts
      /\ now \in Nat /\ now >= Start /\ Start \in Nat
    BY DEF Tick, RateInv, RateTypes, Start
<1>2. now + 1 \in Nat /\ now + 1 >= Start
    BY <1>1
<1>3. RateTypes' /\ Reserved' /\ ReservationsAreDisjoint'
    BY <1>1, <1>2 DEF RateTypes, Reserved, ReservationsAreDisjoint, Sleeping
<1>4. ASSUME NEW u \in Users
      PROVE  passed[u] <= Cardinality(Free(owner, wake, asked, u, now + 1))
    <2>1. Free(owner, wake, asked, u, now) \subseteq Free(owner, wake, asked, u, now + 1)
        BY <1>1 DEF Free
    <2>2. /\ Cardinality(Free(owner, wake, asked, u, now)) <= Cardinality(Free(owner, wake, asked, u, now + 1))
          /\ Cardinality(Free(owner, wake, asked, u, now)) \in Nat
          /\ Cardinality(Free(owner, wake, asked, u, now + 1)) \in Nat
        BY <1>1, <1>2, <2>1, FreeFinite, FreeGrows
    <2>. QED BY <1>1, <2>2 DEF Accounts, RateTypes
<1>5. Accounts'
    BY <1>1, <1>4 DEF Accounts
<1>. QED BY <1>3, <1>5 DEF RateInv

\* Every reachable state keeps the accounts of every user.
THEOREM RateInvariance == ASSUME RateConstants PROVE Spec => []RateInv
<1>1. Init => RateInv
    <2>1. ASSUME Init PROVE RateTypes /\ Reserved /\ ReservationsAreDisjoint
        BY <2>1 DEF Init, RateTypes, Reserved, ReservationsAreDisjoint, Sleeping, Start
    <2>2. ASSUME Init, NEW u \in Users
          PROVE  /\ passed[u] = 0 /\ lost[u] = 0 /\ now = Start /\ next_available[u] = Start
                 /\ Cardinality(Free(owner, wake, asked, u, Start)) \in Nat
        BY <2>2, FreeFinite DEF Init, Start
    <2>. QED BY <2>1, <2>2 DEF RateInv, Accounts
<1>2. RateInv /\ [Next]_vars => RateInv'
    <2>1. ASSUME RateInv, NEW f \in Flows, Wakes(f)
          PROVE  RateInv'
        <3>1. owner[f] # "none"
            BY <2>1 DEF Wakes, RateInv, Reserved, RateConstants
        <3>. QED BY <2>1, <3>1, RestKeeps DEF Wakes
    <2>2. ASSUME RateInv, NEW f \in Flows, CloseFlow(f)
          PROVE  RateInv'
        BY <2>2, RestKeeps DEF CloseFlow
    <2>3. ASSUME RateInv, UNCHANGED vars
          PROVE  RateInv'
        BY <2>3 DEF vars, RateInv, RateTypes, Reserved, ReservationsAreDisjoint, Sleeping, Accounts
    <2>. QED BY <2>1, <2>2, <2>3, OpenKeeps, ThrottleKeeps, TickKeeps DEF Next
<1>. QED BY <1>1, <1>2, PTL DEF Spec

\* RateLimiter::throttle shares the rate: whatever the flows of a user ask for, in
\* whatever order they sleep, wake and are cancelled, together they pass no more bytes
\* than the time since the start pays for.
THEOREM RateShared == ASSUME RateConstants PROVE Spec => []RateIsShared
<1>1. RateInv => RateIsShared
    <2>1. ASSUME RateInv, NEW u \in Users
          PROVE  passed[u] + lost[u] <= next_available[u] - Start /\ passed[u] <= now - Start
        <3>1. /\ now \in Nat /\ now >= Start /\ next_available[u] \in Nat /\ next_available[u] >= Start
              /\ passed[u] \in Nat /\ lost[u] \in Nat /\ Start \in Nat
              /\ passed[u] <= Cardinality(Free(owner, wake, asked, u, now))
              /\ passed[u] + lost[u] <= Cardinality(Free(owner, wake, asked, u, next_available[u]))
            BY <2>1 DEF RateInv, RateTypes, Reserved, Accounts, Start
        <3>2. /\ Cardinality(Free(owner, wake, asked, u, now)) \in Nat
              /\ Cardinality(Free(owner, wake, asked, u, now)) <= now - Start
              /\ Cardinality(Free(owner, wake, asked, u, next_available[u])) \in Nat
              /\ Cardinality(Free(owner, wake, asked, u, next_available[u])) <= next_available[u] - Start
            BY <3>1, FreeFinite
        <3>. QED BY <3>1, <3>2
    <2>2. DOMAIN policies \subseteq Users
        BY DEF policies
    <2>. QED BY <2>1, <2>2 DEF RateIsShared
<1>. QED BY <1>1, RateInvariance, PTL

\* RateLimiter::throttle reserves under its lock: two flows of a user that sleep at the
\* same time wait for different stretches of time.
THEOREM ReservationsDisjoint == ASSUME RateConstants PROVE Spec => []ReservationsAreDisjoint
<1>1. RateInv => ReservationsAreDisjoint
    BY DEF RateInv
<1>. QED BY <1>1, RateInvariance, PTL
=============================================================================
