-------------------------- MODULE ReplayCacheProofs --------------------------
(***************************************************************************)
(* Proofs about ReplayCache for every number of tasks, every window and    *)
(* every limit.  A step either leaves the cache and its history alone or   *)
(* is a check (CheckStep); each invariant is shown once for checks.        *)
(***************************************************************************)
EXTENDS ReplayCache, FiniteSetTheorems, TLAPS

\* The cache is made of finite sets: checks add at most one element to each.
Finite ==
    /\ IsFiniteSet(credentials)
    /\ \A k \in Keys : IsFiniteSet(entries[k])

\* What a check does to the cache: cleanup at now, then at most one credential
\* and one entry more.
CheckStep(t, h, now, es) ==
    /\ t \in Tasks /\ task[t] = Checking(h, now) /\ h \in Hellos /\ now \in Times
    /\ InWindow(h, now)
    /\ \/ es = {} /\ CredentialLimit(h, now) /\ CacheBecomes(now, {}, {}, {})
          /\ accepted' = accepted
       \/ es = {} /\ ~CredentialLimit(h, now)
          /\ CacheBecomes(now, {h.key}, {}, {}) /\ accepted' = accepted
       \/ /\ es = {EntryOf(h)} /\ ~CredentialLimit(h, now)
          /\ ~Duplicate(h, now) /\ ~Full(h, now)
          /\ CacheBecomes(now, {h.key}, {h.nonce}, {EntryOf(h)})
          /\ accepted' = accepted \cup {h}

Quiet == UNCHANGED <<cache, accepted, latest>>

\* Idle, Checking and Session records are told apart by their field at.
LEMMA TaskKinds ==
    ASSUME TypeOK, NEW t \in Tasks, task[t].at = "checking"
    PROVE  /\ task[t].hello \in Hellos /\ task[t].now \in Times
           /\ task[t] = Checking(task[t].hello, task[t].now)
<1>1. task[t] \in {Idle} \cup {Session(h) : h \in Hellos}
                    \cup {Checking(h, now) : h \in Hellos, now \in Times}
    BY DEF TypeOK
<1>2. task[t] # Idle
    BY DEF Idle
<1>3. ASSUME NEW h \in Hellos, task[t] = Session(h) PROVE FALSE
    BY <1>3 DEF Session
<1>4. PICK h \in Hellos, now \in Times : task[t] = Checking(h, now)
    BY <1>1, <1>2, <1>3
<1>. QED BY <1>4 DEF Checking

\* Every step of the specification is quiet or a check.
LEMMA StepKinds ==
    ASSUME TypeOK, [Next]_vars
    PROVE  Quiet \/ \E t \in Tasks, h \in Hellos, now \in Times, es \in {{}} \cup {{EntryOf(g)} : g \in Hellos} :
                        CheckStep(t, h, now, es)
<1>1. CASE UNCHANGED vars
    BY <1>1 DEF vars, Quiet, cache
<1>2. ASSUME NEW now \in Times, ClockMoves(now) PROVE Quiet
    BY <1>2 DEF ClockMoves, Quiet
<1>3. ASSUME NEW t \in Tasks, NEW h \in Hellos, Receive(t, h) PROVE Quiet
    BY <1>3 DEF Receive, Quiet
<1>4. ASSUME NEW t \in Tasks, RejectOutside(t) \/ SessionEnds(t) PROVE Quiet
    BY <1>4 DEF RejectOutside, SessionEnds, Quiet
<1>5. ASSUME NEW t \in Tasks, RejectCredential(t)
      PROVE  CheckStep(t, task[t].hello, task[t].now, {})
    BY <1>5, TaskKinds DEF RejectCredential, CheckStep
<1>6. ASSUME NEW t \in Tasks, RejectEntry(t)
      PROVE  CheckStep(t, task[t].hello, task[t].now, {})
    BY <1>6, TaskKinds DEF RejectEntry, CheckStep
<1>7. ASSUME NEW t \in Tasks, Insert(t)
      PROVE  CheckStep(t, task[t].hello, task[t].now, {EntryOf(task[t].hello)})
    BY <1>7, TaskKinds DEF Insert, CheckStep
<1>8. ASSUME NEW t \in Tasks,
             RejectCredential(t) \/ RejectEntry(t) \/ Insert(t)
      PROVE  task[t].hello \in Hellos /\ task[t].now \in Times
    BY <1>8, TaskKinds DEF RejectCredential, RejectEntry, Insert
<1>. QED BY <1>1, <1>2, <1>3, <1>4, <1>5, <1>6, <1>7, <1>8 DEF Next

\* The type of the variables that only the task and the clock steps change.
LEMMA TypeInit == ASSUME Init PROVE TypeOK
BY ReplayAssumption DEF Init, TypeOK, Times

\* The sets a check leaves in the cache have their types.
LEMMA CheckTypes ==
    ASSUME TypeOK, NEW t \in Tasks, NEW h \in Hellos, NEW now \in Times,
           NEW es, CheckStep(t, h, now, es)
    PROVE  /\ credentials' \in SUBSET Keys
           /\ keys' \in [Keys -> SUBSET Nonces]
           /\ entries' \in [Keys -> SUBSET Entries]
           /\ accepted' \in SUBSET Hellos /\ latest' \in Times
<1>1. h.key \in Keys /\ h.nonce \in Nonces /\ EntryOf(h) \in Entries
    BY ReplayAssumption DEF EntryOf, Entries
<1>2. Retained(now) \subseteq Keys
    BY DEF Retained, TypeOK
<1>3. \A k \in Keys : StateKeys(k, now) \subseteq Nonces
    BY DEF StateKeys, LiveKeys, TypeOK
<1>4. \A k \in Keys : StateEntries(k, now) \subseteq Entries
    BY DEF StateEntries, Live, TypeOK
<1>. QED BY <1>1, <1>2, <1>3, <1>4 DEF CheckStep, CacheBecomes, TypeOK

\* A step gives a task one of the three shapes and keeps the clock in range.
LEMMA TaskTypes ==
    ASSUME TypeOK, [Next]_vars
    PROVE  /\ clock' \in Times
           /\ task' \in [Tasks -> {Idle} \cup {Session(h) : h \in Hellos}
                    \cup {Checking(h, now) : h \in Hellos, now \in Times}]
<1>. DEFINE S == {Idle} \cup {Session(h) : h \in Hellos}
                    \cup {Checking(h, now) : h \in Hellos, now \in Times}
<1>1. task \in [Tasks -> S] /\ clock \in Times
    BY DEF TypeOK
<1>2. Idle \in S /\ \A h \in Hellos : Session(h) \in S /\ Checking(h, clock) \in S
    BY <1>1
<1>3. ASSUME NEW t \in Tasks, NEW o \in S, Finish(t, o)
      PROVE  clock' \in Times /\ task' \in [Tasks -> S]
    <2>. HIDE DEF S
    <2>. QED BY <1>1, <1>3 DEF Finish
<1>4. ASSUME NEW t \in Tasks, NEW h \in Hellos, Receive(t, h)
      PROVE  clock' \in Times /\ task' \in [Tasks -> S]
    <2>. HIDE DEF S
    <2>. QED BY <1>1, <1>2, <1>4 DEF Receive
<1>5. ASSUME NEW t \in Tasks, Insert(t)
      PROVE  clock' \in Times /\ task' \in [Tasks -> S]
    <2>1. task[t].hello \in Hellos /\ Finish(t, Session(task[t].hello))
        BY <1>5, TaskKinds DEF Insert
    <2>2. Session(task[t].hello) \in S
        BY <1>2, <2>1
    <2>. HIDE DEF S
    <2>. QED BY <1>3, <2>1, <2>2
<1>6. ASSUME NEW t \in Tasks,
             RejectOutside(t) \/ RejectCredential(t) \/ RejectEntry(t) \/ SessionEnds(t)
      PROVE  clock' \in Times /\ task' \in [Tasks -> S]
    <2>1. Finish(t, Idle)
        BY <1>6 DEF RejectOutside, RejectCredential, RejectEntry, SessionEnds
    <2>. HIDE DEF S
    <2>. QED BY <1>2, <1>3, <2>1
<1>7. ASSUME NEW now \in Times, ClockMoves(now)
      PROVE  clock' \in Times /\ task' \in [Tasks -> S]
    <2>. HIDE DEF S
    <2>. QED BY <1>1, <1>7 DEF ClockMoves
<1>8. ASSUME UNCHANGED vars PROVE clock' \in Times /\ task' \in [Tasks -> S]
    <2>. HIDE DEF S
    <2>. QED BY <1>1, <1>8 DEF vars
<1>. HIDE DEF S
<1>9. clock' \in Times /\ task' \in [Tasks -> S]
    BY <1>4, <1>5, <1>6, <1>7, <1>8 DEF Next
<1>. QED BY <1>9 DEF S

\* Every step of a check and of the clock keeps the types.
LEMMA TypeStep == ASSUME TypeOK, [Next]_vars PROVE TypeOK'
<1>1. /\ credentials' \in SUBSET Keys
      /\ keys' \in [Keys -> SUBSET Nonces]
      /\ entries' \in [Keys -> SUBSET Entries]
      /\ accepted' \in SUBSET Hellos /\ latest' \in Times
    <2>1. CASE Quiet
        BY <2>1 DEF Quiet, cache, TypeOK
    <2>. QED BY <2>1, StepKinds, CheckTypes
<1>. QED BY <1>1, TaskTypes DEF TypeOK

-----------------------------------------------------------------------------
\* cleanup leaves a part of every credential, and its nonces are those of the
\* entries that stay: no removed entry shares its nonce with one that stays.
LEMMA AfterCleanup ==
    ASSUME TypeOK, CacheConsistent, NEW now \in Times, NEW k \in Keys
    PROVE  /\ StateEntries(k, now) = Live(k, now)
           /\ StateEntries(k, now) \subseteq entries[k]
           /\ StateKeys(k, now) = {e.nonce : e \in StateEntries(k, now)}
<1>1. StateEntries(k, now) = Live(k, now)
    BY DEF StateEntries, Retained, Live, CacheConsistent
<1>2. StateEntries(k, now) \subseteq entries[k]
    BY <1>1 DEF Live
<1>3. CASE k \in Retained(now)
    BY <1>1, <1>2, <1>3 DEF StateKeys, LiveKeys, CacheConsistent
<1>4. CASE k \notin Retained(now)
    BY <1>1, <1>2, <1>4 DEF StateKeys, StateEntries
<1>. QED BY <1>1, <1>2, <1>3, <1>4

\* The cache after a check, entry by entry.
LEMMA AfterCheck ==
    ASSUME TypeOK, CacheConsistent, NEW t \in Tasks, NEW h \in Hellos,
           NEW now \in Times, NEW es, CheckStep(t, h, now, es)
    PROVE  /\ h.key \in Keys
           /\ \A k \in Keys \ {h.key} : entries'[k] = StateEntries(k, now)
           /\ entries'[h.key] = StateEntries(h.key, now) \cup es
           /\ \A k \in Keys \ {h.key} : keys'[k] = StateKeys(k, now)
           /\ keys'[h.key] = StateKeys(h.key, now) \cup {e.nonce : e \in es}
           /\ \/ credentials' = Retained(now)
              \/ /\ credentials' = Retained(now) \cup {h.key}
                 /\ ~CredentialLimit(h, now)
           /\ es # {} => h.key \in credentials'
           /\ latest' >= latest /\ latest' >= now
<1>1. h.key \in Keys
    BY ReplayAssumption
<1>2. EntryOf(h).nonce = h.nonce
    BY DEF EntryOf
<1>3. latest' >= latest /\ latest' >= now
    BY ReplayAssumption DEF CheckStep, CacheBecomes, TypeOK, Times
<1>4. CASE es = {} /\ CacheBecomes(now, {}, {}, {})
    <2>1. {e.nonce : e \in es} = {} /\ Retained(now) \cup {} = Retained(now)
        BY <1>4
    <2>. QED BY <1>1, <1>3, <1>4, <2>1 DEF CacheBecomes
<1>5. CASE es = {} /\ ~CredentialLimit(h, now) /\ CacheBecomes(now, {h.key}, {}, {})
    <2>1. {e.nonce : e \in es} = {}
        BY <1>5
    <2>. QED BY <1>1, <1>3, <1>5, <2>1 DEF CacheBecomes
<1>6. CASE /\ es = {EntryOf(h)} /\ ~CredentialLimit(h, now)
           /\ CacheBecomes(now, {h.key}, {h.nonce}, {EntryOf(h)})
    <2>1. {e.nonce : e \in es} = {h.nonce}
        BY <1>2, <1>6
    <2>. QED BY <1>1, <1>3, <1>6, <2>1 DEF CacheBecomes
<1>. QED BY <1>4, <1>5, <1>6 DEF CheckStep

\* A check that adds an entry has found neither its nonce nor a full credential.
LEMMA CheckAdds ==
    ASSUME NEW t, NEW h, NEW now, NEW es, CheckStep(t, h, now, es)
    PROVE  \/ es = {} /\ accepted' = accepted
           \/ /\ es = {EntryOf(h)} /\ accepted' = accepted \cup {h}
              /\ ~Duplicate(h, now) /\ ~Full(h, now)
BY DEF CheckStep

\* Every step keeps the nonce set and the entry queue of each credential in agreement.
LEMMA ConsistentStep ==
    ASSUME TypeOK, CacheConsistent, Finite, NEW t \in Tasks, NEW h \in Hellos,
           NEW now \in Times, NEW es, CheckStep(t, h, now, es)
    PROVE  CacheConsistent' /\ Finite'
<1>1. h.key \in Keys
    BY AfterCheck
<1>2. ASSUME NEW k \in Keys
      PROVE  /\ keys'[k] = {e.nonce : e \in entries'[k]}
             /\ \A e, f \in entries'[k] : e.nonce = f.nonce => e = f
    <2>1. CASE k # h.key
        <3>1. entries'[k] = StateEntries(k, now) /\ keys'[k] = StateKeys(k, now)
            BY <2>1, AfterCheck
        <3>2. /\ StateEntries(k, now) \subseteq entries[k]
              /\ StateKeys(k, now) = {e.nonce : e \in StateEntries(k, now)}
            BY AfterCleanup
        <3>. QED BY <3>1, <3>2 DEF CacheConsistent
    <2>2. CASE k = h.key
        <3>1. keys'[k] = {e.nonce : e \in entries'[k]}
            BY <2>2, AfterCheck, AfterCleanup
        <3>2. \A e \in es : e.nonce = h.nonce
            BY CheckAdds DEF EntryOf
        <3>3. \A e \in es, f \in StateEntries(k, now) : e.nonce # f.nonce
            BY <2>2, <3>2, CheckAdds, AfterCleanup DEF Duplicate
        <3>4. \A e, f \in es : e = f
            BY CheckAdds
        <3>5. \A e, f \in StateEntries(k, now) : e.nonce = f.nonce => e = f
            BY AfterCleanup DEF CacheConsistent
        <3>6. entries'[k] = StateEntries(k, now) \cup es
            BY <2>2, AfterCheck
        <3>. QED BY <3>1, <3>3, <3>4, <3>5, <3>6
    <2>. QED BY <2>1, <2>2
<1>3. ASSUME NEW k \in Keys
      PROVE  /\ IsFiniteSet(entries'[k])
             /\ Cardinality(entries'[k]) <= max_entries_per_credential
    <2>1. /\ IsFiniteSet(StateEntries(k, now))
          /\ Cardinality(StateEntries(k, now)) <= Cardinality(entries[k])
          /\ Cardinality(StateEntries(k, now)) \in Nat
          /\ Cardinality(entries[k]) \in Nat
        BY AfterCleanup, FS_Subset, FS_CardinalityType DEF Finite
    <2>2. Cardinality(StateEntries(k, now)) <= max_entries_per_credential
        BY <2>1, ReplayAssumption DEF CacheConsistent
    <2>3. CASE k # h.key \/ es = {}
        <3>1. entries'[k] = StateEntries(k, now)
            <4>1. CASE k # h.key
                BY <4>1, AfterCheck
            <4>2. CASE k = h.key /\ es = {}
                <5>1. entries'[h.key] = StateEntries(h.key, now) \cup es
                    BY AfterCheck
                <5>. QED BY <4>2, <5>1
            <4>. QED BY <2>3, <4>1, <4>2
        <3>. QED BY <2>1, <2>2, <3>1
    <2>4. CASE k = h.key /\ es # {}
        <3>1. entries'[k] = StateEntries(k, now) \cup {EntryOf(h)} /\ ~Full(h, now)
            BY <2>4, AfterCheck, CheckAdds
        <3>2. Cardinality(StateEntries(k, now)) < max_entries_per_credential
            BY <2>1, <2>4, <3>1, ReplayAssumption DEF Full
        <3>3. /\ IsFiniteSet(entries'[k])
              /\ Cardinality(entries'[k]) = Cardinality(StateEntries(k, now))
                 \/ Cardinality(entries'[k]) = Cardinality(StateEntries(k, now)) + 1
            BY SMTT(60), <2>1, <3>1, FS_AddElement
        <3>. QED BY <2>1, <3>2, <3>3, ReplayAssumption
    <2>. QED BY <2>3, <2>4
<1>4. ASSUME NEW k \in Keys, k \notin credentials' PROVE entries'[k] = {}
    <2>1. k \notin Retained(now) /\ (k = h.key => es = {})
        BY <1>4, AfterCheck
    <2>2. StateEntries(k, now) = {}
        BY <2>1 DEF StateEntries
    <2>. QED BY SMTT(60), <2>1, <2>2, AfterCheck
<1>5. IsFiniteSet(credentials') /\ Cardinality(credentials') <= max_credentials
    <2>1. /\ IsFiniteSet(Retained(now)) /\ Cardinality(Retained(now)) \in Nat
          /\ Cardinality(credentials) \in Nat
          /\ Cardinality(Retained(now)) <= Cardinality(credentials)
        <3>1. Retained(now) \subseteq credentials
            BY DEF Retained
        <3>. QED BY <3>1, FS_Subset, FS_CardinalityType DEF Finite
    <2>2. Cardinality(Retained(now)) <= max_credentials
        BY <2>1, ReplayAssumption DEF CacheConsistent
    <2>3. CASE credentials' = Retained(now) \/ h.key \in Retained(now)
        <3>1. h.key \in Retained(now) => Retained(now) \cup {h.key} = Retained(now)
            OBVIOUS
        <3>2. credentials' = Retained(now)
            BY <2>3, <3>1, AfterCheck
        <3>. QED BY <2>1, <2>2, <3>2
    <2>4. CASE /\ credentials' = Retained(now) \cup {h.key}
               /\ h.key \notin Retained(now) /\ ~CredentialLimit(h, now)
        <3>1. Cardinality(Retained(now)) < max_credentials
            BY <2>1, <2>4, ReplayAssumption DEF CredentialLimit
        <3>2. /\ IsFiniteSet(credentials')
              /\ Cardinality(credentials') = Cardinality(Retained(now)) + 1
            BY <2>1, <2>4, FS_AddElement
        <3>. QED BY <2>1, <3>1, <3>2, ReplayAssumption
    <2>. QED BY <2>3, <2>4, AfterCheck
<1>. QED BY <1>2, <1>3, <1>4, <1>5 DEF CacheConsistent, Finite

\* A check drops no entry that a later check could still need, and remembers
\* what it accepts.
LEMMA RememberedStep ==
    ASSUME TypeOK, CacheConsistent, Remembered, NEW t \in Tasks,
           NEW h \in Hellos, NEW now \in Times, NEW es,
           CheckStep(t, h, now, es)
    PROVE  Remembered'
<1>1. SUFFICES ASSUME NEW g \in accepted', g.timestamp >= latest' - window_secs
               PROVE  EntryOf(g) \in entries'[g.key]
    BY DEF Remembered
<1>2. accepted' \subseteq Hellos /\ latest' \in Times
    BY CheckTypes
<1>3. g \in Hellos /\ g.key \in Keys /\ g.timestamp \in Int
    BY <1>1, <1>2, ReplayAssumption DEF Times
<1>4. CASE g \in accepted
    <2>1. g.timestamp >= latest - window_secs /\ g.timestamp >= now - window_secs
        <3>1. latest' >= latest /\ latest' >= now
            BY AfterCheck
        <3>2. latest \in Int /\ latest' \in Int /\ now \in Int /\ window_secs \in Int
            BY <1>2, ReplayAssumption DEF TypeOK, Times
        <3>. QED BY <1>1, <1>3, <3>1, <3>2
    <2>2. EntryOf(g) \in entries[g.key]
        BY <1>4, <2>1 DEF Remembered
    <2>3. EntryOf(g) \in StateEntries(g.key, now)
        BY <1>3, <2>1, <2>2, AfterCleanup DEF Live, EntryOf
    <2>. QED BY <1>3, <2>3, AfterCheck
<1>5. CASE g \notin accepted
    BY <1>1, <1>5, CheckAdds, AfterCheck
<1>. QED BY <1>4, <1>5

-----------------------------------------------------------------------------
\* The inductive invariant: the entries of an accepted hello can be relied on
\* only with keys and entries in agreement.
IInv == TypeOK /\ CacheConsistent /\ Finite /\ Remembered

\* IInv holds in every reachable state of the cache.
LEMMA Inductive == Spec => []IInv
<1>1. ASSUME Init PROVE IInv
    <2>1. TypeOK /\ Remembered
        BY <1>1, TypeInit DEF Init, Remembered
    <2>2. IsFiniteSet({}) /\ Cardinality({}) = 0
        BY FS_EmptySet
    <2>3. credentials = {} /\ \A k \in Keys : keys[k] = {} /\ entries[k] = {}
        BY <1>1 DEF Init
    <2>4. Finite
        BY <2>2, <2>3 DEF Finite
    <2>5. Cardinality(credentials) <= max_credentials
        BY <2>2, <2>3, ReplayAssumption
    <2>6. ASSUME NEW k \in Keys
          PROVE  /\ keys[k] = {e.nonce : e \in entries[k]}
                 /\ Cardinality(entries[k]) <= max_entries_per_credential
                 /\ entries[k] = {}
        <3>1. keys[k] = {} /\ entries[k] = {}
            BY <2>3
        <3>2. {e.nonce : e \in entries[k]} = {}
            BY <3>1
        <3>. QED BY <2>2, <3>1, <3>2, ReplayAssumption
    <2>. QED BY <2>1, <2>4, <2>5, <2>6 DEF IInv, CacheConsistent
<1>2. ASSUME IInv, [Next]_vars PROVE IInv'
    <2>1. TypeOK'
        BY <1>2, TypeStep DEF IInv
    <2>2. CASE Quiet
        BY <1>2, <2>1, <2>2
        DEF Quiet, cache, IInv, CacheConsistent, Finite, Remembered
    <2>. QED BY <1>2, <2>1, <2>2, StepKinds, ConsistentStep, RememberedStep DEF IInv
<1>. QED BY <1>1, <1>2, PTL DEF Spec

\* The variables of the replay cache keep their types.
THEOREM TypeCorrect == Spec => []TypeOK
BY Inductive, PTL DEF IInv

\* Keys and entries of every credential agree and the limits of ReplayCache
\* are never exceeded, whatever the limits, the window and the clock are.
THEOREM CacheIsConsistent == Spec => []CacheConsistent
BY Inductive, PTL DEF IInv

\* What was accepted is remembered while it could be valid (cleanup's cutoff
\* is never too late).
THEOREM AcceptedIsRemembered == Spec => []Remembered
BY Inductive, PTL DEF IInv

\* check_and_insert accepts no hello twice at a time that is not behind.
THEOREM NothingReplayed == Spec => NoReplay
<1>. DEFINE A == \A t \in Tasks :
                /\ task[t].at = "checking" /\ task'[t].at = "session"
                /\ task[t].now >= latest
                => task[t].hello \notin accepted
<1>1. ASSUME IInv, [Next]_vars PROVE [A]_vars
    <2>1. SUFFICES ASSUME Next, NEW t \in Tasks, task[t].at = "checking",
                          task'[t].at = "session", task[t].now >= latest,
                          task[t].hello \in accepted
                   PROVE  FALSE
        BY <1>1
    <2>2. task \in [Tasks -> {Idle} \cup {Session(h) : h \in Hellos}
                    \cup {Checking(h, now) : h \in Hellos, now \in Times}]
        BY <1>1 DEF IInv, TypeOK
    <2>3. task[t] # task'[t] /\ task[t] # Idle /\ task'[t] # Idle
        BY <2>1 DEF Idle
    <2>4. ASSUME NEW s \in Tasks, NEW o, Finish(s, o) PROVE s = t /\ task'[t] = o
        BY <2>2, <2>3, <2>4 DEF Finish
    <2>5. Insert(t)
        <3>1. ASSUME NEW now \in Times, ClockMoves(now) PROVE FALSE
            BY <2>3, <3>1 DEF ClockMoves
        <3>2. ASSUME NEW s \in Tasks, NEW h \in Hellos, Receive(s, h) PROVE FALSE
            BY <2>2, <2>3, <3>2 DEF Receive
        <3>3. ASSUME NEW s \in Tasks,
                     \/ RejectOutside(s) \/ RejectCredential(s)
                     \/ RejectEntry(s) \/ SessionEnds(s)
              PROVE  FALSE
            BY <2>3, <2>4, <3>3
            DEF RejectOutside, RejectCredential, RejectEntry, SessionEnds
        <3>4. ASSUME NEW s \in Tasks, Insert(s) PROVE s = t
            BY <2>4, <3>4 DEF Insert
        <3>. QED BY <2>1, <3>1, <3>2, <3>3, <3>4 DEF Next
    <2>. DEFINE h == task[t].hello now == task[t].now
    <2>6. h \in Hellos /\ now \in Times
        BY <1>1, <2>1, TaskKinds DEF IInv
    <2>. HIDE DEF h, now
    <2>7. InWindow(h, now) /\ ~Duplicate(h, now) /\ now >= latest /\ h \in accepted
        BY <2>1, <2>5 DEF Insert, h, now
    <2>8. h.key \in Keys /\ h.timestamp \in Int
        BY <2>6, ReplayAssumption DEF Times
    <2>9. h.timestamp >= now - window_secs /\ h.timestamp >= latest - window_secs
        BY <1>1, <2>6, <2>7, <2>8, ReplayAssumption DEF InWindow, Times, IInv, TypeOK
    <2>10. EntryOf(h) \in Live(h.key, now)
        BY <1>1, <2>7, <2>9 DEF IInv, Remembered, Live, EntryOf
    <2>11. EntryOf(h).nonce \in StateKeys(h.key, now)
        BY <1>1, <2>6, <2>8, <2>10, AfterCleanup DEF IInv
    <2>. QED BY <2>7, <2>11 DEF Duplicate, EntryOf
<1>. QED BY <1>1, Inductive, PTL DEF Spec, NoReplay

\* check_and_insert turns a hello in its window away only for entries that are in
\* theirs: expired entries never fill a credential or the map.
THEOREM RefusalsAreFair == Spec => RefusedByLiveEntries
<1>. DEFINE Valid(k, now) == {e \in entries[k] : e.timestamp >= now - window_secs}
            Fair(h, now) == \/ h.nonce \in {e.nonce : e \in Valid(h.key, now)}
                            \/ Cardinality(Valid(h.key, now)) >= max_entries_per_credential
                            \/ Cardinality({k \in Keys : Valid(k, now) # {}}) >= max_credentials
            A == \A t \in Tasks :
                    /\ task[t].at = "checking" /\ task'[t].at = "idle"
                    /\ InWindow(task[t].hello, task[t].now)
                    => Fair(task[t].hello, task[t].now)
<1>1. ASSUME IInv, [Next]_vars PROVE [A]_vars
    <2>1. SUFFICES ASSUME Next, NEW t \in Tasks, task[t].at = "checking",
                          task'[t].at = "idle", InWindow(task[t].hello, task[t].now)
                   PROVE  Fair(task[t].hello, task[t].now)
        BY <1>1
    <2>2. task \in [Tasks -> {Idle} \cup {Session(h) : h \in Hellos}
                    \cup {Checking(h, now) : h \in Hellos, now \in Times}]
        BY <1>1 DEF IInv, TypeOK
    <2>3. task[t] # task'[t] /\ task[t] # Idle
        BY <2>1 DEF Idle
    <2>4. ASSUME NEW s \in Tasks, NEW o, Finish(s, o) PROVE s = t /\ task'[t] = o
        BY <2>2, <2>3, <2>4 DEF Finish
    <2>5. RejectCredential(t) \/ RejectEntry(t)
        <3>1. ASSUME NEW now \in Times, ClockMoves(now) PROVE FALSE
            BY <2>3, <3>1 DEF ClockMoves
        <3>2. ASSUME NEW s \in Tasks, NEW h \in Hellos, Receive(s, h) PROVE FALSE
            BY <2>2, <2>3, <3>2 DEF Receive
        <3>3. ASSUME NEW s \in Tasks, RejectOutside(s) \/ SessionEnds(s) PROVE FALSE
            BY <2>1, <2>4, <3>3 DEF RejectOutside, SessionEnds
        <3>4. ASSUME NEW s \in Tasks, Insert(s) PROVE FALSE
            <4>1. s = t /\ task'[t] = Session(task[s].hello)
                BY <2>4, <3>4 DEF Insert
            <4>. QED BY <2>1, <4>1 DEF Session
        <3>5. ASSUME NEW s \in Tasks, RejectCredential(s) \/ RejectEntry(s) PROVE s = t
            BY <2>4, <3>5 DEF RejectCredential, RejectEntry
        <3>. QED BY <2>1, <3>1, <3>2, <3>3, <3>4, <3>5 DEF Next
    <2>. DEFINE h == task[t].hello now == task[t].now
    <2>6. h \in Hellos /\ now \in Times
        BY <1>1, <2>1, TaskKinds DEF IInv
    <2>7. h.key \in Keys
        BY <2>6, ReplayAssumption
    <2>8. CredentialLimit(h, now) \/ Duplicate(h, now) \/ Full(h, now)
        BY <2>5 DEF RejectCredential, RejectEntry
    <2>. HIDE DEF h, now
    <2>9. \A k \in Keys : Valid(k, now) = Live(k, now)
        BY DEF Live
    <2>10. CASE CredentialLimit(h, now)
        <3>1. {k \in Keys : Valid(k, now) # {}} = Retained(now)
            BY <1>1, <2>9 DEF IInv, TypeOK, CacheConsistent, Retained, Live
        <3>. QED BY <2>10, <3>1 DEF CredentialLimit, h, now
    <2>11. CASE Duplicate(h, now)
        <3>1. StateKeys(h.key, now) = {e.nonce : e \in Valid(h.key, now)}
            BY <1>1, <2>6, <2>7, <2>9, AfterCleanup DEF IInv
        <3>. QED BY <2>11, <3>1 DEF Duplicate, h, now
    <2>12. CASE Full(h, now)
        <3>1. StateEntries(h.key, now) = Valid(h.key, now)
            BY <1>1, <2>6, <2>7, <2>9, AfterCleanup DEF IInv
        <3>. QED BY <2>12, <3>1 DEF Full, h, now
    <2>. QED BY <2>8, <2>10, <2>11, <2>12
<1>. QED BY <1>1, Inductive, PTL DEF Spec, RefusedByLiveEntries
=============================================================================
