----------------------------- MODULE ReplayCache -----------------------------
(***************************************************************************)
(* One shard of the server's replay protection: ReplayCache                *)
(* (crates/maverick-core/src/replay.rs) behind the mutex of replay_shard,  *)
(* used by the request tasks of authenticate_tunnel_frame                  *)
(* (crates/maverick-server/src/server.rs).  A task reads the wall clock    *)
(* when the first frame is there and waits for the mutex afterwards, so    *)
(* checks are not made in the order of the times they use; and the wall    *)
(* clock itself may be set back.                                           *)
(*                                                                         *)
(* Hellos is the set of ClientHello messages that authenticate; the tag    *)
(* covers the replay key, the nonce and the timestamp together.            *)
(***************************************************************************)
EXTENDS Integers, FiniteSets

CONSTANTS
    Keys,                       \* replay keys that hash to this shard
    Nonces, Tasks,
    Hellos,                     \* records [key, nonce, timestamp]
    I64Min, I64Max,             \* the range of i64, scaled down
    window_secs, max_entries_per_credential, max_credentials

VARIABLES
    clock,                      \* the wall clock
    task,                       \* what each request task is doing
    credentials,                \* keys of the map ReplayCache::credentials
    keys, entries,              \* CredentialReplayState per credential
    accepted,                   \* history: the hellos accepted so far
    latest                      \* history: latest time cleanup was called with

cache == <<credentials, keys, entries>>
vars == <<clock, task, cache, accepted, latest>>

Times == I64Min..I64Max
Entries == [nonce : Nonces, timestamp : Times]
EntryOf(h) == [nonce |-> h.nonce, timestamp |-> h.timestamp]
Idle == [at |-> "idle"]
Checking(h, now) == [at |-> "checking", hello |-> h, now |-> now]
Session(h) == [at |-> "session", hello |-> h]

ASSUME ReplayAssumption ==
    /\ I64Min \in Int /\ I64Max \in Int /\ I64Min <= I64Max
    /\ window_secs \in Nat
    /\ max_entries_per_credential \in Nat /\ max_credentials \in Nat
    /\ Hellos \subseteq [key : Keys, nonce : Nonces, timestamp : Times]

TypeOK ==
    /\ clock \in Times
    /\ task \in [Tasks -> {Idle} \cup {Session(h) : h \in Hellos}
                    \cup {Checking(h, now) : h \in Hellos, now \in Times}]
    /\ credentials \in SUBSET Keys
    /\ keys \in [Keys -> SUBSET Nonces]
    /\ entries \in [Keys -> SUBSET Entries]
    /\ accepted \in SUBSET Hellos
    /\ latest \in Times

Init ==
    /\ clock \in Times
    /\ task = [t \in Tasks |-> Idle]
    /\ credentials = {}
    /\ keys = [k \in Keys |-> {}] /\ entries = [k \in Keys |-> {}]
    /\ accepted = {} /\ latest = I64Min

-----------------------------------------------------------------------------

\* A task has its ClientHello, which authenticates, and reads current_unix().
Receive(t, h) ==
    /\ task[t] = Idle
    /\ task' = [task EXCEPT ![t] = Checking(h, clock)]
    /\ UNCHANGED <<clock, cache, accepted, latest>>

\* The wall clock advances, or is set.
ClockMoves(now) ==
    /\ now # clock /\ clock' = now
    /\ UNCHANGED <<task, cache, accepted, latest>>

-----------------------------------------------------------------------------
\* check_and_insert, under the mutex

\* checked_sub and checked_add succeed and the timestamp is in the window.
InWindow(h, now) ==
    /\ now - window_secs >= I64Min /\ now + window_secs <= I64Max
    /\ h.timestamp \in now - window_secs..now + window_secs

\* cleanup: what stays of a credential, ...
Live(k, now) == {e \in entries[k] : e.timestamp >= now - window_secs}

\* Mutant: a credential whose entries are gone stays in the map.
Retained_Empty(now) == credentials

\* ... and which credentials stay.
Retained(now) == {k \in credentials : Live(k, now) # {}}

LiveKeys(k, now) == keys[k] \ {e.nonce : e \in entries[k] \ Live(k, now)}

\* The entry or_default() finds after cleanup.
StateKeys(k, now) == IF k \in Retained(now) THEN LiveKeys(k, now) ELSE {}
StateEntries(k, now) == IF k \in Retained(now) THEN Live(k, now) ELSE {}

CredentialLimit(h, now) ==
    /\ h.key \notin Retained(now)
    /\ Cardinality(Retained(now)) >= max_credentials

\* Mutant: the same nonce with the same timestamp is taken for a retry.
Duplicate_AllowsRetry(h, now) ==
    h.nonce \in StateKeys(h.key, now) /\ EntryOf(h) \notin StateEntries(h.key, now)

Duplicate(h, now) == h.nonce \in StateKeys(h.key, now)

Full(h, now) ==
    Cardinality(StateEntries(h.key, now)) >= max_entries_per_credential

\* Mutant: a nonce is put into the set but not into the queue that cleanup reads.
CacheBecomes_NotQueued(now, creds, nonces, es) ==
    /\ credentials' = Retained(now) \cup creds
    /\ keys' = [k \in Keys |->
            StateKeys(k, now) \cup (IF k \in creds THEN nonces ELSE {})]
    /\ entries' = [k \in Keys |-> StateEntries(k, now)]
    /\ latest' = IF now > latest THEN now ELSE latest

\* The cache after cleanup and then with the credentials, nonces and entries
\* that are added.
CacheBecomes(now, creds, nonces, es) ==
    /\ credentials' = Retained(now) \cup creds
    /\ keys' = [k \in Keys |->
            StateKeys(k, now) \cup (IF k \in creds THEN nonces ELSE {})]
    /\ entries' = [k \in Keys |->
            StateEntries(k, now) \cup (IF k \in creds THEN es ELSE {})]
    /\ latest' = IF now > latest THEN now ELSE latest

Finish(t, outcome) == task' = [task EXCEPT ![t] = outcome] /\ UNCHANGED clock

RejectOutside(t) ==
    /\ task[t].at = "checking"
    /\ ~InWindow(task[t].hello, task[t].now)
    /\ Finish(t, Idle) /\ UNCHANGED <<cache, accepted, latest>>

RejectCredential(t) ==
    /\ task[t].at = "checking"
    /\ LET h == task[t].hello now == task[t].now
       IN  /\ InWindow(h, now) /\ CredentialLimit(h, now)
           /\ CacheBecomes(now, {}, {}, {})
    /\ Finish(t, Idle) /\ UNCHANGED accepted

RejectEntry(t) ==
    /\ task[t].at = "checking"
    /\ LET h == task[t].hello now == task[t].now
       IN  /\ InWindow(h, now) /\ ~CredentialLimit(h, now)
           /\ Duplicate(h, now) \/ Full(h, now)
           /\ CacheBecomes(now, {h.key}, {}, {})
    /\ Finish(t, Idle) /\ UNCHANGED accepted

Insert(t) ==
    /\ task[t].at = "checking"
    /\ LET h == task[t].hello now == task[t].now
       IN  /\ InWindow(h, now) /\ ~CredentialLimit(h, now)
           /\ ~Duplicate(h, now) /\ ~Full(h, now)
           /\ CacheBecomes(now, {h.key}, {h.nonce}, {EntryOf(h)})
           /\ accepted' = accepted \cup {h}
           /\ Finish(t, Session(h))

\* The session, now authenticated, is over.
SessionEnds(t) ==
    /\ task[t].at = "session" /\ Finish(t, Idle)
    /\ UNCHANGED <<cache, accepted, latest>>

Next ==
    \/ \E now \in Times : ClockMoves(now)
    \/ \E t \in Tasks :
        \/ \E h \in Hellos : Receive(t, h)
        \/ RejectOutside(t) \/ RejectCredential(t) \/ RejectEntry(t)
        \/ Insert(t) \/ SessionEnds(t)

Spec == Init /\ [][Next]_vars

-----------------------------------------------------------------------------
\* The key set and the entry list of a credential agree, only credentials in
\* the map have any, and neither limit of the cache is ever exceeded, through
\* any number of cleanups and rejected checks.
CacheConsistent ==
    /\ \A k \in Keys :
        /\ keys[k] = {e.nonce : e \in entries[k]}
        /\ \A e, f \in entries[k] : e.nonce = f.nonce => e = f
        /\ Cardinality(entries[k]) <= max_entries_per_credential
        /\ k \notin credentials => entries[k] = {}
    /\ Cardinality(credentials) <= max_credentials

\* An accepted hello stays in the cache for as long as any check at or after
\* the latest cleanup could still find its timestamp valid.
Remembered ==
    \A h \in accepted :
        h.timestamp >= latest - window_secs => EntryOf(h) \in entries[h.key]

\* check_and_insert never accepts a hello a second time, as long as the time
\* it is called with is not before one that cleanup was already called with.
\* (A task that waited for the mutex across a second, or a clock set back, is
\* the case that is excluded: there the entry may be gone.)
NoReplay ==
    [][\A t \in Tasks :
        /\ task[t].at = "checking" /\ task'[t].at = "session"
        /\ task[t].now >= latest
        => task[t].hello \notin accepted]_vars

\* A valid, fresh hello is refused only because of entries that are themselves
\* still in their window: its own nonce, a full credential, or as many other
\* credentials as the shard may hold.  Nothing that has expired keeps a client
\* out.
RefusedByLiveEntries ==
    [][\A t \in Tasks :
        LET h == task[t].hello
            now == task[t].now
            Valid(k) == {e \in entries[k] : e.timestamp >= now - window_secs}
        IN  /\ task[t].at = "checking" /\ task'[t].at = "idle"
            /\ InWindow(h, now)
            => \/ h.nonce \in {e.nonce : e \in Valid(h.key)}
               \/ Cardinality(Valid(h.key)) >= max_entries_per_credential
               \/ Cardinality({k \in Keys : Valid(k) # {}}) >= max_credentials]_vars
=============================================================================
