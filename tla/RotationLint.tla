---------------------------- MODULE RotationLint ----------------------------
(***************************************************************************)
(* A credential rotation as an operator runs it: rotate-credential's       *)
(* report (rotation_lint_report, maverick-cli/src/main.rs), the server's   *)
(* credential lookup (maverick-server/src/users.rs) and the client's       *)
(* choice of credential (config.rs), against one clock.                    *)
(*                                                                         *)
(* The clock counts ticks, TicksPerSecond of them to a second: the report  *)
(* compares full timestamps, the lookup and the client whole seconds.      *)
(***************************************************************************)
EXTENDS ConfigPolicy

CONSTANTS TicksPerSecond, MaxTime, Timestamps   \* the instants a document may name, in ticks

VARIABLES now,      \* in ticks
          user,     \* the rotated user of the server document
          client    \* that user's client document

vars == <<now, user, client>>

unix_timestamp(t) == t \div TicksPerSecond

\* Mutant: a credential expires one tick after its not_after.
previous_state_Late(p, at) ==
    IF at < p.not_before THEN "pending" ELSE IF at > p.not_after THEN "expired" ELSE "active_overlap"

\* The state rotation_lint_report prints for a previous credential and for the
\* next one, and whether the report counts a warning.
previous_state(p, at) ==
    IF at < p.not_before THEN "pending" ELSE IF at >= p.not_after THEN "expired" ELSE "active_overlap"

\* Mutant: a next credential is ready only after its not_before.
next_state_Late(next, at) == IF at > next.not_before THEN "ready_for_promotion" ELSE "scheduled"

next_state(next, at) == IF at >= next.not_before THEN "ready_for_promotion" ELSE "scheduled"

lint_warnings(u, at) ==
    {w \in {"expired", "ready", "disabled"} :
        \/ w = "expired" /\ \E i \in DOMAIN u.previous : previous_state(u.previous[i], at) = "expired"
        \/ w = "ready" /\ u.next # NoNext /\ next_state(u.next, at) = "ready_for_promotion"
        \/ w = "disabled" /\ ~u.enabled /\ (u.previous # << >> \/ u.next # NoNext)}

\* PreviousCredential::from_config and is_valid_at.
is_valid_at(p, at) ==
    /\ unix_timestamp(p.not_before) <= unix_timestamp(at)
    /\ unix_timestamp(at) < unix_timestamp(p.not_after)

\* lookup_credential: the secret the server checks a hello of this id against.
lookup_credential(u, id, at) ==
    IF u.id = id THEN IF u.enabled THEN {u.secret} ELSE {}
    ELSE {u.previous[i].secret : i \in {i \in DOMAIN u.previous :
              u.previous[i].id = id /\ u.enabled /\ is_valid_at(u.previous[i], at)}}

\* What the client signs with, and whether the server takes it.
Selected(c, at) ==
    select_client_credential([c EXCEPT !.next.not_before = IF c.next = NoNext THEN 0 ELSE unix_timestamp(@)],
                             unix_timestamp(at))
Accepted(u, c, at) == Selected(c, at).secret \in lookup_credential(u, Selected(c, at).id, at)

Init ==
    /\ now = 0
    /\ user = UserDefault
    /\ client = ClientDefault

Tick == now < MaxTime /\ now' = now + 1 /\ UNCHANGED <<user, client>>

(***************************************************************************)
(* The operator's steps (docs/archive/legacy/CREDENTIAL_ROTATION.md).      *)
(* A server document is deployed only when it validates.                   *)
(***************************************************************************)
\* Mutant: a document is deployed without check-config.
Deploy_Unchecked(u) == user' = u /\ UNCHANGED <<now, client>>

Deploy(u) == user' = u /\ user_validate(u, FALSE) /\ UNCHANGED <<now, client>>

\* The new credential is added as next.
Schedule ==
    /\ user.next = NoNext /\ user.id = "a"
    /\ \E t \in Timestamps : t > now /\ Deploy([user EXCEPT !.next = [id |-> "b", secret |-> "s0", not_before |-> t]])

\* The client is given the new credential and the same not_before ...
Preload ==
    /\ user.next # NoNext /\ client.next = NoNext
    /\ client' = [client EXCEPT !.next = [id |-> "b", secret |-> "s2", not_before |-> user.next.not_before],
                                !.auto_switch = TRUE]
    /\ client_validate(client')
    /\ UNCHANGED <<now, user>>

\* ... or, once the server has it, the new credential alone.
Update ==
    /\ user.id = "b" /\ client.credential_id = "a"
    /\ client' = [client EXCEPT !.credential_id = "b", !.secret = "s2", !.next = NoNext, !.auto_switch = FALSE]
    /\ UNCHANGED <<now, user>>

\* The report says ready: next becomes active, the old credential previous, for
\* a window that has begun unless the client no longer needs it.
Promote ==
    /\ user.next # NoNext /\ next_state(user.next, now) = "ready_for_promotion"
    /\ \E from, to \in Timestamps :
           /\ from <= now \/ Selected(client, now).id = "b"
           /\ Deploy([user EXCEPT !.id = "b", !.secret = "s2", !.next = NoNext,
                                  !.previous = <<[id |-> "a", secret |-> "s1",
                                                  not_before |-> from, not_after |-> to]>>])

\* The report says expired, and the client is on the new credential.
Retire ==
    /\ \E i \in DOMAIN user.previous : previous_state(user.previous[i], now) = "expired"
    /\ Selected(client, now).id = "b"
    /\ Deploy([user EXCEPT !.previous = << >>])

Disable == user.enabled /\ Deploy([user EXCEPT !.enabled = FALSE])

Next == Tick \/ Schedule \/ Preload \/ Update \/ Promote \/ Retire \/ Disable

Spec == Init /\ [][Next]_vars

\* The documents the operator deploys are valid, and the clock is in range.
TypeOK == /\ now \in 0 .. MaxTime
          /\ user_validate(user, FALSE) /\ client_validate(client)

\* An instant that names a fraction of the second the clock is in: who compares
\* whole seconds takes it for the beginning of that second.
Rounded(t) == unix_timestamp(t) = unix_timestamp(now) /\ t % TicksPerSecond # 0

\* rotate-credential reports a previous credential of an enabled user as
\* active_overlap exactly while lookup_credential accepts it, when the window's
\* ends are whole seconds.  A fraction is cut off by lookup_credential only: it
\* accepts the credential in the second in which a window is about to open, and
\* refuses it in the second in which it is about to close, and disagrees with
\* the report at no other time.
LintMatchesGate ==
    user.enabled => \A i \in DOMAIN user.previous :
        LET p == user.previous[i]
            reported == previous_state(p, now)
            accepted == lookup_credential(user, p.id, now) # {}
        IN  /\ accepted => reported = "active_overlap" \/ (reported = "pending" /\ Rounded(p.not_before))
            /\ reported = "active_overlap" => accepted \/ Rounded(p.not_after)

\* The instants at which the report, the server or the client changes its mind.
Edges(u, c) ==
    UNION {{u.previous[i].not_before, u.previous[i].not_after} : i \in DOMAIN u.previous}
        \cup {n.not_before : n \in {u.next, c.next} \ {NoNext}}

\* While rotate-credential reports no warning, the server accepts what the
\* client of an enabled user signs with, except in a second within which one of
\* the documents names an instant: a rotation that locks a client out for longer
\* than that shows in the report first.
QuietLintServesClient ==
    (user.enabled /\ lint_warnings(user, now) = {}) =>
        Accepted(user, client, now) \/ \E t \in Edges(user, client) : Rounded(t)

=============================================================================
