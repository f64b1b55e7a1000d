--------------------------- MODULE ReferenceClient ---------------------------
(***************************************************************************)
(* ReferenceClientController (crates/maverick-sdk/src/reference_client.rs):*)
(* the client of a platform helper that changes the system's network       *)
(* settings and keeps a journal to undo them, and of a packet runtime.     *)
(*                                                                         *)
(* Every await of the controller may be dropped by its caller, after which *)
(* the next operation starts from whatever state was left.  The helper is  *)
(* another process: it serves requests in order, requests and responses    *)
(* may be lost, and an answer nobody waited for is still in the pipe when  *)
(* the next request is made.                                               *)
(***************************************************************************)
EXTENDS Integers, Sequences

CONSTANT MaxNumber              \* u64::MAX, scaled down

ASSUME NumberAssumption == MaxNumber \in Nat \ {0}

VARIABLES
    state, recovery, last_error_class, next_request_number,
    op, at,                     \* the operation called, the await it is at
    stop_failed,                \* runtime_stop_failed
    runtime,                    \* the packet runtime
    journal,                    \* the helper's: settings are or may be changed
    requests, responses         \* the pipe to and from the helper

controller == <<state, recovery, last_error_class, next_request_number, op, at,
                stop_failed>>
vars == <<controller, runtime, journal, requests, responses>>

States == {"disconnected", "connecting", "connected", "disconnecting",
           "cleanup_required", "recovering"}
Statuses == {"clean", "cleanup_required", "recovering"}
ErrorClasses == {"none", "preflight", "apply", "runtime_start", "runtime_health",
                 "runtime_stop", "rollback", "protocol"}
Operations == {"preflight", "apply", "rollback"}
Expected == [preflight |-> "ready", apply |-> "applied", rollback |-> "rolled_back"]

\* "malformed": fails validate(); "garbled": its recovery snapshot does too.
Responses == [id : 1..MaxNumber, form : {"valid", "malformed", "garbled"},
              outcome : {"ready", "applied", "rolled_back", "cleanup_required",
                         "recovering", "rejected"},
              recovery : Statuses]

TypeOK ==
    /\ state \in States /\ recovery \in Statuses
    /\ last_error_class \in ErrorClasses
    /\ next_request_number \in 1..MaxNumber
    /\ op \in {"none", "connect", "disconnect", "check_health", "recover"}
    /\ at \in Operations \cup {"idle", "start", "stop"}
    /\ stop_failed \in BOOLEAN /\ journal \in BOOLEAN
    /\ runtime \in {"stopped", "running", "failed"}
    /\ requests \in Seq([id : 1..MaxNumber, operation : Operations])
    /\ responses \in Seq(Responses)

\* PlatformRecoverySnapshot::from_helper_state, state_from_recovery
Snapshots(present) ==
    IF present THEN {"cleanup_required", "recovering"} ELSE {"clean"}
state_from_recovery(status) ==
    IF status = "clean" THEN "disconnected" ELSE status

\* ReferenceClientController::new, with the helper's snapshot.
New(present) ==
    /\ recovery \in Snapshots(present)
    /\ state = state_from_recovery(recovery)
    /\ last_error_class = "none" /\ next_request_number = 1
    /\ op = "none" /\ at = "idle" /\ stop_failed = FALSE

Init ==
    /\ journal \in BOOLEAN /\ New(journal)
    /\ runtime = "stopped" /\ requests = <<>> /\ responses = <<>>

-----------------------------------------------------------------------------
\* The parts of the operations

Return == op' = "none" /\ at' = "idle" /\ stop_failed' = FALSE

\* next_request: the counter's last value is never used.
\* Mutant: the counter is not checked.
CanRequest_Unchecked == TRUE

CanRequest == next_request_number < MaxNumber

Request(operation) ==
    /\ CanRequest
    /\ requests' = Append(requests, [id |-> next_request_number,
                                     operation |-> operation])
    /\ next_request_number' = next_request_number + 1
    /\ at' = operation
NoRequest == ~CanRequest /\ UNCHANGED <<requests, next_request_number>>

\* connect: preflight or apply has failed.  uncertain is what exchange_expected
\* marked through mark_apply_result_uncertain.
fail_from_recovery(operation, status, uncertain, protocol) ==
    /\ state' = IF operation = "apply" /\ uncertain THEN "cleanup_required"
                ELSE state_from_recovery(status)
    /\ last_error_class' = IF protocol THEN "protocol" ELSE operation
    /\ Return

\* rollback_after_failure's error branch and the end of stop_runtime_and_rollback.
RollbackFailed(status) ==
    /\ state' = IF status = "clean" THEN "cleanup_required" ELSE status
    /\ last_error_class' = "rollback"
    /\ Return

\* Mutant: the class of the failure that led here is cleared.
RolledBack_ClearsError ==
    /\ state' = IF stop_failed THEN "cleanup_required" ELSE "disconnected"
    /\ last_error_class' = IF stop_failed THEN "runtime_stop" ELSE "none"
    /\ Return

RolledBack ==
    /\ state' = IF stop_failed THEN "cleanup_required" ELSE "disconnected"
    /\ last_error_class' = CASE stop_failed -> "runtime_stop"
                             [] ~stop_failed /\ op \in {"disconnect", "recover"} -> "none"
                             [] OTHER -> last_error_class
    /\ Return

ExchangeFails(operation, status, uncertain, protocol) ==
    IF operation = "rollback" THEN RollbackFailed(status)
    ELSE fail_from_recovery(operation, status, uncertain, protocol)

\* An operation begins: it stops the runtime first, then rolls back.
StopFirst(name, s, class) ==
    /\ op' = name /\ at' = "stop" /\ state' = s /\ last_error_class' = class
    /\ UNCHANGED <<recovery, next_request_number, stop_failed, runtime, journal,
                   requests, responses>>

-----------------------------------------------------------------------------
\* The operations

connect ==
    /\ at = "idle" /\ state = "disconnected" /\ recovery = "clean"
    /\ \/ /\ Request("preflight") /\ op' = "connect"
          /\ state' = "connecting" /\ last_error_class' = "none"
          /\ UNCHANGED stop_failed
       \/ NoRequest /\ fail_from_recovery("preflight", recovery, FALSE, FALSE)
    /\ UNCHANGED <<recovery, runtime, journal, responses>>

disconnect ==
    /\ at = "idle" /\ state = "connected"
    /\ StopFirst("disconnect", "disconnecting", "none")

check_runtime_health ==
    /\ at = "idle" /\ state = "connected" /\ runtime # "running"
    /\ StopFirst("check_health", "recovering", "runtime_health")

recover ==
    /\ at = "idle"
    /\ state \in {"connecting", "disconnecting", "cleanup_required", "recovering"}
    /\ StopFirst("recover", "recovering", "none")

\* What exchange_expected makes of the next response in the pipe.
Matches(r) == r.id = next_request_number - 1

\* Mutant: the request id of a response is not compared.
Accepted_AnyId(r) == r.form = "valid" /\ r.outcome = Expected[at]

Accepted(r) == r.form = "valid" /\ Matches(r) /\ r.outcome = Expected[at]
Rejected(r) == r.form = "valid" /\ Matches(r) /\ r.outcome = "rejected"
Recovery(r) == IF Matches(r) /\ r.form # "garbled" THEN r.recovery ELSE recovery

ReceiveExpected ==
    /\ at \in Operations /\ responses # <<>> /\ Accepted(Head(responses))
    /\ recovery' = Recovery(Head(responses))
    /\ responses' = Tail(responses)
    /\ \/ /\ at = "preflight" /\ Request("apply")
          /\ UNCHANGED <<state, last_error_class, op, stop_failed>>
       \/ /\ at = "preflight" /\ NoRequest
          /\ fail_from_recovery("apply", recovery', FALSE, FALSE)
       \/ /\ at = "apply" /\ at' = "start"
          /\ UNCHANGED <<state, last_error_class, op, stop_failed, requests,
                         next_request_number>>
       \/ /\ at = "rollback" /\ RolledBack
          /\ UNCHANGED <<requests, next_request_number>>
    /\ UNCHANGED <<runtime, journal>>

\* Mutant: a rejected apply goes on to start the runtime.
ReceiveUnexpected_Starts ==
    /\ at \in Operations /\ responses # <<>> /\ ~Accepted(Head(responses))
    /\ LET r == Head(responses)
       IN  /\ recovery' = Recovery(r)
           /\ IF at = "apply" /\ Rejected(r)
              THEN at' = "start" /\ UNCHANGED <<state, last_error_class, op, stop_failed>>
              ELSE ExchangeFails(at, recovery', ~Rejected(r), ~Rejected(r))
    /\ responses' = Tail(responses)
    /\ UNCHANGED <<requests, next_request_number, runtime, journal>>

ReceiveUnexpected ==
    /\ at \in Operations /\ responses # <<>> /\ ~Accepted(Head(responses))
    /\ LET r == Head(responses)
       IN  /\ recovery' = Recovery(r)
           /\ ExchangeFails(at, recovery', ~Rejected(r), ~Rejected(r))
    /\ responses' = Tail(responses)
    /\ UNCHANGED <<requests, next_request_number, runtime, journal>>

\* helper.exchange returns an error.
TransportFails ==
    /\ at \in Operations /\ ExchangeFails(at, recovery, TRUE, FALSE)
    /\ UNCHANGED <<recovery, requests, responses, next_request_number, runtime,
                   journal>>

\* packet_runtime.start and is_healthy
RuntimeStarts ==
    /\ at = "start" /\ runtime' = "running" /\ state' = "connected"
    /\ last_error_class' = "none" /\ Return
    /\ UNCHANGED <<recovery, next_request_number, journal, requests, responses>>

RuntimeStartFails(class) ==
    /\ at = "start"
    /\ runtime' \in (IF class = "runtime_start" THEN {"stopped", "running", "failed"}
                     ELSE {"failed"})
    /\ state' = "recovering" /\ last_error_class' = class /\ at' = "stop"
    /\ UNCHANGED <<recovery, next_request_number, op, stop_failed, journal,
                   requests, responses>>

\* packet_runtime.stop has returned; rollback_after_failure begins.
RuntimeStopped(failed) ==
    /\ at = "stop"
    /\ runtime' \in {"stopped"} \cup {r \in {runtime} : failed}
    /\ \/ /\ Request("rollback") /\ state' = "recovering" /\ stop_failed' = failed
          /\ UNCHANGED <<last_error_class, op>>
       \/ NoRequest /\ RollbackFailed(recovery)
    /\ UNCHANGED <<recovery, journal, responses>>

\* The caller drops the operation's future at the await it is at.
Cancel ==
    /\ at # "idle" /\ Return
    /\ runtime' \in {runtime} \cup (CASE at = "start" -> {"running", "failed"}
                                      [] at = "stop" -> {"stopped"}
                                      [] OTHER -> {})
    /\ UNCHANGED <<state, recovery, last_error_class, next_request_number,
                   journal, requests, responses>>

\* The process ends and a new one makes a controller, once the helper has
\* served what the old one asked for.
Restart ==
    /\ requests = <<>> /\ responses' = <<>> /\ runtime' = "stopped"
    /\ recovery' \in Snapshots(journal)
    /\ state' = state_from_recovery(recovery')
    /\ last_error_class' = "none" /\ next_request_number' = 1 /\ Return
    /\ UNCHANGED <<journal, requests>>

\* The packet runtime stops working.
RuntimeDies ==
    /\ runtime = "running" /\ runtime' = "failed"
    /\ UNCHANGED <<controller, journal, requests, responses>>

-----------------------------------------------------------------------------
\* The platform helper, as PlatformHelperResponse::validate describes it, and
\* the pipe.  It keeps a journal while settings are, or may be, changed.

Effects(operation) ==
    CASE operation = "preflight" -> {journal}
      [] operation = "apply"     -> {TRUE, journal}
      [] operation = "rollback"  -> {FALSE, journal}

Done(operation, after) ==
    CASE operation = "preflight" -> ~journal
      [] operation = "apply"     -> ~journal /\ after
      [] operation = "rollback"  -> ~after

\* The <<form, outcome, recovery>> it may answer, the journal being after.
Answers(operation, after) ==
    {<<f, "rejected", s>> : f \in {"valid", "malformed", "garbled"},
                            s \in Snapshots(after)}
    \cup {<<"valid", s, s>> : s \in Snapshots(after) \ {"clean"}}
    \cup {<<"valid", Expected[operation], s>> :
            s \in {t \in Snapshots(after) : Done(operation, after) /\ t # "recovering"}}

HelperServes ==
    /\ requests # <<>>
    /\ \E after \in Effects(Head(requests).operation) :
         \E a \in Answers(Head(requests).operation, after) :
            /\ journal' = after
            /\ responses' = Append(responses,
                                   [id |-> Head(requests).id, form |-> a[1],
                                    outcome |-> a[2], recovery |-> a[3]])
    /\ requests' = Tail(requests)
    /\ UNCHANGED <<controller, runtime>>

LoseRequest ==
    /\ requests # <<>> /\ requests' = Tail(requests)
    /\ UNCHANGED <<controller, runtime, journal, responses>>

LoseResponse ==
    /\ responses # <<>> /\ responses' = Tail(responses)
    /\ UNCHANGED <<controller, runtime, journal, requests>>

-----------------------------------------------------------------------------
Next ==
    \/ connect \/ disconnect \/ check_runtime_health \/ recover
    \/ ReceiveExpected \/ ReceiveUnexpected \/ TransportFails
    \/ RuntimeStarts
    \/ \E class \in {"runtime_start", "runtime_health"} : RuntimeStartFails(class)
    \/ \E failed \in BOOLEAN : RuntimeStopped(failed)
    \/ Cancel \/ Restart \/ RuntimeDies
    \/ HelperServes \/ LoseRequest \/ LoseResponse

Spec == Init /\ [][Next]_vars

-----------------------------------------------------------------------------
\* A controller that says it is disconnected (state_from_recovery, or after a
\* rollback) has left nothing behind, however its operations were cancelled and
\* its messages lost: the helper holds no journal, no request still on its way
\* will change a setting, the packet runtime is stopped, and connect() is open.
DisconnectedIsClean ==
    state = "disconnected" =>
        /\ ~journal /\ runtime = "stopped" /\ recovery = "clean"
        /\ \A i \in 1..Len(requests) : requests[i].operation # "apply"

\* A controller that says it is connected (the end of connect()) has its
\* settings in force: the helper holds the journal, and no rollback of an
\* operation given up earlier is still on its way to undo them.
ConnectedIsApplied ==
    state = "connected" =>
        /\ journal /\ runtime # "stopped"
        /\ \A i \in 1..Len(requests) : requests[i].operation # "rollback"

\* What ReferenceClientController::state() shows of the two settled states is so.
ControllerIsHonest == DisconnectedIsClean /\ ConnectedIsApplied

\* An operation that runs to its end leaves last_error_class empty exactly when
\* it reached what it is for: connect() Connected, disconnect() and recover()
\* Disconnected; check_runtime_health() that acted always reports an error.
ErrorsAreReported ==
    [][(at # "idle" /\ at' = "idle" /\ ~Cancel /\ ~Restart) =>
        (last_error_class' = "none" <=>
            \/ op = "connect" /\ state' = "connected"
            \/ op \in {"disconnect", "recover"} /\ state' = "disconnected")]_vars
=============================================================================
