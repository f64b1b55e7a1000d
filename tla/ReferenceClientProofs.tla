------------------------- MODULE ReferenceClientProofs -------------------------
(***************************************************************************)
(* Proofs about ReferenceClient for every range of the request counter.    *)
(* The pipe is in order and its ids never repeat (Ordered), so an answer   *)
(* that carries the id of the request being waited for was given after     *)
(* every earlier request was served or lost: it tells what the helper's    *)
(* journal still is (Fresh).  Phases adds what holds at each await.        *)
(***************************************************************************)
EXTENDS ReferenceClient, TLAPS

Last == next_request_number - 1

\* Requests are served in the order of their ids, answers are older than every
\* request still on its way, and nothing carries an id not given yet.
Ordered ==
    /\ \A i \in DOMAIN requests : requests[i].id < next_request_number
    /\ \A i, j \in DOMAIN requests : i < j => requests[i].id < requests[j].id
    /\ \A i \in DOMAIN responses : responses[i].id < next_request_number
    /\ \A i \in DOMAIN responses, j \in DOMAIN requests :
           responses[i].id < requests[j].id

\* The answer to the last request made tells what the journal is now.
Fresh ==
    \A i \in DOMAIN responses :
        responses[i].id = Last =>
            /\ responses[i].recovery \in Snapshots(journal)
            /\ responses[i].form = "valid" /\ responses[i].outcome = "applied" => journal
            /\ responses[i].form = "valid" /\ responses[i].outcome = "rolled_back" => ~journal

NoApply == \A i \in DOMAIN requests : requests[i].operation # "apply"

\* What the operation under way has established at the await it is at.
Phases ==
    /\ at = "idle" <=> op = "none"
    /\ state \in {"disconnected", "connected"} => at = "idle"
    /\ at \in {"preflight", "apply", "start"} => op = "connect" /\ runtime = "stopped"
    /\ at = "preflight" => ~journal /\ NoApply
    /\ at = "start" => journal /\ requests = <<>>
    /\ at = "rollback" /\ ~stop_failed => runtime = "stopped"
    /\ at \in {"stop", "rollback"} /\ op \in {"connect", "check_health"} =>
           last_error_class # "none"

\* The two settled states, with the pipe as it must be for them to last.
Settled ==
    /\ state = "disconnected" => /\ ~journal /\ runtime = "stopped"
                                 /\ recovery = "clean" /\ NoApply
    /\ state = "connected" => journal /\ runtime # "stopped" /\ requests = <<>>

IInv == TypeOK /\ Ordered /\ Fresh /\ Phases /\ Settled

-----------------------------------------------------------------------------
\* The sequences of the pipe

\* What taking the oldest element from a sequence leaves.
LEMMA TailFacts ==
    ASSUME NEW S, NEW s \in Seq(S), s # <<>>
    PROVE  /\ Tail(s) \in Seq(S) /\ Head(s) \in S /\ Head(s) = s[1]
           /\ 1 \in DOMAIN s
           /\ \A i \in DOMAIN Tail(s) : i + 1 \in DOMAIN s /\ Tail(s)[i] = s[i + 1]
OBVIOUS

\* What adding an element to a sequence gives.
LEMMA AppendFacts ==
    ASSUME NEW S, NEW s \in Seq(S), NEW e \in S
    PROVE  /\ Append(s, e) \in Seq(S)
           /\ \A i \in DOMAIN Append(s, e) :
                  \/ i \in DOMAIN s /\ Append(s, e)[i] = s[i]
                  \/ i = Len(s) + 1 /\ Append(s, e)[i] = e
           /\ \A i \in DOMAIN s : i < Len(s) + 1
OBVIOUS
Requests == [id : 1..MaxNumber, operation : Operations]

\* The types of the elements of the pipe.
LEMMA PipeTypes ==
    ASSUME TypeOK
    PROVE  /\ next_request_number \in Int
           /\ \A i \in DOMAIN requests : /\ i \in Int /\ i < Len(requests) + 1
                                        /\ requests[i].id \in 1..MaxNumber
                                        /\ requests[i].operation \in Operations
           /\ \A i \in DOMAIN responses : i \in Int /\ responses[i] \in Responses
<1>1. requests \in Seq(Requests)
    BY DEF TypeOK, Requests
<1>2. responses \in Seq(Responses)
    BY DEF TypeOK
<1>3. \A i \in DOMAIN responses : i \in Int /\ responses[i] \in Responses
    BY <1>2
<1>4. \A i \in DOMAIN requests : /\ i \in Int /\ i < Len(requests) + 1
                                /\ requests[i] \in Requests
    BY <1>1
<1>5. next_request_number \in Int
    BY NumberAssumption DEF TypeOK
<1>. QED BY <1>3, <1>4, <1>5 DEF Requests

-----------------------------------------------------------------------------
\* The moves of the pipe

Pipe == Ordered /\ Fresh

\* Nothing happened to the pipe or to the journal.
LEMMA PipeUnchanged ==
    ASSUME Pipe, UNCHANGED <<requests, responses, next_request_number, journal>>
    PROVE  Pipe'
BY DEF Pipe, Ordered, Fresh, Last, Snapshots

\* An answer is read or lost.
LEMMA PipeReads ==
    ASSUME TypeOK, Pipe, responses # <<>>, responses' = Tail(responses),
           UNCHANGED <<requests, next_request_number, journal>>
    PROVE  Pipe'
<1>1. \A i \in DOMAIN responses' : i + 1 \in DOMAIN responses /\ responses'[i] = responses[i + 1]
    BY TailFacts DEF TypeOK
<1>. QED BY <1>1 DEF Pipe, Ordered, Fresh, Last, Snapshots

\* A request is lost.
LEMMA PipeLoses ==
    ASSUME TypeOK, Pipe, requests # <<>>, requests' = Tail(requests),
           UNCHANGED <<responses, next_request_number, journal>>
    PROVE  Pipe'
<1>1. \A i \in DOMAIN requests' :
          i \in Int /\ i + 1 \in DOMAIN requests /\ requests'[i] = requests[i + 1]
    BY TailFacts DEF TypeOK
<1>. QED BY <1>1 DEF Pipe, Ordered, Fresh, Last, Snapshots

\* A request is made; an answer may have been read just before.
LEMMA PipeAsks ==
    ASSUME TypeOK, Pipe, NEW o \in Operations, Request(o), UNCHANGED journal,
           \/ UNCHANGED responses
           \/ responses # <<>> /\ responses' = Tail(responses)
    PROVE  Pipe'
<1>. DEFINE e == [id |-> next_request_number, operation |-> o]
<1>1. e \in Requests /\ requests \in Seq(Requests)
    BY DEF TypeOK, Requests
<1>2. \A i \in DOMAIN requests' :
          \/ i \in DOMAIN requests /\ requests'[i] = requests[i]
          \/ i = Len(requests) + 1 /\ requests'[i].id = next_request_number
    BY <1>1, AppendFacts DEF Request
<1>3. \A i \in DOMAIN responses' : \E j \in DOMAIN responses : responses'[i] = responses[j]
    <2>1. responses \in Seq(Responses)
        BY DEF TypeOK
    <2>2. CASE UNCHANGED responses
        BY <2>2
    <2>3. CASE responses # <<>> /\ responses' = Tail(responses)
        BY <2>1, <2>3, TailFacts
    <2>. QED BY <2>2, <2>3
<1>4. \A i \in DOMAIN responses' : responses'[i].id < next_request_number
    BY <1>3 DEF Pipe, Ordered
<1>5. next_request_number' = next_request_number + 1 /\ next_request_number \in Int
    BY DEF Request, TypeOK
<1>6. \A i \in DOMAIN requests : i \in Int /\ i < Len(requests) + 1 /\ requests[i].id \in Int
    BY PipeTypes, NumberAssumption
<1>7. \A i \in DOMAIN responses' : responses'[i].id \in Int
    BY <1>3, PipeTypes, NumberAssumption DEF Responses
<1>8. Ordered'
    <2>1. \A i \in DOMAIN requests' : requests'[i].id < next_request_number'
        BY <1>2, <1>5, <1>6 DEF Pipe, Ordered
    <2>2. \A i, j \in DOMAIN requests' : i < j => requests'[i].id < requests'[j].id
        BY <1>2, <1>5, <1>6 DEF Pipe, Ordered
    <2>3. \A i \in DOMAIN responses' : responses'[i].id < next_request_number'
        BY <1>4, <1>5, <1>7
    <2>4. \A i \in DOMAIN responses', j \in DOMAIN requests' : responses'[i].id < requests'[j].id
        BY <1>2, <1>3, <1>4 DEF Pipe, Ordered
    <2>. QED BY <2>1, <2>2, <2>3, <2>4 DEF Ordered
<1>9. Fresh'
    BY <1>4, <1>5, <1>7 DEF Fresh, Last
<1>. QED BY <1>8, <1>9 DEF Pipe
\* An answer carries a snapshot of the journal the request leaves, and says applied
\* or rolled_back only of a journal that is there or is not.
LEMMA AnswerFacts ==
    ASSUME NEW o \in Operations, NEW after \in BOOLEAN, NEW a \in Answers(o, after)
    PROVE  /\ a[1] \in {"valid", "malformed", "garbled"}
           /\ a[2] \in {"ready", "applied", "rolled_back", "cleanup_required",
                        "recovering", "rejected"}
           /\ a[3] \in Snapshots(after) /\ a[3] \in Statuses
           /\ a[2] = "applied" => after
           /\ a[2] = "rolled_back" => ~after
<1>0. Snapshots(after) \subseteq Statuses
    BY DEF Snapshots, Statuses
<1>1. CASE \E f \in {"valid", "malformed", "garbled"}, s \in Snapshots(after) :
               a = <<f, "rejected", s>>
    BY <1>0, <1>1
<1>2. CASE \E s \in Snapshots(after) \ {"clean"} : a = <<"valid", s, s>>
    BY <1>0, <1>2 DEF Statuses
<1>3. CASE \E s \in {t \in Snapshots(after) : Done(o, after) /\ t # "recovering"} :
               a = <<"valid", Expected[o], s>>
    <2>1. PICK s \in Snapshots(after) : Done(o, after) /\ a = <<"valid", Expected[o], s>>
        BY <1>3
    <2>2. a[1] = "valid" /\ a[2] = Expected[o] /\ a[3] = s
        BY <2>1
    <2>3. CASE o = "preflight"
        BY <1>0, <2>2, <2>3 DEF Expected
    <2>4. CASE o = "apply"
        BY <1>0, <2>1, <2>2, <2>4 DEF Expected, Done
    <2>5. CASE o = "rollback"
        BY <1>0, <2>1, <2>2, <2>5 DEF Expected, Done
    <2>. QED BY <2>3, <2>4, <2>5 DEF Operations
<1>. QED BY <1>1, <1>2, <1>3 DEF Answers

\* The helper serves the oldest request: its answer is newer than the others in
\* the pipe and, when it is to the last request, tells the journal it leaves.
LEMMA PipeServes ==
    ASSUME TypeOK, Pipe, HelperServes
    PROVE  Pipe'
<1>. DEFINE q == Head(requests)
<1>1. requests \in Seq(Requests) /\ responses \in Seq(Responses) /\ requests # <<>>
    BY DEF TypeOK, Requests, HelperServes
<1>2. q = requests[1] /\ 1 \in DOMAIN requests /\ q \in Requests
    BY <1>1, TailFacts
<1>a. PICK after \in Effects(q.operation) :
          \E b \in Answers(q.operation, after) :
              /\ journal' = after
              /\ responses' = Append(responses, [id |-> q.id, form |-> b[1],
                                                 outcome |-> b[2], recovery |-> b[3]])
    BY DEF HelperServes
<1>3. PICK a \in Answers(q.operation, after) :
          /\ journal' = after
          /\ responses' = Append(responses, [id |-> q.id, form |-> a[1],
                                             outcome |-> a[2], recovery |-> a[3]])
    BY <1>a
<1>. DEFINE r == [id |-> q.id, form |-> a[1], outcome |-> a[2], recovery |-> a[3]]
<1>b. q.operation \in Operations /\ q.id \in 1..MaxNumber /\ after \in BOOLEAN
    BY <1>2, <1>a DEF Requests, Effects, Operations, TypeOK
<1>4. /\ r.recovery \in Snapshots(after)
      /\ r.form = "valid" /\ r.outcome = "applied" => after
      /\ r.form = "valid" /\ r.outcome = "rolled_back" => ~after
    BY <1>b, AnswerFacts
<1>5. r \in Responses
    BY <1>b, AnswerFacts DEF Responses
<1>6. \A i \in DOMAIN responses' : \/ i \in DOMAIN responses /\ responses'[i] = responses[i]
                                  \/ responses'[i] = r
    BY <1>1, <1>3, <1>5, AppendFacts
<1>7. \A i \in DOMAIN requests' :
          i \in Int /\ i + 1 \in DOMAIN requests /\ requests'[i] = requests[i + 1]
    BY <1>1, TailFacts DEF HelperServes
<1>8. next_request_number' = next_request_number
    BY DEF HelperServes, controller
<1>9. \A i \in DOMAIN responses : responses[i].id < q.id
    BY <1>2 DEF Pipe, Ordered
<1>10. r.id = q.id /\ q.id < next_request_number /\ q.id \in Int
    BY <1>2, <1>b, NumberAssumption DEF Pipe, Ordered
<1>11. Ordered'
    <2>1. \A i \in DOMAIN requests' : requests'[i].id < next_request_number'
        BY <1>7, <1>8 DEF Pipe, Ordered
    <2>2. \A i, j \in DOMAIN requests' : i < j => requests'[i].id < requests'[j].id
        BY <1>7 DEF Pipe, Ordered
    <2>3. \A i \in DOMAIN responses' : responses'[i].id < next_request_number'
        BY <1>6, <1>8, <1>10 DEF Pipe, Ordered
    <2>4. \A j \in DOMAIN requests' : q.id < requests'[j].id
        <3>1. \A j \in DOMAIN requests' : 1 < j + 1
            BY <1>1, TailFacts DEF HelperServes
        <3>. QED BY <1>2, <1>7, <3>1 DEF Pipe, Ordered
    <2>5. \A i \in DOMAIN responses', j \in DOMAIN requests' : responses'[i].id < requests'[j].id
        BY <1>6, <1>7, <1>10, <2>4 DEF Pipe, Ordered
    <2>. QED BY <2>1, <2>2, <2>3, <2>5 DEF Ordered
<1>12. Fresh'
    <2>1. \A i \in DOMAIN responses : responses[i].id # Last /\ responses[i].id # Last'
        BY <1>8, <1>9, <1>10, PipeTypes, NumberAssumption DEF Last, Responses
    <2>. QED BY <1>3, <1>4, <1>6, <2>1 DEF Fresh
<1>. QED BY <1>11, <1>12 DEF Pipe
\* Every step keeps the pipe in order and its last answer true.
LEMMA PipeStep ==
    ASSUME TypeOK, Pipe, [Next]_vars
    PROVE  Pipe'
<1>. USE DEF Operations
<1>1. CASE connect
    <2>1. CASE Request("preflight")
        BY <1>1, <2>1, PipeAsks DEF connect
    <2>2. CASE NoRequest
        BY <1>1, <2>2, PipeUnchanged DEF connect, NoRequest
    <2>. QED BY <1>1, <2>1, <2>2 DEF connect
<1>2. CASE disconnect \/ check_runtime_health \/ recover
    BY <1>2, PipeUnchanged DEF disconnect, check_runtime_health, recover, StopFirst
<1>3. CASE ReceiveExpected
    <2>1. responses # <<>> /\ responses' = Tail(responses) /\ UNCHANGED journal
        BY <1>3 DEF ReceiveExpected
    <2>2. CASE Request("apply")
        BY <2>1, <2>2, PipeAsks
    <2>3. CASE UNCHANGED <<requests, next_request_number>>
        BY <2>1, <2>3, PipeReads
    <2>. QED BY <1>3, <2>2, <2>3 DEF ReceiveExpected, NoRequest
<1>4. CASE ReceiveUnexpected
    BY <1>4, PipeReads DEF ReceiveUnexpected
<1>5. CASE TransportFails
    BY <1>5, PipeUnchanged DEF TransportFails
<1>6. CASE RuntimeStarts \/ \E class \in {"runtime_start", "runtime_health"} : RuntimeStartFails(class)
    BY <1>6, PipeUnchanged DEF RuntimeStarts, RuntimeStartFails
<1>7. ASSUME NEW failed \in BOOLEAN, RuntimeStopped(failed) PROVE Pipe'
    <2>1. CASE Request("rollback")
        BY <1>7, <2>1, PipeAsks DEF RuntimeStopped
    <2>2. CASE NoRequest
        BY <1>7, <2>2, PipeUnchanged DEF RuntimeStopped, NoRequest
    <2>. QED BY <1>7, <2>1, <2>2 DEF RuntimeStopped
<1>8. CASE Cancel \/ RuntimeDies
    BY <1>8, PipeUnchanged DEF Cancel, RuntimeDies, controller
<1>9. CASE Restart
    <2>1. DOMAIN requests' = {} /\ DOMAIN responses' = {}
        BY <1>9 DEF Restart
    <2>. QED BY <2>1 DEF Pipe, Ordered, Fresh
<1>10. CASE HelperServes
    BY <1>10, PipeServes
<1>11. CASE LoseRequest
    BY <1>11, PipeLoses DEF LoseRequest, controller
<1>12. CASE LoseResponse
    BY <1>12, PipeReads DEF LoseResponse, controller
<1>13. CASE UNCHANGED vars
    BY <1>13, PipeUnchanged DEF vars, controller
<1>. QED BY <1>1, <1>2, <1>3, <1>4, <1>5, <1>6, <1>7, <1>8, <1>9, <1>10, <1>11, <1>12, <1>13 DEF Next

-----------------------------------------------------------------------------
\* Types

ControllerType ==
    /\ state \in States /\ recovery \in Statuses /\ last_error_class \in ErrorClasses
    /\ op \in {"none", "connect", "disconnect", "check_health", "recover"}
    /\ at \in Operations \cup {"idle", "start", "stop"}
    /\ stop_failed \in BOOLEAN /\ journal \in BOOLEAN
    /\ runtime \in {"stopped", "running", "failed"}

PipeType ==
    /\ next_request_number \in 1..MaxNumber
    /\ requests \in Seq(Requests) /\ responses \in Seq(Responses)

\* The type of the controller and that of the pipe are looked at separately.
LEMMA TypeParts == TypeOK <=> ControllerType /\ PipeType
BY DEF TypeOK, ControllerType, PipeType, Requests

\* What a helper answers is a response, and a request has a number of its own.
LEMMA PipeTypeStep ==
    ASSUME TypeOK, [Next]_vars
    PROVE  PipeType'
<1>0. PipeType
    BY TypeParts
<1>1. ASSUME NEW o \in Operations, Request(o) 
      PROVE  next_request_number' \in 1..MaxNumber /\ requests' \in Seq(Requests)
    <2>1. [id |-> next_request_number, operation |-> o] \in Requests
        BY <1>0 DEF PipeType, Requests
    <2>2. requests' \in Seq(Requests)
        BY <1>0, <1>1, <2>1, AppendFacts DEF PipeType, Request
    <2>3. next_request_number' \in 1..MaxNumber
        BY <1>0, <1>1, NumberAssumption DEF PipeType, Request, CanRequest
    <2>. QED BY <2>2, <2>3
<1>2. ASSUME responses # <<>>, responses' = Tail(responses) PROVE responses' \in Seq(Responses)
    BY <1>0, <1>2, TailFacts DEF PipeType
<1>3. ASSUME requests # <<>>, requests' = Tail(requests) PROVE requests' \in Seq(Requests)
    BY <1>0, <1>3, TailFacts DEF PipeType
<1>4. CASE connect \/ ReceiveExpected \/ \E failed \in BOOLEAN : RuntimeStopped(failed)
    BY <1>0, <1>1, <1>2, <1>4 DEF connect, ReceiveExpected, RuntimeStopped, NoRequest, PipeType, Operations
<1>5. CASE ReceiveUnexpected \/ LoseResponse
    BY <1>0, <1>2, <1>5 DEF ReceiveUnexpected, LoseResponse, PipeType, controller
<1>6. CASE HelperServes
    <2>. DEFINE q == Head(requests)
    <2>1. q \in Requests /\ requests' \in Seq(Requests)
        BY <1>0, <1>3, <1>6, TailFacts DEF PipeType, HelperServes
    <2>2. PICK after \in Effects(q.operation) :
              \E b \in Answers(q.operation, after) :
                  responses' = Append(responses, [id |-> q.id, form |-> b[1],
                                                  outcome |-> b[2], recovery |-> b[3]])
        BY <1>6 DEF HelperServes
    <2>3. q.operation \in Operations /\ q.id \in 1..MaxNumber /\ after \in BOOLEAN
        BY <2>1, <2>2 DEF Requests, Effects, Operations, TypeOK
    <2>4. PICK a \in Answers(q.operation, after) :
              responses' = Append(responses, [id |-> q.id, form |-> a[1],
                                              outcome |-> a[2], recovery |-> a[3]])
        BY <2>2
    <2>5. [id |-> q.id, form |-> a[1], outcome |-> a[2], recovery |-> a[3]] \in Responses
        BY <2>3, AnswerFacts DEF Responses
    <2>6. responses' \in Seq(Responses)
        BY <1>0, <2>4, <2>5, AppendFacts DEF PipeType
    <2>. QED BY <1>0, <1>6, <2>1, <2>6 DEF PipeType, HelperServes, controller
<1>7. CASE LoseRequest
    BY <1>0, <1>3, <1>7 DEF LoseRequest, PipeType, controller
<1>8. CASE Restart
    BY <1>0, <1>8, NumberAssumption DEF Restart, PipeType
<1>9. CASE \/ disconnect \/ check_runtime_health \/ recover \/ TransportFails \/ RuntimeStarts
           \/ \E class \in {"runtime_start", "runtime_health"} : RuntimeStartFails(class)
           \/ Cancel \/ RuntimeDies \/ UNCHANGED vars
    BY <1>0, <1>9 DEF disconnect, check_runtime_health, recover, StopFirst, TransportFails,
        RuntimeStarts, RuntimeStartFails, Cancel, RuntimeDies, vars, controller, PipeType
<1>. QED BY <1>4, <1>5, <1>6, <1>7, <1>8, <1>9 DEF Next
\* The oldest answer in the pipe, and what it tells when it has the id of the last
\* request: there is no request behind it.
LEMMA HeadFacts ==
    ASSUME TypeOK, Pipe, responses # <<>>
    PROVE  /\ Head(responses) \in Responses
           /\ Matches(Head(responses)) =>
                 /\ requests = <<>>
                 /\ Head(responses).recovery \in Snapshots(journal)
                 /\ Head(responses).form = "valid" /\ Head(responses).outcome = "applied" => journal
                 /\ Head(responses).form = "valid" /\ Head(responses).outcome = "rolled_back" => ~journal
<1>1. responses \in Seq(Responses) /\ requests \in Seq(Requests)
    BY TypeParts DEF PipeType
<1>2. Head(responses) \in Responses /\ Head(responses) = responses[1] /\ 1 \in DOMAIN responses
    BY <1>1, TailFacts
<1>3. ASSUME Matches(Head(responses)), requests # <<>> PROVE FALSE
    <2>1. 1 \in DOMAIN requests
        BY <1>1, <1>3, TailFacts
    <2>2. responses[1].id < requests[1].id /\ requests[1].id < next_request_number
        BY <1>2, <2>1 DEF Pipe, Ordered
    <2>3. responses[1].id = next_request_number - 1
        BY <1>2, <1>3 DEF Matches
    <2>. QED BY <2>1, <2>2, <2>3, PipeTypes, NumberAssumption
<1>4. Matches(Head(responses)) => responses[1].id = Last
    BY <1>2 DEF Matches, Last
<1>. QED BY <1>2, <1>3, <1>4 DEF Pipe, Fresh

\* What the controller makes of an answer is a status.
LEMMA RecoveryType ==
    ASSUME TypeOK, Pipe, responses # <<>>
    PROVE  Recovery(Head(responses)) \in Statuses
BY HeadFacts DEF Recovery, Responses, TypeOK

\* The two ways an exchange fails end the operation with an error class, and
\* disconnected only as a failed preflight or as an apply that was refused.
LEMMA FailFacts ==
    ASSUME NEW o \in Operations, NEW s \in Statuses, NEW u \in BOOLEAN, NEW p \in BOOLEAN,
           ExchangeFails(o, s, u, p)
    PROVE  /\ state' \in States \ {"connected", "connecting", "disconnecting"}
           /\ state' = "disconnected" => s = "clean" /\ o # "rollback" /\ (o = "apply" => ~u)
           /\ last_error_class' \in ErrorClasses \ {"none"}
           /\ Return
<1>1. CASE o = "rollback"
    BY <1>1 DEF ExchangeFails, RollbackFailed, States, Statuses, ErrorClasses
<1>2. CASE o # "rollback"
    BY <1>2 DEF ExchangeFails, fail_from_recovery, state_from_recovery, States, Statuses,
        ErrorClasses, Operations
<1>. QED BY <1>1, <1>2

\* Every step of the controller, the runtime and the helper keeps their types.
LEMMA ControllerTypeStep ==
    ASSUME TypeOK, Pipe, [Next]_vars
    PROVE  ControllerType'
<1>0. ControllerType
    BY TypeParts
<1>. USE DEF Operations, ControllerType
<1>1. CASE connect
    BY <1>0, <1>1 DEF connect, Request, NoRequest, fail_from_recovery, Return, States, Statuses,
        ErrorClasses, state_from_recovery
<1>2. CASE disconnect \/ check_runtime_health \/ recover
    BY <1>0, <1>2 DEF disconnect, check_runtime_health, recover, StopFirst, States, ErrorClasses
<1>3. CASE ReceiveExpected
    <2>1. recovery' \in Statuses
        BY <1>3, RecoveryType DEF ReceiveExpected
    <2>2. CASE Request("apply") /\ UNCHANGED <<state, last_error_class, op, stop_failed>>
        BY <1>0, <1>3, <2>1, <2>2 DEF ReceiveExpected, Request
    <2>3. CASE fail_from_recovery("apply", recovery', FALSE, FALSE)
        BY <1>0, <1>3, <2>1, <2>3 DEF ReceiveExpected, fail_from_recovery, state_from_recovery, Return,
            States, Statuses, ErrorClasses
    <2>4. CASE at' = "start" /\ UNCHANGED <<state, last_error_class, op, stop_failed>>
        BY <1>0, <1>3, <2>1, <2>4 DEF ReceiveExpected
    <2>5. CASE RolledBack
        BY <1>0, <1>3, <2>1, <2>5 DEF ReceiveExpected, RolledBack, Return, States, ErrorClasses
    <2>. QED BY <1>3, <2>2, <2>3, <2>4, <2>5 DEF ReceiveExpected
<1>4. CASE ReceiveUnexpected
    <2>1. recovery' \in Statuses
        BY <1>4, RecoveryType DEF ReceiveUnexpected
    <2>2. /\ at \in Operations /\ UNCHANGED <<runtime, journal>>
          /\ ExchangeFails(at, recovery', ~Rejected(Head(responses)), ~Rejected(Head(responses)))
        BY <1>4 DEF ReceiveUnexpected
    <2>3. (~Rejected(Head(responses))) \in BOOLEAN
        BY DEF Rejected
    <2>. QED BY <1>0, <2>1, <2>2, <2>3, FailFacts DEF Return
<1>5. CASE TransportFails
    <2>1. /\ at \in Operations /\ ExchangeFails(at, recovery, TRUE, FALSE)
          /\ UNCHANGED <<recovery, runtime, journal>>
        BY <1>5 DEF TransportFails
    <2>. QED BY <1>0, <2>1, FailFacts DEF Return
<1>6. CASE RuntimeStarts \/ \E class \in {"runtime_start", "runtime_health"} : RuntimeStartFails(class)
    BY <1>0, <1>6 DEF RuntimeStarts, RuntimeStartFails, Return, States, ErrorClasses
<1>7. ASSUME NEW failed \in BOOLEAN, RuntimeStopped(failed) PROVE ControllerType'
    BY <1>0, <1>7 DEF RuntimeStopped, Request, NoRequest, RollbackFailed, Return, States, Statuses, ErrorClasses
<1>8. CASE Cancel \/ RuntimeDies \/ LoseRequest \/ LoseResponse \/ UNCHANGED vars
    BY <1>0, <1>8 DEF Cancel, RuntimeDies, LoseRequest, LoseResponse, vars, controller, Return
<1>9. CASE Restart
    BY <1>0, <1>9 DEF Restart, Return, Snapshots, state_from_recovery, States, Statuses, ErrorClasses
<1>10. CASE HelperServes
    <2>0. requests \in Seq(Requests) /\ requests # <<>>
        BY <1>10, TypeParts DEF HelperServes, PipeType
    <2>1. Head(requests) \in Requests
        BY <2>0, TailFacts
    <2>2. Head(requests).operation \in Operations
        BY <2>1 DEF Requests
    <2>. QED BY <1>0, <1>10, <2>2 DEF HelperServes, Effects, controller
<1>. QED BY <1>1, <1>2, <1>3, <1>4, <1>5, <1>6, <1>7, <1>8, <1>9, <1>10 DEF Next

-----------------------------------------------------------------------------
\* The awaits and the settled states

\* The requests after a step that adds none are among those before it.
LEMMA NoApplyKept ==
    ASSUME TypeOK, NoApply,
           \/ UNCHANGED requests
           \/ requests # <<>> /\ requests' = Tail(requests)
           \/ \E o \in Operations \ {"apply"} : Request(o)
    PROVE  NoApply'
<1>0. requests \in Seq(Requests)
    BY TypeParts DEF PipeType
<1>1. CASE UNCHANGED requests
    BY <1>1 DEF NoApply
<1>2. CASE requests # <<>> /\ requests' = Tail(requests)
    BY <1>0, <1>2, TailFacts DEF NoApply
<1>3. ASSUME NEW o \in Operations \ {"apply"}, Request(o) PROVE NoApply'
    <2>1. [id |-> next_request_number, operation |-> o] \in Requests
        BY DEF Requests, TypeOK
    <2>. QED BY <1>0, <1>3, <2>1, AppendFacts DEF NoApply, Request
<1>. QED BY <1>1, <1>2, <1>3

\* A helper that serves anything but an apply leaves no journal where there was none.
LEMMA ServedWithoutApply ==
    ASSUME TypeOK, NoApply, ~journal, HelperServes
    PROVE  ~journal' /\ NoApply'
<1>1. requests \in Seq(Requests) /\ requests # <<>>
    BY TypeParts DEF HelperServes, PipeType
<1>2. Head(requests) \in Requests /\ Head(requests) = requests[1] /\ 1 \in DOMAIN requests
    BY <1>1, TailFacts
<1>3. Head(requests).operation \in {"preflight", "rollback"}
    BY <1>2 DEF NoApply, Requests, Operations
<1>4. ~journal'
    <2>1. journal' \in Effects(Head(requests).operation)
        BY DEF HelperServes
    <2>2. Effects(Head(requests).operation) \subseteq {FALSE, journal}
        BY <1>3 DEF Effects
    <2>. QED BY <2>1, <2>2
<1>. QED BY <1>4, NoApplyKept DEF HelperServes
\* Every step leaves the operation at an await that it has the right to be at.
LEMMA PhasesStep ==
    ASSUME IInv, [Next]_vars
    PROVE  Phases'
<1>0. TypeOK /\ Pipe /\ Phases /\ Settled
    BY DEF IInv, Pipe
<1>. USE DEF Phases
<1>1. CASE connect
    <2>1. CASE Request("preflight") /\ op' = "connect" /\ state' = "connecting"
        <3>1. ~journal' /\ NoApply' /\ runtime' = "stopped"
            BY <1>0, <1>1, <2>1, NoApplyKept DEF connect, Settled, Operations
        <3>. QED BY <2>1, <3>1 DEF Request
    <2>2. CASE fail_from_recovery("preflight", recovery, FALSE, FALSE)
        BY <1>1, <2>2 DEF fail_from_recovery, Return
    <2>. QED BY <1>1, <2>1, <2>2 DEF connect
<1>2. CASE disconnect \/ check_runtime_health \/ recover
    BY <1>2 DEF disconnect, check_runtime_health, recover, StopFirst
<1>3. CASE ReceiveExpected
    <2>1. CASE at = "preflight" /\ Request("apply") /\ UNCHANGED <<state, op>>
        BY <1>0, <1>3, <2>1 DEF ReceiveExpected, Request
    <2>2. CASE fail_from_recovery("apply", recovery', FALSE, FALSE) \/ RolledBack
        BY <2>2 DEF fail_from_recovery, RolledBack, Return
    <2>3. CASE at = "apply" /\ at' = "start" /\ UNCHANGED <<state, op, requests>>
        <3>1. journal /\ requests = <<>>
            BY <1>0, <1>3, <2>3, HeadFacts DEF ReceiveExpected, Accepted, Expected
        <3>. QED BY <1>0, <1>3, <2>3, <3>1 DEF ReceiveExpected
    <2>. QED BY <1>3, <2>1, <2>2, <2>3 DEF ReceiveExpected
<1>4. CASE ReceiveUnexpected \/ TransportFails
    BY <1>4 DEF ReceiveUnexpected, TransportFails, ExchangeFails, RollbackFailed,
        fail_from_recovery, Return
<1>5. CASE RuntimeStarts
    BY <1>5 DEF RuntimeStarts, Return
<1>6. ASSUME NEW class \in {"runtime_start", "runtime_health"}, RuntimeStartFails(class) PROVE Phases'
    BY <1>0, <1>6 DEF RuntimeStartFails
<1>7. ASSUME NEW failed \in BOOLEAN, RuntimeStopped(failed) PROVE Phases'
    BY <1>0, <1>7 DEF RuntimeStopped, Request, RollbackFailed, Return
<1>8. CASE Cancel \/ Restart
    BY <1>8 DEF Cancel, Restart, Return
<1>9. CASE RuntimeDies
    BY <1>0, <1>9 DEF RuntimeDies, controller, NoApply
<1>10. CASE HelperServes
    <2>1. requests # <<>> /\ UNCHANGED <<controller, runtime>>
        BY <1>10 DEF HelperServes
    <2>2. at = "preflight" => ~journal' /\ NoApply'
        BY <1>0, <1>10, ServedWithoutApply
    <2>. QED BY <1>0, <2>1, <2>2 DEF controller
<1>11. CASE LoseRequest
    <2>1. requests # <<>> /\ requests' = Tail(requests) /\ UNCHANGED <<controller, runtime, journal>>
        BY <1>11 DEF LoseRequest
    <2>2. NoApply => NoApply'
        BY <1>0, <2>1, NoApplyKept
    <2>. QED BY <1>0, <2>1, <2>2 DEF controller
<1>12. CASE LoseResponse \/ UNCHANGED vars
    BY <1>0, <1>12 DEF LoseResponse, vars, controller, NoApply
<1>. QED BY <1>1, <1>2, <1>3, <1>4, <1>5, <1>6, <1>7, <1>8, <1>9, <1>10, <1>11, <1>12 DEF Next
\* A step that reaches disconnected or connected does so for good reason, and one that
\* stays there keeps what it means.
LEMMA SettledStep ==
    ASSUME IInv, [Next]_vars
    PROVE  Settled'
<1>0. TypeOK /\ Pipe /\ Phases /\ Settled
    BY DEF IInv, Pipe
<1>1. CASE connect
    <2>1. CASE state' = "connecting"
        BY <2>1 DEF Settled
    <2>2. CASE NoRequest /\ fail_from_recovery("preflight", recovery, FALSE, FALSE)
        BY <1>0, <1>1, <2>2 DEF connect, NoRequest, fail_from_recovery, state_from_recovery,
            Settled, NoApply
    <2>. QED BY <1>1, <2>1, <2>2 DEF connect
<1>2. CASE disconnect \/ check_runtime_health \/ recover
    BY <1>2 DEF disconnect, check_runtime_health, recover, StopFirst, Settled
<1>3. CASE ReceiveExpected
    <2>1. CASE UNCHANGED state
        BY <1>0, <1>3, <2>1 DEF ReceiveExpected, Phases, Operations, Settled
    <2>2. CASE at = "preflight" /\ NoRequest /\ fail_from_recovery("apply", recovery', FALSE, FALSE)
        <3>1. /\ ~journal' /\ runtime' = "stopped" /\ NoApply'
            BY <1>0, <1>3, <2>2 DEF ReceiveExpected, NoRequest, Phases, NoApply
        <3>2. state' = state_from_recovery(recovery')
            BY <2>2 DEF fail_from_recovery
        <3>3. recovery' \in Statuses
            BY <1>0, <1>3, RecoveryType DEF ReceiveExpected
        <3>. QED BY <3>1, <3>2, <3>3 DEF state_from_recovery, Settled, Statuses
    <2>3. CASE at = "rollback" /\ RolledBack /\ UNCHANGED requests
        <3>1. /\ ~journal /\ requests = <<>>
              /\ Head(responses).recovery \in Snapshots(journal)
            BY <1>0, <1>3, <2>3, HeadFacts DEF ReceiveExpected, Accepted, Expected
        <3>2. recovery' = "clean"
            BY <1>3, <3>1 DEF ReceiveExpected, Accepted, Recovery, Snapshots
        <3>3. CASE stop_failed
            BY <2>3, <3>3 DEF RolledBack, Settled
        <3>4. CASE ~stop_failed
            BY <1>0, <1>3, <2>3, <3>1, <3>2, <3>4 DEF ReceiveExpected, RolledBack, Settled, Phases,
                NoApply
        <3>. QED BY <3>3, <3>4
    <2>. QED BY <1>3, <2>1, <2>2, <2>3 DEF ReceiveExpected
<1>4. CASE ReceiveUnexpected
    <2>. DEFINE r == Head(responses)
    <2>1. /\ at \in Operations /\ recovery' = Recovery(r) /\ responses # <<>>
          /\ ExchangeFails(at, recovery', ~Rejected(r), ~Rejected(r))
          /\ UNCHANGED <<requests, runtime, journal>>
        BY <1>4 DEF ReceiveUnexpected
    <2>2. recovery' \in Statuses
        BY <1>0, <2>1, RecoveryType
    <2>3. (~Rejected(r)) \in BOOLEAN
        BY DEF Rejected
    <2>4. /\ state' # "connected"
          /\ state' = "disconnected" =>
                recovery' = "clean" /\ at # "rollback" /\ (at = "apply" => Rejected(r))
        BY <2>1, <2>2, <2>3, FailFacts
    <2>5. CASE at = "preflight"
        BY <1>0, <2>1, <2>4, <2>5 DEF Phases, Settled, NoApply
    <2>6. CASE at = "apply" /\ Rejected(r) /\ recovery' = "clean"
        <3>1. requests = <<>> /\ r.recovery \in Snapshots(journal) /\ r.recovery = "clean"
            BY <1>0, <2>1, <2>6, HeadFacts DEF Rejected, Recovery
        <3>2. ~journal
            BY <3>1 DEF Snapshots
        <3>. QED BY <1>0, <2>1, <2>4, <2>6, <3>1, <3>2 DEF Phases, Settled, NoApply
    <2>. QED BY <2>1, <2>4, <2>5, <2>6 DEF Settled, Operations
<1>5. CASE TransportFails
    <2>1. /\ at \in Operations /\ ExchangeFails(at, recovery, TRUE, FALSE) /\ recovery \in Statuses
          /\ UNCHANGED <<recovery, requests, runtime, journal>>
        BY <1>0, <1>5 DEF TransportFails, TypeOK
    <2>2. /\ state' # "connected"
          /\ state' = "disconnected" => recovery = "clean" /\ at = "preflight"
        BY <2>1, FailFacts DEF Operations
    <2>. QED BY <1>0, <2>1, <2>2 DEF Phases, Settled, NoApply
<1>6. CASE RuntimeStarts
    BY <1>0, <1>6 DEF RuntimeStarts, Phases, Settled
<1>7. CASE \/ \E class \in {"runtime_start", "runtime_health"} : RuntimeStartFails(class)
           \/ \E failed \in BOOLEAN : RuntimeStopped(failed)
    BY <1>0, <1>7 DEF RuntimeStartFails, RuntimeStopped, RollbackFailed, Settled, TypeOK, Statuses
<1>8. CASE Cancel
    BY <1>0, <1>8 DEF Cancel, Phases, Settled
<1>9. CASE Restart
    <2>1. recovery' \in Snapshots(journal) /\ requests' = <<>> /\ journal' = journal /\ runtime' = "stopped"
          /\ state' = state_from_recovery(recovery')
        BY <1>9 DEF Restart
    <2>. QED BY <2>1 DEF Snapshots, state_from_recovery, Settled, NoApply
<1>10. CASE RuntimeDies
    BY <1>0, <1>10 DEF RuntimeDies, controller, Settled, NoApply
<1>11. CASE HelperServes
    <2>1. requests # <<>> /\ UNCHANGED <<controller, runtime>>
        BY <1>11 DEF HelperServes
    <2>2. state = "disconnected" => ~journal' /\ NoApply'
        BY <1>0, <1>11, ServedWithoutApply DEF Settled
    <2>. QED BY <1>0, <2>1, <2>2 DEF controller, Settled
<1>12. CASE LoseRequest
    <2>1. requests # <<>> /\ requests' = Tail(requests) /\ UNCHANGED <<controller, runtime, journal>>
        BY <1>12 DEF LoseRequest
    <2>2. NoApply => NoApply'
        BY <1>0, <2>1, NoApplyKept
    <2>. QED BY <1>0, <2>1, <2>2 DEF controller, Settled
<1>13. CASE LoseResponse \/ UNCHANGED vars
    BY <1>0, <1>13 DEF LoseResponse, vars, controller, Settled, NoApply
<1>. QED BY <1>1, <1>2, <1>3, <1>4, <1>5, <1>6, <1>7, <1>8, <1>9, <1>10, <1>11, <1>12, <1>13 DEF Next

-----------------------------------------------------------------------------
\* The invariant holds in a new controller, whatever the helper's journal.
LEMMA InvInit == ASSUME Init PROVE IInv
<1>1. TypeOK
    <2>1. ControllerType
        BY DEF Init, New, ControllerType, Snapshots, state_from_recovery, States, Statuses,
            ErrorClasses, Operations
    <2>2. next_request_number \in 1..MaxNumber
        BY NumberAssumption DEF Init, New
    <2>3. requests \in Seq(Requests) /\ responses \in Seq(Responses)
        BY DEF Init
    <2>. QED BY <2>1, <2>2, <2>3, TypeParts DEF PipeType
<1>2. DOMAIN requests = {} /\ DOMAIN responses = {}
    BY DEF Init
<1>3. Ordered /\ Fresh /\ NoApply
    BY <1>2 DEF Ordered, Fresh, NoApply
<1>4. Phases
    BY DEF Init, New, Phases
<1>5. Settled
    <2>1. recovery \in Snapshots(journal) /\ state = state_from_recovery(recovery) /\ runtime = "stopped"
        BY DEF Init, New
    <2>. QED BY <1>3, <2>1 DEF Settled, Snapshots, state_from_recovery
<1>. QED BY <1>1, <1>3, <1>4, <1>5 DEF IInv

\* The invariant is inductive.
LEMMA InvStep == ASSUME IInv, [Next]_vars PROVE IInv'
<1>1. TypeOK /\ Pipe
    BY DEF IInv, Pipe
<1>2. Pipe' /\ ControllerType' /\ PipeType'
    BY <1>1, PipeStep, ControllerTypeStep, PipeTypeStep
<1>3. TypeOK'
    BY <1>2, TypeParts DEF TypeOK, ControllerType, PipeType, Requests
<1>4. Phases' /\ Settled'
    BY PhasesStep, SettledStep
<1>. QED BY <1>2, <1>3, <1>4 DEF IInv, Pipe

\* IInv holds in every reachable state of the controller, the pipe and the helper.
THEOREM Invariance == Spec => []IInv
<1>. QED BY InvInit, InvStep, PTL DEF Spec

\* The controller, the helper and the pipe keep their types; in particular the request
\* counter (next_request) never passes its largest value.
THEOREM TypeCorrect == Spec => []TypeOK
<1>1. IInv => TypeOK
    BY DEF IInv
<1>. QED BY <1>1, Invariance, PTL

\* ReferenceClientController::state() is true of the system in both settled states:
\* disconnected means that nothing is left behind and nothing on its way will change a
\* setting, connected that the settings are in force and nothing on its way undoes them.
THEOREM StateIsHonest == Spec => []ControllerIsHonest
<1>1. ASSUME IInv PROVE ControllerIsHonest
    <2>1. DOMAIN requests = 1..Len(requests)
        BY <1>1 DEF IInv, TypeOK
    <2>2. DisconnectedIsClean
        BY <1>1, <2>1 DEF IInv, Settled, DisconnectedIsClean, NoApply
    <2>3. ConnectedIsApplied
        BY <1>1 DEF IInv, Settled, ConnectedIsApplied
    <2>. QED BY <2>2, <2>3 DEF ControllerIsHonest
<1>. QED BY <1>1, Invariance, PTL

\* An operation of the controller that runs to its end clears last_error_class if and
\* only if it reached what it is for.
THEOREM OutcomeIsReported == Spec => ErrorsAreReported
<1>. DEFINE Reported ==
       (at # "idle" /\ at' = "idle" /\ ~Cancel /\ ~Restart) =>
           (last_error_class' = "none" <=>
               \/ op = "connect" /\ state' = "connected"
               \/ op \in {"disconnect", "recover"} /\ state' = "disconnected")
<1>1. ASSUME IInv, [Next]_vars PROVE [Reported]_vars
    <2>0. TypeOK /\ Pipe /\ Phases
        BY <1>1 DEF IInv, Pipe
    <2>1. CASE connect \/ disconnect \/ check_runtime_health \/ recover
        BY <2>1 DEF connect, disconnect, check_runtime_health, recover
    <2>2. CASE ReceiveExpected
        <3>1. CASE at' # "idle"
            BY <3>1
        <3>2. CASE at = "preflight" /\ fail_from_recovery("apply", recovery', FALSE, FALSE)
            <4>1. recovery' \in Statuses
                BY <2>0, <2>2, RecoveryType DEF ReceiveExpected
            <4>. QED BY <2>0, <3>2, <4>1 DEF fail_from_recovery, state_from_recovery, Phases, Statuses
        <3>3. CASE at = "rollback" /\ RolledBack
            <4>1. CASE stop_failed
                BY <3>3, <4>1 DEF RolledBack
            <4>2. CASE ~stop_failed /\ op \in {"disconnect", "recover"}
                BY <3>3, <4>2 DEF RolledBack
            <4>3. CASE ~stop_failed /\ op \notin {"disconnect", "recover"}
                <5>1. state' = "disconnected" /\ last_error_class' = last_error_class
                    BY <3>3, <4>3 DEF RolledBack
                <5>2. last_error_class # "none"
                    BY <2>0, <3>3, <4>3 DEF Phases, TypeOK
                <5>. QED BY <4>3, <5>1, <5>2
            <4>. QED BY <4>1, <4>2, <4>3
        <3>. QED BY <2>2, <3>1, <3>2, <3>3 DEF ReceiveExpected, Request
    <2>3. CASE ReceiveUnexpected \/ TransportFails
        <3>1. at \in Operations
            BY <2>3 DEF ReceiveUnexpected, TransportFails
        <3>2. (~Rejected(Head(responses))) \in BOOLEAN
            BY DEF Rejected
        <3>3. CASE ReceiveUnexpected
            <4>1. /\ recovery' \in Statuses
                  /\ ExchangeFails(at, recovery', ~Rejected(Head(responses)), ~Rejected(Head(responses)))
                BY <2>0, <3>3, RecoveryType DEF ReceiveUnexpected
            <4>. QED BY <2>0, <3>1, <3>2, <4>1, FailFacts DEF Phases, Operations
        <3>4. CASE TransportFails
            <4>1. recovery \in Statuses /\ ExchangeFails(at, recovery, TRUE, FALSE)
                BY <2>0, <3>4 DEF TransportFails, TypeOK
            <4>. QED BY <2>0, <3>1, <4>1, FailFacts DEF Phases, Operations
        <3>. QED BY <2>3, <3>3, <3>4
    <2>4. CASE RuntimeStarts
        BY <2>0, <2>4 DEF RuntimeStarts, Phases
    <2>5. CASE \E class \in {"runtime_start", "runtime_health"} : RuntimeStartFails(class)
        BY <2>5 DEF RuntimeStartFails
    <2>6. ASSUME NEW failed \in BOOLEAN, RuntimeStopped(failed) PROVE Reported
        BY <2>0, <2>6 DEF RuntimeStopped, Request, RollbackFailed, TypeOK, Statuses
    <2>7. CASE Cancel \/ Restart
        BY <2>7
    <2>8. CASE RuntimeDies \/ HelperServes \/ LoseRequest \/ LoseResponse
        BY <2>8 DEF RuntimeDies, HelperServes, LoseRequest, LoseResponse, controller
    <2>9. CASE UNCHANGED vars
        BY <2>9
    <2>. QED BY <1>1, <2>1, <2>2, <2>3, <2>4, <2>5, <2>6, <2>7, <2>8, <2>9 DEF Next
<1>. QED BY <1>1, Invariance, PTL DEF Spec, ErrorsAreReported
=============================================================================
