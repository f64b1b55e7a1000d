-------------------------- MODULE PolicyProjection --------------------------
(***************************************************************************)
(* What a validated client document means: its projection into the         *)
(* config-v2 five-axis policy (maverick-core/src/config/v2.rs), the strict *)
(* reader of such a policy, the carrier the client then opens              *)
(* (maverick-client/src/transport.rs) and the independent oracle of        *)
(* maverick-tests/src/v1_effective_behavior.rs.                            *)
(*                                                                         *)
(* The operator edits one setting at a time; each load evaluates the       *)
(* document as it then is, valid or not: project_v1_client_policy and      *)
(* default_transport_kind accept a ClientConfig built by any caller.       *)
(***************************************************************************)
EXTENDS ConfigPolicy

CONSTANTS Settings,   \* the settings the operator edits, each with its values
          PolicyDocs  \* the config-v2 policy documents to read

VARIABLES doc,    \* the client document
          out     \* what the last load returned

vars == <<doc, out>>

----------------------------------------------------------------------------
(* The strict policy reader.  An axis is a section with one field:          *)
(* "absent" is a missing section, "empty" a section without its field, and  *)
(* "unknown" a value the enum does not name.                                *)

Axes(w) == {w.security, w.transport, w.route, w.name_privacy, w.shaping}

\* Mutant: the H3 strategy is taken as available.
validate_wire_H3(w) ==
    LET axis(value, unavailable) ==
            << <<value = "empty", "MissingRequiredPolicy">>,
               <<value \in unavailable, "UnavailableCapability">>,
               <<value = "unknown", "InvalidPolicy">> >>
        failure == FirstFailure(
            << <<w.mode, "PolicyConflict">>, <<"absent" \in Axes(w), "MissingRequiredPolicy">> >>
            \o axis(w.security, {}) \o axis(w.transport, {})
            \o << <<w.route = "empty", "MissingRequiredPolicy">> >>
            \o axis(w.name_privacy, {"native_ech"}) \o axis(w.shaping, {})
            \o << <<w.route = "direct" /\ w.front.present, "PolicyConflict">>,
                  <<w.route = "front" /\ ~w.front.present, "PolicyConflict">>,
                  <<w.route = "front" /\ w.front.provider = "unknown", "InvalidPolicy">>,
                  <<w.route = "front" /\ (w.front.provider = "empty" \/ w.front.trusted # "true"), "PolicyConflict">>,
                  <<w.route = "front_with_inner_e2e", "UnavailableCapability">>,
                  <<w.route = "unknown", "InvalidPolicy">> >>)
    IN  IF failure # None THEN [error |-> failure]
        ELSE [error |-> None, security |-> w.security, transport |-> w.transport, route |-> w.route,
              front |-> IF w.route = "front" THEN w.front ELSE NoFront,
              name_privacy |-> w.name_privacy, shaping |-> w.shaping]

\* Mutant: a front beside a direct route is overlooked.
validate_wire_FrontIgnored(w) ==
    LET axis(value, unavailable) ==
            << <<value = "empty", "MissingRequiredPolicy">>,
               <<value \in unavailable, "UnavailableCapability">>,
               <<value = "unknown", "InvalidPolicy">> >>
        failure == FirstFailure(
            << <<w.mode, "PolicyConflict">>, <<"absent" \in Axes(w), "MissingRequiredPolicy">> >>
            \o axis(w.security, {}) \o axis(w.transport, {"h3"})
            \o << <<w.route = "empty", "MissingRequiredPolicy">> >>
            \o axis(w.name_privacy, {"native_ech"}) \o axis(w.shaping, {})
            \o << <<w.route = "front" /\ ~w.front.present, "PolicyConflict">>,
                  <<w.route = "front" /\ w.front.provider = "unknown", "InvalidPolicy">>,
                  <<w.route = "front" /\ (w.front.provider = "empty" \/ w.front.trusted # "true"), "PolicyConflict">>,
                  <<w.route = "front_with_inner_e2e", "UnavailableCapability">>,
                  <<w.route = "unknown", "InvalidPolicy">> >>)
    IN  IF failure # None THEN [error |-> failure]
        ELSE [error |-> None, security |-> w.security, transport |-> w.transport, route |-> w.route,
              front |-> IF w.route = "front" THEN w.front ELSE NoFront,
              name_privacy |-> w.name_privacy, shaping |-> w.shaping]

\* validate_wire: a document is refused for the first reason below, or it is
\* the policy it spells out.
validate_wire(w) ==
    LET axis(value, unavailable) ==
            << <<value = "empty", "MissingRequiredPolicy">>,
               <<value \in unavailable, "UnavailableCapability">>,
               <<value = "unknown", "InvalidPolicy">> >>
        failure == FirstFailure(
            << <<w.mode, "PolicyConflict">>, <<"absent" \in Axes(w), "MissingRequiredPolicy">> >>
            \o axis(w.security, {}) \o axis(w.transport, {"h3"})
            \o << <<w.route = "empty", "MissingRequiredPolicy">> >>
            \o axis(w.name_privacy, {"native_ech"}) \o axis(w.shaping, {})
            \o << <<w.route = "direct" /\ w.front.present, "PolicyConflict">>,
                  <<w.route = "front" /\ ~w.front.present, "PolicyConflict">>,
                  <<w.route = "front" /\ w.front.provider = "unknown", "InvalidPolicy">>,
                  <<w.route = "front" /\ (w.front.provider = "empty" \/ w.front.trusted # "true"), "PolicyConflict">>,
                  <<w.route = "front_with_inner_e2e", "UnavailableCapability">>,
                  <<w.route = "unknown", "InvalidPolicy">> >>)
    IN  IF failure # None THEN [error |-> failure]
        ELSE [error |-> None, security |-> w.security, transport |-> w.transport, route |-> w.route,
              front |-> IF w.route = "front" THEN w.front ELSE NoFront,
              name_privacy |-> w.name_privacy, shaping |-> w.shaping]

\* probe_config_version reads the root keys in order.  A head is the sequence of
\* the <<key, value>> pairs outside the five sections; "text" is a version that
\* is not an integer.  The first key that is repeated or unreadable decides.
probe_config_version(head) ==
    LET repeated(i) == \E j \in 1 .. i - 1 : head[j][1] = head[i][1]
        bad == {i \in DOMAIN head : repeated(i) \/ head[i] = <<"version", "text">>}
        first == CHOOSE i \in bad : \A j \in bad : i <= j
        versions == {head[i][2] : i \in {i \in DOMAIN head : head[i][1] = "version"}}
    IN  CASE bad # {}                          -> IF head[first][1] = "version" THEN "InvalidMetadata"
                                                  ELSE "DuplicateKey"
          [] bad = {} /\ versions = {}         -> "InvalidMetadata"
          [] bad = {} /\ versions = {"1"}      -> "V1"
          [] bad = {} /\ versions = {"2"}      -> "V2"
          [] OTHER                             -> "Unsupported"

UnknownKeys(head) == {head[i][1] : i \in DOMAIN head} \ {"version"}

\* from_versioned_yaml_str_rejecting_unknown_fields, up to the fields of the
\* version-1 document.
from_versioned_yaml(head) == probe_config_version(head) = "V1" /\ UnknownKeys(head) = {}

\* Policy::from_yaml_str, behind the version probe.
policy_from_yaml(w) ==
    LET probe == probe_config_version(w.head)
    IN  CASE probe = "V2"                     -> IF UnknownKeys(w.head) = {} THEN validate_wire(w)
                                                 ELSE [error |-> "InvalidPolicy"]
          [] probe \in {"V1", "Unsupported"}  -> [error |-> "UnsupportedVersion"]
          [] probe = "DuplicateKey"           -> [error |-> "InvalidPolicy"]
          [] probe = "InvalidMetadata"        -> [error |-> "InvalidDocument"]

\* The document that spells out policy p.
Document(p) ==
    [head |-> << <<"version", "2">> >>, mode |-> FALSE, security |-> p.security, transport |-> p.transport,
     route |-> p.route, front |-> p.front, name_privacy |-> p.name_privacy, shaping |-> p.shaping]

----------------------------------------------------------------------------

Init == /\ doc = ClientDefault
        /\ out = [kind |-> "none"]

\* The operator changes one setting of the document.
Edit(setting, value) ==
    /\ out.kind = "none" /\ doc[setting] # value
    /\ doc' = [doc EXCEPT ![setting] = value]
    /\ UNCHANGED out

\* The client starts from the document.
LoadClient ==
    /\ out.kind = "none"
    /\ out' = [kind |-> "client", valid |-> client_validate(doc),
               projection |-> project_v1_client_policy(doc),
               transport |-> default_transport_kind(doc), oracle |-> evaluate_client(doc)]
    /\ UNCHANGED doc

\* Policy document w is read.
ReadPolicy(w) ==
    /\ out.kind = "none" /\ doc = ClientDefault
    /\ out' = [kind |-> "policy", document |-> w, result |-> policy_from_yaml(w),
               v1 |-> from_versioned_yaml(w.head)]
    /\ UNCHANGED doc

\* The verdict is dropped, and the operator edits on.
Unload == out.kind # "none" /\ out' = [kind |-> "none"] /\ UNCHANGED doc

Next == \/ \E setting \in DOMAIN Settings : \E value \in Settings[setting] : Edit(setting, value)
        \/ LoadClient \/ Unload
        \/ \E w \in PolicyDocs : ReadPolicy(w)

Spec == Init /\ [][Next]_vars

----------------------------------------------------------------------------

\* The verdict has one of its shapes.
TypeOK ==
    /\ out.kind \in {"none", "client", "policy"}
    /\ out.kind = "client" => /\ out.transport \in {"h2", "ws", "h3"}
                              /\ out.oracle.security.carrier \in {"h2", "ws"}
    /\ out.kind = "policy" /\ out.result.error = None => out.result.transport \in {"auto", "h2"}

\* A policy document that is accepted is exactly the document its policy spells
\* out, so validate_wire ignores nothing its writer could have meant, and no
\* version-1 reader takes it for a configuration.
StrictReader ==
    out.kind = "policy" /\ out.result.error = None => out.document = Document(out.result) /\ ~out.v1

\* The policy a client document projects to is one the strict reader accepts,
\* with the same meaning: project_v1_client_policy builds no policy that could
\* not have been written down.
ProjectionIsReadable ==
    out.kind = "client" /\ out.projection.error = None =>
        validate_wire(Document(out.projection)) = out.projection

\* The carrier does not depend on which of the two paths of
\* default_transport_decision chose it, and what a projection promises (direct
\* H2, no shaping) is what the client then does.
ProjectionKeepsBehaviour ==
    out.kind = "client" =>
        /\ ~doc.quiche_h3 => out.transport = legacy_default_transport_kind(doc)
        /\ out.projection.error = None =>
               /\ out.transport = "h2" /\ out.oracle.carrier = "h2_only"
               /\ out.oracle.security.route = "direct"
               /\ ~out.oracle.shaping.facts.effective
               /\ out.oracle.blockers = {}

\* The oracle blocks every valid document the projection blocks, except two: H2
\* behind a front, which the tests of v1_effective_behavior.rs set apart, and the
\* explicit H3 carrier, which neither the oracle nor its tests know.
OracleBlocksAlike ==
    out.kind = "client" /\ out.valid =>
        (out.projection.error # None) =
            \/ out.oracle.blockers # {} \/ out.oracle.carrier = "fronted_h2" \/ doc.quiche_h3

=============================================================================
