---------------------------- MODULE StoredProfile ----------------------------
(***************************************************************************)
(* A client profile kept by an application of the SDK                      *)
(* (maverick-sdk/src/lib.rs): the metadata file written from               *)
(* StoredClientProfile and the secrets it refers to in a                   *)
(* ProfileSecretStore.  A save puts the secrets one by one and then writes *)
(* the metadata; every put may fail and the process may be killed between  *)
(* any two of these steps.  Nothing is rolled back.                        *)
(*                                                                         *)
(* The payload of a profile is the client document of ConfigPolicy whose   *)
(* secrets are replaced by their references and whose channel binding is   *)
(* optional (a sequence of at most one).                                   *)
(***************************************************************************)
EXTENDS ConfigPolicy

CONSTANTS Documents,   \* the documents an application saves
          Builders,    \* what it may have given to a ClientConfigBuilder
          OldFiles,    \* the files an earlier or a foreign version may have left
          Bindings     \* the policies a caller may choose in a migration

VARIABLES store,    \* slot -> secret, None when the slot is empty
          disk,     \* the metadata file
          job,      \* the save that is running: its step, its document
          clean     \* << >> or <<doc>>: the last save that completed, if none was cut short since

vars == <<store, disk, job, clean>>

STORED_CLIENT_PROFILE_SCHEMA_VERSION == 1
Slots == {"active", "next"}
NoFile == [shape |-> None]
Idle == [pc |-> "idle"]
Ref(slot) == "ref_" \o slot

(***************************************************************************)
(* StoredClientProfile.                                                    *)
(***************************************************************************)
fronted_or_h3(payload) == tls_terminating_fronting_enabled(payload) \/ payload.experimental_h3

required_channel_binding_unsupported(p, binding) == binding.require /\ fronted_or_h3(p.payload)

compatibility_status(p) ==
    CASE p.schema = 0 -> IF p.binding = << >> THEN "legacy" ELSE "malformed"
      [] p.schema = STORED_CLIENT_PROFILE_SCHEMA_VERSION ->
            IF /\ p.binding # << >>
               /\ binding_validate(p.binding[1])
               /\ ~required_channel_binding_unsupported(p, p.binding[1])
            THEN "current" ELSE "malformed"
      [] OTHER -> "unsupported"

\* Mutant: the copy forgets the certificate pin.
Payload_NoPin(doc) ==
    [doc EXCEPT !.secret = Ref("active"), !.binding = BindingDefault, !.cert_pin = None,
                !.next = IF @ = NoNext THEN @ ELSE [@ EXCEPT !.secret = Ref("next")]]
\* The payload that From<&StoredClientProfile> and into_stored_profile copy
\* field by field: everything but the secrets and the binding.
Payload(doc) ==
    [doc EXCEPT !.secret = Ref("active"), !.binding = BindingDefault,
                !.next = IF @ = NoNext THEN @ ELSE [@ EXCEPT !.secret = Ref("next")]]

\* StoredClientProfile::store_from_config, what it returns.
stored_profile(doc) ==
    [schema |-> STORED_CLIENT_PROFILE_SCHEMA_VERSION, payload |-> Payload(doc), binding |-> <<doc.binding>>]

\* Mutant: a profile that offers Auth v2 is taken for an unsupported one.
serializes_NoV2(p) == p.schema = STORED_CLIENT_PROFILE_SCHEMA_VERSION /\ p.binding # << >>
                      /\ compatibility_status(p) = "current" /\ ~p.payload.v2.enabled
\* Serialize for StoredClientProfile: only a current profile is written.
serializes(p) == p.schema = STORED_CLIENT_PROFILE_SCHEMA_VERSION /\ p.binding # << >>
                 /\ compatibility_status(p) = "current"

\* Deserialize: the envelope or the flat legacy payload, no unknown key in
\* either, and no envelope of schema 0.
deserializes(file) == /\ file.shape \in {"envelope", "flat"}
                      /\ ~file.unknown
                      /\ file.shape = "envelope" => file.schema # 0
\* Mutant: a file without a binding gets the default policy.
into_stored_profile_Default(file) ==
    [schema |-> 1, payload |-> file.payload,
     binding |-> IF file.binding = << >> THEN <<BindingDefault>> ELSE file.binding]
into_stored_profile(file) ==
    [schema |-> IF file.shape = "envelope" THEN file.schema ELSE 0,
     payload |-> file.payload, binding |-> file.binding]

\* migrate_legacy_with_channel_binding.
migrates(p, binding) == /\ compatibility_status(p) = "legacy"
                        /\ binding_validate(binding)
                        /\ ~required_channel_binding_unsupported(p, binding)
\* Mutant: the migration also resets the rotation it does not understand.
migrated_NoRotation(p, binding) ==
    [p EXCEPT !.binding = <<binding>>, !.schema = STORED_CLIENT_PROFILE_SCHEMA_VERSION,
              !.payload.next = NoNext, !.payload.auto_switch = FALSE]
migrated(p, binding) == [p EXCEPT !.binding = <<binding>>, !.schema = STORED_CLIENT_PROFILE_SCHEMA_VERSION]

\* to_client_config with its rotation part: the secrets put back, or nothing.
Materialized(p) ==
    [p.payload EXCEPT !.secret = store["active"], !.binding = p.binding[1],
                      !.next = IF @ = NoNext THEN @ ELSE [@ EXCEPT !.secret = store["next"]]]
to_client_config(p) ==
    IF /\ ~(p.payload.version = 1 /\ p.payload.experimental_h3)
       /\ compatibility_status(p) = "current"
       /\ store["active"] # None
       /\ p.payload.next # NoNext => store["next"] # None
       /\ client_validate(Materialized(p))
    THEN <<Materialized(p)>> ELSE << >>

\* ClientConfigBuilder::build: the settings given over the defaults, and an
\* error when a required one is missing.
client_build(b) ==
    LET config == [ClientDefault EXCEPT !.mode = b.mode, !.socks = b.socks, !.credential_id = b.credential_id,
                       !.secret = b.secret, !.cert_pin = b.cert_pin,
                       !.experimental_h3 = b.experimental_h3, !.experimental_tun = b.experimental_tun]
    IN  IF b.credential_id # None /\ b.secret # None /\ b.server_set /\ client_validate(config)
        THEN {config} ELSE {}

(***************************************************************************)
(* The application.                                                        *)
(***************************************************************************)
Init ==
    /\ disk \in OldFiles \cup {NoFile}
    /\ store = IF disk = NoFile THEN [s \in Slots |-> None] ELSE [active |-> "s0", next |-> "s0"]
    /\ job = Idle
    /\ clean = << >>

Envelope(p) == [shape |-> "envelope", schema |-> p.schema, payload |-> p.payload,
                binding |-> p.binding, unknown |-> FALSE]

\* store_from_config up to its first put: an invalid document touches nothing.
Save == \E doc \in Documents \cup UNION {client_build(b) : b \in Builders} :
    /\ job = Idle
    /\ client_validate(doc)
    /\ job' = [pc |-> "active", doc |-> doc]
    /\ UNCHANGED <<store, disk, clean>>

\* put_secret of the active and of the next credential.
PutActive ==
    /\ job.pc = "active"
    /\ store' = [store EXCEPT !["active"] = job.doc.secret]
    /\ job' = [job EXCEPT !.pc = IF job.doc.next = NoNext THEN "write" ELSE "next"]
    /\ clean' = << >>
    /\ UNCHANGED disk

PutNext ==
    /\ job.pc = "next"
    /\ store' = [store EXCEPT !["next"] = job.doc.next.secret]
    /\ job' = [job EXCEPT !.pc = "write"]
    /\ UNCHANGED <<disk, clean>>

\* The application serializes the profile and replaces its file.
Write ==
    /\ job.pc = "write"
    /\ serializes(stored_profile(job.doc))
    /\ disk' = Envelope(stored_profile(job.doc))
    /\ clean' = <<job.doc>>
    /\ job' = Idle
    /\ UNCHANGED store

\* A put that fails ends the save; a kill does so anywhere.
CutShort == job # Idle /\ job' = Idle /\ UNCHANGED <<store, disk, clean>>

\* The steps of the migration of a legacy file, in one: it holds no secret
\* and writes the file once.
Migrate == \E binding \in Bindings :
    /\ job = Idle
    /\ deserializes(disk) /\ migrates(into_stored_profile(disk), binding)
    /\ serializes(migrated(into_stored_profile(disk), binding))
    /\ disk' = Envelope(migrated(into_stored_profile(disk), binding))
    /\ UNCHANGED <<store, job, clean>>

Next == Save \/ PutActive \/ PutNext \/ Write \/ CutShort \/ Migrate

Spec == Init /\ [][Next]_vars

(***************************************************************************)
(* Properties.                                                             *)
(***************************************************************************)
Loaded == IF deserializes(disk) THEN to_client_config(into_stored_profile(disk)) ELSE << >>

\* A profile whose last save completed loads as exactly the document that was
\* saved, secrets, pin, binding and rotation included, whatever file and
\* whatever half-finished saves came before it (store_from_config,
\* serialize, deserialize, to_client_config).
LoadedIsLastSaved == clean # << >> => Loaded = clean

\* A save never stops between its secrets and its file for the SDK's own
\* reasons: what ClientConfig::validate accepted, serialize accepts.
SavedSecretsFindTheirFile == job.pc = "write" => serializes(stored_profile(job.doc))

\* A migration (migrate_legacy_with_channel_binding) changes the binding and
\* the schema of a legacy file only: its other settings and the secrets they
\* refer to are the ones a later load finds.
IsLegacy(f) == f.shape = "flat"
MigrationKeepsTheRest ==
    [][IsLegacy(disk) /\ disk' # disk =>
          \/ disk'.payload = disk.payload /\ store' = store /\ disk'.binding \in {<<b>> : b \in Bindings}
          \/ job.pc = "write"]_vars

\* A legacy file is never loaded with a channel binding nobody chose
\* (compatibility_status, to_client_config), while saves come and go.
LegacyIsNotLoaded == IsLegacy(disk) => Loaded = << >>
=============================================================================
