------------------------------ MODULE TunHost -------------------------------
(***************************************************************************)
(* What is done to the host for a TUN device.  Route plans                 *)
(* (maverick-core/src/tun.rs): validation, the apply safety gate, the      *)
(* production policy gate and the apply and rollback actions of an         *)
(* approved plan; the executor that carries the actions out is external    *)
(* and may stop between any two of them.  The TUN helper of the command    *)
(* line (maverick-cli/src/main.rs): the smoke run that creates a device    *)
(* and a documentation route and removes them, its rollback journal, and   *)
(* the rollback command that recovers from a retained journal; every ip    *)
(* command that changes the host is a step of its own, every command may   *)
(* fail, helpers may run side by side, other programs may remove and       *)
(* remake the device, and a helper may be killed between any two steps.    *)
(***************************************************************************)
EXTENDS Integers, Sequences, SequencesExt, FiniteSets

\* A route is its network ("unspecified" or a name), family and prefix length;
\* a device name is its length and whether all its bytes are allowed.
TunRoute_validate(r) == r.len <= (IF r.v4 THEN 32 ELSE 128)
is_default_route(r) == r.net = "unspecified" /\ r.len = 0
validate_device_name(n) == n.len \in 1 .. 32 /\ n.plain

Plan_validate(plan) ==
    /\ validate_device_name(plan.device)
    /\ \A i \in 1 .. Len(plan.include) : TunRoute_validate(plan.include[i])
    /\ \A i \in 1 .. Len(plan.exclude) : TunRoute_validate(plan.exclude[i])
    /\ plan.enabled => plan.include # << >>

\* What must hold before a plan is applied.
SafetyGates ==
    {"dry_run_completed", "operator_approved", "approved_host", "platform_supported", "privileges_confirmed",
     "proxy_vpn_conflict_checked", "rollback_plan_writable"}

\* The blockers of a valid plan: the gates that do not hold.
evaluate_tun_apply_safety(plan, context) == IF ~plan.enabled THEN {"TunDisabled"} ELSE SafetyGates \ context

\* The controls a plan needs from the production policy.
PolicyNeeds(plan) ==
    LET default == \E i \in 1 .. Len(plan.include) : is_default_route(plan.include[i])
        dns == plan.dns # << >>
    IN  (IF plan.exclude # << >> THEN {"route_exclusions"} ELSE {})
        \cup (IF default THEN {"default_route", "control_plane_bypass"} ELSE {})
        \cup (IF dns THEN {"global_dns"} ELSE {})
        \cup (IF default \/ dns THEN {"leak_sentry"} ELSE {})

\* Mutant: only the default route is asked about.
evaluate_tun_production_policy_Routes(plan, policy) == (PolicyNeeds(plan) \ {"global_dns", "leak_sentry"}) \ policy

evaluate_tun_production_policy(plan, policy) == PolicyNeeds(plan) \ policy

Acts(kind, routes) == [i \in 1 .. Len(routes) |-> [kind |-> kind, route |-> routes[i]]]
Act(kind) == <<[kind |-> kind, route |-> "none"]>>

\* Mutant: the excluded routes are left as they were pinned.
rollback_actions_KeepExcluded(plan) ==
    (IF plan.dns # << >> THEN Act("RestoreDnsServers") ELSE << >>)
    \o Acts("DeleteRoute", Reverse(plan.include))
    \o Act("DeleteTunDevice")

rollback_actions(plan) ==
    (IF plan.dns # << >> THEN Act("RestoreDnsServers") ELSE << >>)
    \o Acts("RestoreRoute", Reverse(plan.exclude))
    \o Acts("DeleteRoute", Reverse(plan.include))
    \o Act("DeleteTunDevice")

\* Mutant: the rollback plan is recorded once the device is up.
apply_actions_LateRecord(plan) ==
    Act("CreateTunDevice") \o Act("BringDeviceUp") \o Act("RecordRollbackPlan")
    \o Acts("PreserveRoute", plan.exclude)
    \o Acts("AddRoute", plan.include)
    \o (IF plan.dns # << >> THEN Act("SetDnsServers") ELSE << >>)

\* Mutant: the excluded routes are pinned after the included ones are added.
apply_actions_LateBypass(plan) ==
    Act("RecordRollbackPlan") \o Act("CreateTunDevice") \o Act("BringDeviceUp")
    \o Acts("AddRoute", plan.include)
    \o Acts("PreserveRoute", plan.exclude)
    \o (IF plan.dns # << >> THEN Act("SetDnsServers") ELSE << >>)

\* Mutant: the device is brought up before it is created.
apply_actions_UpFirst(plan) ==
    Act("RecordRollbackPlan") \o Act("BringDeviceUp") \o Act("CreateTunDevice")
    \o Acts("PreserveRoute", plan.exclude) \o Acts("AddRoute", plan.include)

apply_actions(plan) ==
    Act("RecordRollbackPlan") \o Act("CreateTunDevice") \o Act("BringDeviceUp")
    \o Acts("PreserveRoute", plan.exclude)
    \o Acts("AddRoute", plan.include)
    \o (IF plan.dns # << >> THEN Act("SetDnsServers") ELSE << >>)

-----------------------------------------------------------------------------

CONSTANTS Plans, Contexts, Policies

VARIABLES plan,      \* the plan of this run
          gates,     \* its safety context and production policy
          phase,     \* "review", "blocked", "apply", "stopped", "rollback" or "done"
          todo,      \* actions still to carry out
          recorded,  \* the rollback actions on record, if any
          host       \* the network state the actions change
planVars == <<plan, gates, phase, todo, recorded, host>>

Untouched == [device |-> FALSE, up |-> FALSE, pinned |-> {}, routed |-> {}, dns |-> "system"]

PlanInit ==
    /\ plan \in Plans
    /\ gates \in [context : Contexts, policy : Policies]
    /\ phase = "review" /\ todo = << >> /\ recorded = << >> /\ host = Untouched

\* build_tun_runtime_plan_with_policy: nothing is built unless both gates are open.
Build ==
    /\ phase = "review"
    /\ LET open == /\ Plan_validate(plan)
                   /\ evaluate_tun_apply_safety(plan, gates.context) = {}
                   /\ evaluate_tun_production_policy(plan, gates.policy) = {}
       IN  IF open THEN phase' = "apply" /\ todo' = apply_actions(plan)
           ELSE phase' = "blocked" /\ UNCHANGED todo
    /\ UNCHANGED <<plan, gates, recorded, host>>

\* What an action does to the host; each may be repeated without harm.
Effect(h, a) ==
    CASE a.kind = "CreateTunDevice" -> [h EXCEPT !.device = TRUE]
      [] a.kind = "BringDeviceUp" -> [h EXCEPT !.up = TRUE]
      [] a.kind = "PreserveRoute" -> [h EXCEPT !.pinned = @ \cup {a.route}]
      [] a.kind = "AddRoute" -> [h EXCEPT !.routed = @ \cup {a.route}]
      [] a.kind = "SetDnsServers" -> [h EXCEPT !.dns = "plan"]
      [] a.kind = "RestoreDnsServers" -> [h EXCEPT !.dns = "system"]
      [] a.kind = "RestoreRoute" -> [h EXCEPT !.pinned = @ \ {a.route}]
      [] a.kind = "DeleteRoute" -> [h EXCEPT !.routed = @ \ {a.route}]
      [] a.kind = "DeleteTunDevice" -> [h EXCEPT !.device = FALSE, !.up = FALSE]
      [] OTHER -> h

\* The executor carries out the next action.
Execute ==
    /\ phase \in {"apply", "rollback"} /\ todo # << >>
    /\ host' = Effect(host, Head(todo))
    /\ recorded' = IF Head(todo).kind = "RecordRollbackPlan" THEN rollback_actions(plan) ELSE recorded
    /\ todo' = Tail(todo)
    /\ UNCHANGED <<plan, gates, phase>>

\* It stops where it is: a crash, a failed action, or the end of the session.
Stopped ==
    /\ phase \in {"apply", "rollback"}
    /\ phase' = "stopped" /\ todo' = << >>
    /\ UNCHANGED <<plan, gates, recorded, host>>

\* The recorded rollback is carried out from its beginning.
Rollback ==
    /\ phase = "stopped" \/ (phase = "apply" /\ todo = << >>)
    /\ phase' = "rollback" /\ todo' = recorded
    /\ UNCHANGED <<plan, gates, recorded, host>>

Finished ==
    /\ phase = "rollback" /\ todo = << >>
    /\ phase' = "done"
    /\ UNCHANGED <<plan, gates, todo, recorded, host>>

PlanNext == Build \/ Execute \/ Stopped \/ Rollback \/ Finished
PlanSpec == PlanInit /\ [][PlanNext]_planVars

-----------------------------------------------------------------------------

PlanTypeOK ==
    /\ phase \in {"review", "blocked", "apply", "stopped", "rollback", "done"}
    /\ host.pinned \subseteq Range(plan.exclude) /\ host.routed \subseteq Range(plan.include)
    /\ host.dns \in {"system", "plan"}
    /\ host.up => host.device

\* Wherever the executor stopped, and however often the rollback itself was cut
\* short and begun again, a finished rollback leaves the host as it was.
RollbackRestores == phase = "done" => host = Untouched

\* No change is made before the rollback that undoes it is on record.
RecordedFirst == host # Untouched => recorded # << >>

\* While the plan is applied, traffic enters the device only once every excluded
\* route (the path of the tunnel itself) is pinned outside it.
BypassFirst == (phase = "apply" /\ host.routed # {}) => host.pinned = Range(plan.exclude)

\* The default policy lets no plan change the default route, the resolvers or
\* any excluded route.
DefaultPolicyIsNarrow ==
    gates.policy = {} => /\ host.dns = "system" /\ host.pinned = {}
                         /\ \A r \in host.routed : ~is_default_route(r)

-----------------------------------------------------------------------------
(* The helper and its journal.                                              *)

CONSTANTS Procs,      \* helper processes that may run at once
          Env,        \* gates of SafetyGates that may be missing
          MaxRuns, MaxFails, MaxCrashes

VARIABLES dev,      \* the device of the given name: its maker and its alias
          route,    \* what the documentation route points at: "none", "dev" or "other"
          journal,  \* the journal file: absent, torn, or complete
          procs, runs, fails, crashes,
          missing,  \* the safety gates that do not hold
          past      \* history: the identities no device carries any more, whether a rollback
                    \* ran beside a smoke run, whether a residue check missed a device
helperVars == <<dev, route, journal, procs, runs, fails, crashes, missing, past>>

NoDev == [by |-> "nobody", alias |-> 0]
NoFile == [kind |-> "none", id |-> 0]
Idle == [pc |-> "idle", id |-> 0, created |-> FALSE, added |-> FALSE, verified |-> FALSE, errors |-> FALSE]

HelperInit ==
    /\ dev = NoDev /\ route = "none" /\ journal = NoFile
    /\ procs = [p \in Procs |-> Idle]
    /\ runs = 0 /\ fails = 0 /\ crashes = 0
    /\ missing \in SUBSET Env
    /\ past = [lost |-> {}, beside |-> FALSE, blind |-> FALSE]

Go(p, changes) == procs' = [procs EXCEPT ![p] = changes]
At(p, pc) == procs[p].pc = pc
To(p, pc) == [procs[p] EXCEPT !.pc = pc]
NoFault == UNCHANGED <<fails, crashes, missing>>
\* A command that the system refuses although nothing is in its way.
Fails == fails < MaxFails /\ fails' = fails + 1 /\ UNCHANGED <<crashes, missing>>

rollback_journal_path_available == journal.kind = "none"

\* tun_helper_smoke_report: a dry run reports, an applied one goes on when no gate blocks it.
smoke_blockers == missing \cup (IF rollback_journal_path_available THEN {} ELSE {"rollback_plan_writable"})

\* Mutant: the preflight does not look at the journal.
preflight_blockers_NoJournal ==
    (missing \cap {"approved_host", "platform_supported", "privileges_confirmed"})
    \cup (IF dev # NoDev THEN {"ExistingDevice"} ELSE {}) \cup (IF route # "none" THEN {"ExistingRoute"} ELSE {})

\* tun_helper_preflight_report: what a smoke run would be refused for.
preflight_blockers ==
    (missing \cap {"approved_host", "platform_supported", "privileges_confirmed"})
    \cup (IF dev # NoDev THEN {"ExistingDevice"} ELSE {})
    \cup (IF route # "none" THEN {"ExistingRoute"} ELSE {})
    \cup (IF rollback_journal_path_available THEN {} ELSE {"RollbackJournalUnavailable"})

StartSmoke(p) ==
    /\ At(p, "idle") /\ runs < MaxRuns
    /\ runs' = runs + 1
    /\ Go(p, IF smoke_blockers = {} THEN [Idle EXCEPT !.pc = "check", !.id = runs'] ELSE Idle)
    /\ UNCHANGED <<dev, route, journal>> /\ NoFault

\* "ip link show" under command_success: a device that is there is found, unless the
\* command fails, which counts as a device that is absent.
command_success(p, present, absent) ==
    \/ Go(p, IF dev = NoDev THEN absent ELSE present) /\ NoFault
    \/ dev # NoDev /\ Go(p, absent) /\ Fails

\* An existing device or route of the name is refused, as is a route that cannot be
\* looked up.
Check(p) ==
    /\ At(p, "check")
    /\ \/ command_success(p, Idle, IF route = "none" THEN To(p, "journal") ELSE Idle)
       \/ Go(p, Idle) /\ Fails
    /\ UNCHANGED <<dev, route, journal, runs>>

\* create_new, then the contents: the file is never overwritten, and a write that
\* fails leaves a torn file behind.
write_tun_helper_rollback_journal(p) ==
    /\ At(p, "journal")
    /\ \/ /\ journal.kind = "none" /\ journal' = [kind |-> "complete", id |-> procs[p].id]
          /\ Go(p, To(p, "add")) /\ NoFault
       \/ /\ journal.kind = "none" /\ journal' = [kind |-> "torn", id |-> 0]
          /\ Go(p, Idle) /\ Fails
       \/ journal.kind # "none" /\ Go(p, Idle) /\ UNCHANGED journal /\ NoFault
    /\ UNCHANGED <<dev, route, runs>>

\* One step of the apply sequence: it succeeds when `able`, and sends the
\* process to its cleanup when it does not.
ApplyStep(p, pc, next, able, done) ==
    /\ At(p, pc)
    /\ \/ able /\ done /\ Go(p, next) /\ NoFault
       \/ ~able /\ Go(p, To(p, "c_verify")) /\ UNCHANGED <<dev, route>> /\ NoFault
       \/ able /\ Go(p, To(p, "c_verify")) /\ UNCHANGED <<dev, route>> /\ Fails
    /\ UNCHANGED <<journal, runs>>

AddDevice(p) ==
    ApplyStep(p, "add", [To(p, "alias") EXCEPT !.created = TRUE], dev = NoDev,
              dev' = [by |-> "helper", alias |-> 0] /\ UNCHANGED route)
BindIdentity(p) ==
    ApplyStep(p, "alias", To(p, "identity"), dev # NoDev,
              dev' = [dev EXCEPT !.alias = procs[p].id] /\ UNCHANGED route)
VerifyIdentity(p) == ApplyStep(p, "identity", To(p, "up"), dev.alias = procs[p].id, UNCHANGED <<dev, route>>)
\* The address is assigned and the device brought up.
BringUp(p) == ApplyStep(p, "up", To(p, "route"), dev # NoDev, UNCHANGED <<dev, route>>)
\* Mutant: the routes outlive the device.
DeleteDevice_KeepRoute == dev' = NoDev /\ UNCHANGED route

AddRoute(p) ==
    ApplyStep(p, "route", [To(p, "probe") EXCEPT !.added = TRUE], dev # NoDev /\ route = "none",
              route' = "dev" /\ UNCHANGED dev)
Probe(p) == ApplyStep(p, "probe", To(p, "c_verify"), route = "dev", UNCHANGED <<dev, route>>)

\* cleanup_linux_tun_helper_smoke: only a device that carried this run's identity
\* when it was looked at is touched.
CleanupVerify(p) ==
    /\ At(p, "c_verify")
    /\ \/ LET ours == procs[p].created /\ dev.alias = procs[p].id
          IN  Go(p, [To(p, "c_route") EXCEPT !.verified = ours, !.errors = procs[p].created /\ ~ours]) /\ NoFault
       \/ procs[p].created /\ Go(p, [To(p, "c_route") EXCEPT !.errors = TRUE]) /\ Fails
    /\ UNCHANGED <<dev, route, journal, runs>>

CleanupRoute(p) ==
    /\ At(p, "c_route")
    /\ \/ ~(procs[p].added /\ procs[p].verified) /\ Go(p, To(p, "c_dev")) /\ UNCHANGED route /\ NoFault
       \/ /\ procs[p].added /\ procs[p].verified /\ route = "dev"
          /\ \/ route' = "none" /\ Go(p, To(p, "c_dev")) /\ NoFault
             \/ Go(p, [To(p, "c_dev") EXCEPT !.errors = TRUE]) /\ UNCHANGED route /\ Fails
       \/ /\ procs[p].added /\ procs[p].verified /\ route # "dev"
          /\ Go(p, [To(p, "c_dev") EXCEPT !.errors = TRUE]) /\ UNCHANGED route /\ NoFault
    /\ UNCHANGED <<dev, journal, runs>>

\* The kernel removes a device's routes with it.
DeleteDevice == dev' = NoDev /\ route' = IF route = "dev" THEN "none" ELSE route

CleanupDevice(p) ==
    /\ At(p, "c_dev")
    /\ \/ ~procs[p].verified /\ Go(p, To(p, "c_file")) /\ UNCHANGED <<dev, route>> /\ NoFault
       \/ procs[p].verified /\ dev # NoDev /\ DeleteDevice /\ Go(p, To(p, "c_file")) /\ NoFault
       \/ /\ procs[p].verified /\ dev = NoDev /\ Go(p, [To(p, "c_file") EXCEPT !.errors = TRUE])
          /\ UNCHANGED <<dev, route>> /\ NoFault
       \/ /\ procs[p].verified /\ dev # NoDev /\ Go(p, [To(p, "c_file") EXCEPT !.errors = TRUE])
          /\ UNCHANGED <<dev, route>> /\ Fails
    /\ UNCHANGED <<journal, runs>>

\* Mutant: the journal is removed whether or not the cleanup worked.
CleanupFile_Always(p) ==
    /\ At(p, "c_file") /\ Go(p, Idle) /\ journal' = NoFile
    /\ UNCHANGED <<dev, route, runs>> /\ NoFault

\* The journal is removed only after a cleanup without errors.
CleanupFile(p) ==
    /\ At(p, "c_file") /\ Go(p, Idle)
    /\ \/ journal' = (IF procs[p].errors THEN journal ELSE NoFile) /\ NoFault
       \/ ~procs[p].errors /\ UNCHANGED journal /\ Fails
    /\ UNCHANGED <<dev, route, runs>>

-----------------------------------------------------------------------------

\* A journal that lacks a field or does not parse is refused, as is an absent one.
read_tun_helper_rollback_journal == journal.kind = "complete"

\* Mutant: the rollback looks for an identity of its own, not for the journal's.
StartRollback_OwnId(p) ==
    /\ At(p, "idle") /\ missing = {} /\ read_tun_helper_rollback_journal
    /\ Go(p, [Idle EXCEPT !.pc = "r_verify"])
    /\ UNCHANGED <<dev, route, journal, runs>> /\ NoFault

\* tun_helper_rollback_report: a readable journal, and the gates of an applied run.
StartRollback(p) ==
    /\ At(p, "idle") /\ missing = {} /\ read_tun_helper_rollback_journal
    /\ Go(p, [Idle EXCEPT !.pc = "r_verify", !.id = journal.id])
    /\ UNCHANGED <<dev, route, journal, runs>> /\ NoFault

\* Mutant: a device of the name is taken for the journal's.
RollbackVerify_Trusting(p) ==
    /\ At(p, "r_verify")
    /\ Go(p, [To(p, "r_route") EXCEPT !.verified = dev # NoDev])
    /\ UNCHANGED <<dev, route, journal, runs>> /\ NoFault

\* A device that is found must carry the journal's identity.
RollbackVerify(p) ==
    /\ At(p, "r_verify")
    /\ \/ command_success(p, IF dev.alias = procs[p].id THEN [To(p, "r_route") EXCEPT !.verified = TRUE] ELSE Idle,
                          To(p, "r_route"))
       \/ Go(p, Idle) /\ Fails
    /\ UNCHANGED <<dev, route, journal, runs>>

RollbackRoute(p) ==
    /\ At(p, "r_route")
    /\ \/ route # "dev" /\ Go(p, To(p, "r_dev")) /\ UNCHANGED route /\ NoFault
       \/ route = "dev" /\ ~procs[p].verified /\ Go(p, Idle) /\ UNCHANGED route /\ NoFault
       \/ route = "dev" /\ procs[p].verified /\ route' = "none" /\ Go(p, To(p, "r_dev")) /\ NoFault
       \/ Go(p, Idle) /\ UNCHANGED route /\ Fails
    /\ UNCHANGED <<dev, journal, runs>>

RollbackDevice(p) ==
    /\ At(p, "r_dev")
    /\ \/ ~procs[p].verified /\ Go(p, To(p, "r_residue")) /\ UNCHANGED <<dev, route>> /\ NoFault
       \/ procs[p].verified /\ dev # NoDev /\ DeleteDevice /\ Go(p, To(p, "r_residue")) /\ NoFault
       \/ procs[p].verified /\ dev = NoDev /\ Go(p, Idle) /\ UNCHANGED <<dev, route>> /\ NoFault
       \/ procs[p].verified /\ dev # NoDev /\ Go(p, Idle) /\ UNCHANGED <<dev, route>> /\ Fails
    /\ UNCHANGED <<journal, runs>>

\* No device is found and no route to it; then the baseline of the host is compared.
verify_linux_tun_helper_residue(p) ==
    /\ At(p, "r_residue")
    /\ \/ command_success(p, Idle, IF route # "dev" THEN To(p, "r_file") ELSE Idle)
       \/ Go(p, Idle) /\ Fails
    /\ UNCHANGED <<dev, route, journal, runs>>

RollbackFile(p) ==
    /\ At(p, "r_file") /\ Go(p, Idle)
    /\ \/ journal' = NoFile /\ NoFault
       \/ UNCHANGED journal /\ Fails
    /\ UNCHANGED <<dev, route, runs>>

Killed(p) ==
    /\ ~At(p, "idle") /\ crashes < MaxCrashes
    /\ crashes' = crashes + 1 /\ Go(p, Idle)
    /\ UNCHANGED <<dev, route, journal, runs, fails, missing>>

\* Someone else makes a device of the same name or a route to the same prefix, or
\* removes a device of the name, whoever made it, or the route they made.
Other ==
    /\ \/ dev = NoDev /\ dev' = [by |-> "other", alias |-> 0] /\ UNCHANGED route
       \/ dev # NoDev /\ DeleteDevice
       \/ route = "none" /\ route' = "other" /\ UNCHANGED dev
       \/ route = "other" /\ route' = "none" /\ UNCHANGED dev
    /\ UNCHANGED <<journal, procs, runs>> /\ NoFault

Roll(p) ==
    \/ StartRollback(p) \/ RollbackVerify(p) \/ RollbackRoute(p) \/ RollbackDevice(p)
    \/ verify_linux_tun_helper_residue(p) \/ RollbackFile(p)

Smoke(p) ==
    \/ Check(p) \/ write_tun_helper_rollback_journal(p)
    \/ AddDevice(p) \/ BindIdentity(p) \/ VerifyIdentity(p) \/ BringUp(p) \/ AddRoute(p) \/ Probe(p)
    \/ CleanupVerify(p) \/ CleanupRoute(p) \/ CleanupDevice(p) \/ CleanupFile(p)

Smoking(pc) == pc \in {"check", "journal", "add", "alias", "identity", "up", "route", "probe", "c_verify", "c_route", "c_dev", "c_file"}
RollingBack(pc) == pc \in {"r_verify", "r_route", "r_dev", "r_residue", "r_file"}

\* What the properties need to know of the past.
Remember ==
    past' = [lost |-> past.lost \cup ({dev.alias} \ {0, dev'.alias}),
             beside |-> past.beside \/ \E p, q \in Procs : Smoking(procs'[p].pc) /\ RollingBack(procs'[q].pc),
             blind |-> past.blind \/ (fails' > fails /\ \E p \in Procs : At(p, "r_residue") /\ procs'[p].pc = "r_file")]

HelperNext ==
    /\ Other \/ \E p \in Procs : StartSmoke(p) \/ Smoke(p) \/ Roll(p) \/ Killed(p)
    /\ Remember

HelperSpec == HelperInit /\ [][HelperNext]_helperVars

-----------------------------------------------------------------------------

HelperTypeOK ==
    /\ dev \in [by : {"nobody", "helper", "other"}, alias : 0 .. MaxRuns] /\ route \in {"none", "dev", "other"}
    /\ journal \in [kind : {"none", "torn", "complete"}, id : 0 .. MaxRuns]
    /\ route = "dev" => dev # NoDev
    /\ runs <= MaxRuns /\ fails <= MaxFails /\ crashes <= MaxCrashes

\* What a helper left on the host is covered by a complete journal, at every kill and
\* after every failed command.  A rollback beside a smoke run may take the journal
\* away under it; and a rollback whose looks at the device failed takes the device
\* for removed, never the route.
ResidueHasJournal ==
    /\ route = "dev" => journal.kind = "complete" \/ past.beside
    /\ dev.by = "helper" => journal.kind = "complete" \/ past.beside \/ past.blind

\* A helper removes only a device that carries the identity it wrote itself or read
\* from the journal.  It deletes by name what it verified before: it can meet
\* another device only when the one it verified was removed, or given another
\* identity by another helper, in between.
OnlyOwnDeviceRemoved ==
    [][(dev # NoDev /\ dev' = NoDev /\ procs' # procs) =>
           \E p \in Procs : procs[p].verified /\ (dev.alias = procs[p].id \/ procs[p].id \in past.lost)]_helperVars

\* A preflight whose looks worked and found no blockers means a smoke run is refused
\* only for what the preflight does not look at: the approval and the conflict check.
PreflightIsEnough ==
    preflight_blockers = {} =>
        /\ smoke_blockers \subseteq {"operator_approved", "proxy_vpn_conflict_checked"}
        /\ dev = NoDev /\ route = "none"

\* A device that carries the identity of a retained journal is removed in the
\* end, and its journal with it unless someone else has taken the name by then, or
\* the journal is lost to a rollback whose looks failed or that ran beside a smoke run.
Residue == missing = {} /\ journal.kind = "complete" /\ dev.by = "helper" /\ dev.alias = journal.id
ResidueRecovered ==
    \/ dev.by # "helper" /\ (journal.kind = "none" \/ dev.by = "other")
    \/ journal.kind = "none" /\ (past.blind \/ past.beside)

=============================================================================
