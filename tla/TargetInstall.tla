---------------------------- MODULE TargetInstall ----------------------------
(***************************************************************************)
(* deploy/tencent/install-offline.sh in adoption mode, and the reconciler  *)
(* that the timer starts (offline-recovery-dispatcher.sh with              *)
(* reconcile-offline.sh).                                                  *)
(*                                                                         *)
(* The install keeps its phase in install-in-progress.json and can be      *)
(* re-run after a crash.  The reconciler runs only when nobody holds the   *)
(* project lock; it keeps an uncommitted cut-over closed behind the        *)
(* maintenance page and a committed release running.                       *)
(***************************************************************************)
EXTENDS OfflineHost

\* Services with restart policy "no": the business and its one-offs.  The
\* data services and the maintenance page come back with the Docker daemon.
Business == {"api", "proxy"}

InstallSteps == {"install", "contract", "units", "intent", "preflight", "passed", "invoke",
                 "migrate", "upgrade", "migrated", "bootstrapped", "core", "core_ready",
                 "proxy", "proxy_started", "commit", "completed", "publish",
                 "clear"}

\* The install or adoption command, when it is done with the install.
Installed ==
    holder' = IF holder.cmd = "adopt" THEN [holder EXCEPT !.at = "complete"] ELSE LockFree

\* handle_exit: a failed install stops the business services it owns.
InstallFails(owned) ==
    /\ target' = [target EXCEPT !.box = IF owned THEN Stops(@, Business) ELSE @]
    /\ Fail

\* install_state_owned: from the first record of this run, or once the record
\* of an interrupted one is found to be of this contract.
StateOwned == holder.at # "install" \/ (state.install # "none" /\ ~state.installed /\ ~state.old)

-----------------------------------------------------------------------------
(* Entry                                                                   *)

\* verify_completed_install_handoff and validate_installed_receipt.
HandoffVerified ==
    /\ state.install = "none" /\ Selection = "active"
    /\ Business \subseteq TargetUp /\ LabelsExact

\* remove_stopped_resume_oneoffs, then validate_resume_resources: services of
\* the release only; the maintenance page is not one of them.
ResumeResources ==
    target.box["oneoff"] # "up" /\ target.box["page"] = "gone" /\ LabelsExact

\* A completed install is verified, an interrupted one resumed with its
\* writers stopped, a new one starts on an empty project.
InstallBegins ==
    /\ AtStep("install")
    /\ \/ /\ state.installed /\ HandoffVerified /\ ~state.old
          /\ state' = ClearIntent(state)
          /\ Installed /\ UNCHANGED target
       \/ /\ ~state.installed /\ ~state.old /\ state.install # "none"
          /\ ResumeResources
          /\ target' = [target EXCEPT !.box =
                            [Stops(@, Business) EXCEPT !["oneoff"] = "gone"]]
          /\ GoTo("contract") /\ UNCHANGED state
       \/ /\ ~state.installed /\ ~state.old /\ state.install = "none"
          /\ ProjectEmpty
          /\ state' = [state EXCEPT !.install = "prepared"]
          /\ GoTo("contract") /\ UNCHANGED target
       \/ /\ \/ state.old
             \/ state.installed /\ ~HandoffVerified
             \/ ~state.installed /\ state.install # "none" /\ ~ResumeResources
             \/ ~state.installed /\ state.install = "none" /\ ~ProjectEmpty
          /\ InstallFails(StateOwned) /\ UNCHANGED state
    /\ UNCHANGED <<tx, legacy, units, schema, host, mishaps, invoked>>

\* offline_begin_cutover: first the contract the watchdog works from ...
InstallPersistsContract ==
    /\ AtStep("contract")
    /\ target' = [target EXCEPT !.contract = TRUE] /\ GoTo("units")
    /\ UNCHANGED <<state, tx, legacy, units, schema, host, mishaps, invoked>>

\* ... and the reconcile units ...
InstallPlacesUnits ==
    /\ AtStep("units") /\ units' = TRUE /\ GoTo("intent")
    /\ UNCHANGED <<state, tx, legacy, target, schema, host, mishaps, invoked>>

\* ... then the intent, after a committed one has been cleared.
SettledFiles ==
    IF Selection = "active" /\ state.intent # "none" THEN ClearIntent(state)
    ELSE state

InstallPublishesIntent ==
    /\ AtStep("intent")
    /\ IF IntentMayBe(SettledFiles, "install")
       THEN /\ state' = WriteIntent(SettledFiles, "install")
            /\ GoTo("preflight") /\ UNCHANGED target
       ELSE InstallFails(TRUE) /\ state' = SettledFiles
    /\ UNCHANGED <<tx, legacy, units, schema, host, mishaps, invoked>>

-----------------------------------------------------------------------------
(* Up to the migration boundary                                            *)

\* Mutant of InstallPreflights: the preflight starts the database, too.
SlipOpensData ==
    /\ AtStep("preflight")
    /\ target' = [target EXCEPT !.box["oneoff"] = "up", !.box["postgres"] = "up"]
    /\ GoTo("passed")
    /\ UNCHANGED <<state, tx, legacy, units, schema, host, mishaps, invoked>>

\* preflight-offline.sh: the inventory of the project, one-off containers and
\* the owner marker.
InstallPreflights ==
    /\ AtStep("preflight")
    /\ IF LabelsExact
       THEN /\ target' = [target EXCEPT !.box["oneoff"] = "up", !.marker = TRUE]
            /\ GoTo("passed")
       ELSE InstallFails(TRUE)
    /\ UNCHANGED <<state, tx, legacy, units, schema, host, mishaps, invoked>>

\* The phase is recorded unless the migration was invoked earlier.
InstallPassesPreflight ==
    /\ AtStep("passed")
    /\ target' = [target EXCEPT !.box["oneoff"] = "gone"]
    /\ state' = IF state.install \in OpenPhases
                THEN [state EXCEPT !.install = "preflight_passed"] ELSE state
    /\ GoTo("invoke")
    /\ UNCHANGED <<tx, legacy, units, schema, host, mishaps, invoked>>

\* The irreversible boundary: recorded before the migration is started.
InstallInvokesMigration ==
    /\ AtStep("invoke")
    /\ state' = [state EXCEPT !.install = "migration_invoked"]
    /\ invoked' = TRUE
    /\ GoTo("migrate")
    /\ UNCHANGED <<tx, legacy, target, units, schema, host, mishaps>>

\* compose run migrate: brings up the data services it depends on ...
InstallOpensData ==
    /\ AtStep("migrate")
    /\ target' = [target EXCEPT !.box["postgres"] = "up", !.net = TRUE]
    /\ GoTo("upgrade")
    /\ UNCHANGED <<state, tx, legacy, units, schema, host, mishaps, invoked>>

\* Mutant of InstallMigrates: a migration that ended without an upgrade is
\* taken for done.
SlipUnmigrated ==
    /\ AtStep("upgrade") /\ GoTo("migrated")
    /\ UNCHANGED <<state, tx, legacy, target, units, schema, host, mishaps, invoked>>

\* ... and upgrades the schema.
InstallMigrates ==
    /\ AtStep("upgrade") /\ schema' = "target" /\ GoTo("migrated")
    /\ UNCHANGED <<state, tx, legacy, target, units, host, mishaps, invoked>>

-----------------------------------------------------------------------------
(* From the boundary to the commit                                         *)

AfterRecord == [migrated |-> "bootstrapped", bootstrapped |-> "core",
                core_ready |-> "proxy", proxy_started |-> "commit",
                completed |-> "publish"]

\* write_install_state
InstallRecords ==
    /\ holder.at \in DOMAIN AfterRecord
    /\ state' = [state EXCEPT !.install = holder.at]
    /\ GoTo(AfterRecord[holder.at])
    /\ UNCHANGED <<tx, legacy, target, units, schema, host, mishaps, invoked>>

InstallStartsCore ==
    /\ AtStep("core") /\ target' = [target EXCEPT !.box["api"] = "up"]
    /\ GoTo("core_ready")
    /\ UNCHANGED <<state, tx, legacy, units, schema, host, mishaps, invoked>>

InstallStartsProxy ==
    /\ AtStep("proxy") /\ target' = [target EXCEPT !.box["proxy"] = "up"]
    /\ GoTo("proxy_started")
    /\ UNCHANGED <<state, tx, legacy, units, schema, host, mishaps, invoked>>

\* Readiness, then offline_commit_active_release: the commit point.
InstallCommits ==
    /\ AtStep("commit")
    /\ state' = WriteActive(state) /\ GoTo("completed")
    /\ UNCHANGED <<tx, legacy, target, units, schema, host, mishaps, invoked>>

\* install-in-progress.json is renamed to the installed receipt.
InstallPublishes ==
    /\ AtStep("publish")
    /\ state' = [state EXCEPT !.install = "none", !.installed = TRUE]
    /\ GoTo("clear")
    /\ UNCHANGED <<tx, legacy, target, units, schema, host, mishaps, invoked>>

InstallClearsIntent ==
    /\ AtStep("clear") /\ state' = ClearIntent(state) /\ Installed
    /\ UNCHANGED <<tx, legacy, target, units, schema, host, mishaps, invoked>>

\* The operator runs the install worker with the journal of the transaction.
\* It resumes an interrupted install, and starts one on an empty project: an
\* abort of the transaction, published or pending, is nothing it looks at.
InstallByHand ==
    /\ holder = LockFree /\ tx.journal
    /\ holder' = [LockFree EXCEPT !.cmd = "install", !.at = "install"]
    /\ UNCHANGED <<state, tx, legacy, target, units, schema, host, mishaps, invoked>>

InstallNext ==
    \/ InstallBegins \/ InstallPersistsContract \/ InstallPlacesUnits \/ InstallPublishesIntent
    \/ InstallPreflights \/ InstallPassesPreflight \/ InstallInvokesMigration
    \/ InstallOpensData \/ InstallMigrates \/ InstallRecords \/ InstallStartsCore
    \/ InstallStartsProxy \/ InstallCommits \/ InstallPublishes
    \/ InstallClearsIntent \/ InstallByHand

-----------------------------------------------------------------------------
(* The reconciler                                                          *)

\* fail_closed_project: business services of the project, by label, the edge
\* first.  Every candidate is validated before the first one is stopped: with
\* one that does not validate nothing is (exit 71), and the timer tries again.
Closed(box) == Stops(box, Business \cup {"oneoff"})


\* An uncommitted cut-over: closed, whatever state the release is in; then,
\* with the contract and an intact release, the maintenance page.
ReconcileIntent ==
    /\ holder = LockFree /\ units /\ Selection = "intent" /\ LabelsExact
    /\ legacy' = [legacy EXCEPT !.box = Closed(@)]
    /\ \/ target' = [target EXCEPT !.box = Closed(@)]
       \/ /\ target.contract /\ ReleaseIntact
          /\ target' = [target EXCEPT
                 !.box = [Closed(@) EXCEPT !["page"] = "up"], !.net = TRUE]
    /\ UNCHANGED <<state, tx, units, schema, host, holder, mishaps, invoked>>

\* No valid receipt: closed.
ReconcileInvalid ==
    /\ holder = LockFree /\ units /\ Selection = "invalid" /\ LabelsExact
    /\ legacy' = [legacy EXCEPT !.box = Closed(@)]
    /\ target' = [target EXCEPT !.box = Closed(@)]
    /\ UNCHANGED <<state, tx, units, schema, host, holder, mishaps, invoked>>

\* verify-offline-project-inventory.py: every service runs with the state,
\* the limits, the ports and the labels of its contract, on its network, and
\* there is nothing else, such as the page.
ContainerExact(s) == target.box[s] = "up"
NetworkExact == target.net
ActiveExact ==
    /\ NetworkExact /\ target.box["page"] = "gone" /\ LabelsExact
    /\ \A s \in Business \cup {"postgres"} : ContainerExact(s)

\* A committed release: when it runs exactly, a left-over committed intent
\* is cleared; otherwise it is repaired, or isolated when that fails.
ReconcileActive ==
    /\ holder = LockFree /\ units /\ Selection = "active"
    /\ \/ /\ ActiveExact /\ ReleaseIntact
          /\ state' = (IF state.intent # "none" THEN ClearIntent(state) ELSE state)
          /\ UNCHANGED target
       \/ /\ ~ActiveExact /\ ReleaseIntact
          /\ target' = [target EXCEPT !.net = TRUE, !.box =
                 [s \in TargetServices |-> CASE s = "page" -> "gone"
                                            [] s = "oneoff" -> target.box[s]
                                            [] OTHER -> "up"]]
          /\ UNCHANGED state
       \/ /\ ~ActiveExact \/ ~ReleaseIntact
          /\ LabelsExact
          /\ target' = [target EXCEPT !.box = Closed(@)]
          /\ UNCHANGED state
    /\ UNCHANGED <<tx, legacy, units, schema, host, holder, mishaps, invoked>>

ReconcileNext == ReconcileIntent \/ ReconcileInvalid \/ ReconcileActive
=============================================================================
