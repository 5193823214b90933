-------------------------- MODULE PreMigrationAbort --------------------------
(***************************************************************************)
(* deploy/tencent/offline-pre-migration-abort.py: taking back a target     *)
(* install that has not reached the migration, so that the legacy release  *)
(* may be started again.  The adoption entry calls it under the project    *)
(* lock, first as a dry run, then for real; a crash leaves the pending     *)
(* directory and the next call continues.                                  *)
(***************************************************************************)
EXTENDS OfflineHost

AbortSteps == {"abort", "abort_units", "abort_containers", "abort_marker",
               "abort_host", "abort_state", "abort_intent", "abort_publish",
               "abort_verify"}

\* _read_install_state: the live file, or the one already archived.
ReadInstallState == IF "state" \in tx.kept THEN tx.phase ELSE state.install

\* _read_cutover_transaction: live or archived; it must be of an install.
ReadCutover == IF "intent" \in tx.kept THEN "install" ELSE state.intent

\* Every check of the dry run: no release committed, a phase before the
\* migration, an intent that belongs to it, no network and no container but
\* the preflight one-offs.
PhaseOpen == ReadInstallState \in OpenPhases \cup {"none"}
NoReceipts == ~state.active /\ ~state.installed /\ ~state.old
CutoverBelongs ==
    /\ ReadCutover \in {"none", "install"}
    /\ ReadInstallState = "none" => ReadCutover = "none"
    /\ ReadInstallState = "preflight_passed" => ReadCutover = "install"
\* What has been archived is no longer live.
NothingTwice ==
    /\ "state" \in tx.kept => state.install = "none"
    /\ "intent" \in tx.kept => state.intent = "none"
    /\ "units" \in tx.kept => ~units
NoNetwork == ~target.net /\ ~legacy.net
OnlyPreflight == TargetBoxes \subseteq {"oneoff"} /\ LegacyGone /\ LabelsExact

\* Mutant of BoundaryOpen: the phase on record is not looked at.
SlipAnyPhase ==
    /\ NoReceipts /\ ReadCutover \in {"none", "install"} /\ NothingTwice
    /\ NoNetwork /\ OnlyPreflight

\* The boundary to the migration is open.
BoundaryOpen ==
    /\ NoReceipts /\ PhaseOpen /\ CutoverBelongs /\ NothingTwice
    /\ NoNetwork /\ OnlyPreflight

\* _project_resource_counts
CountsZero == ProjectEmpty /\ ~target.marker

\* _validate_evidence_trust_root
EvidenceTrustRoot == KeyPair

\* validate_journal
JournalVerifies == tx.journal

\* _validate_published_receipt: signed, of an open phase, with its archives.
ReceiptPublished == tx.abort = "final" /\ tx.phase \in OpenPhases \cup {"none"}

\* _validate_inert_recovery_assets: units of this very release.
InertAssets == ReadCutover # "none" => ReleaseIntact

\* The worker ends; the adoption entry verifies the receipt itself.
AbortDone == holder' = IF holder.cmd = "adopt" THEN [holder EXCEPT !.at = "abort_verify"]
                    ELSE LockFree

-----------------------------------------------------------------------------
\* A published receipt is validated, otherwise the pending directory is made
\* (or found).  The adoption entry asks with a dry run first; the worker by
\* itself makes the directory before it looks at the boundary.
AbortBegins ==
    /\ AtStep("abort")
    /\ IF ~(EvidenceTrustRoot /\ JournalVerifies) THEN Fail /\ UNCHANGED tx
       ELSE IF ReceiptPublished THEN AbortDone /\ UNCHANGED tx
       ELSE IF BoundaryOpen /\ InertAssets
            THEN tx' = [tx EXCEPT !.abort = "pending"] /\ GoTo("abort_units")
       ELSE /\ Fail
            /\ tx' = IF holder.cmd = "adopt" THEN tx
                     ELSE [tx EXCEPT !.abort = "pending"]
    /\ UNCHANGED <<state, legacy, target, units, schema, host, mishaps, invoked>>

\* _restore_reconcile_baseline: the watchdog goes first.
AbortArchivesUnits ==
    /\ AtStep("abort_units") /\ units' = FALSE
    /\ tx' = [tx EXCEPT !.kept = IF units THEN @ \cup {"units"} ELSE @]
    /\ GoTo("abort_containers")
    /\ UNCHANGED <<state, legacy, target, schema, host, mishaps, invoked>>

\* _remove_preflight_containers
AbortRemovesContainers ==
    /\ AtStep("abort_containers")
    /\ target' = [target EXCEPT !.box["oneoff"] = "gone"]
    /\ GoTo("abort_marker")
    /\ UNCHANGED <<state, tx, legacy, units, schema, host, mishaps, invoked>>

\* _remove_owner_marker
AbortRemovesMarker ==
    /\ AtStep("abort_marker")
    /\ target' = [target EXCEPT !.marker = FALSE]
    /\ GoTo("abort_host")
    /\ UNCHANGED <<state, tx, legacy, units, schema, host, mishaps, invoked>>

\* Nothing of the project remains, and the host is as it was.
AbortVerifiesHost ==
    /\ AtStep("abort_host")
    /\ IF CountsZero /\ HostIsolated THEN GoTo("abort_state") ELSE Fail
    /\ UNCHANGED <<state, tx, legacy, target, units, schema, host, mishaps, invoked>>

\* _archive_install_state
AbortArchivesState ==
    /\ AtStep("abort_state")
    /\ IF state.install # "none"
       THEN /\ tx' = [tx EXCEPT !.kept = @ \cup {"state"}, !.phase = state.install]
            /\ state' = [state EXCEPT !.install = "none"]
       ELSE UNCHANGED <<tx, state>>
    /\ GoTo("abort_intent")
    /\ UNCHANGED <<legacy, target, units, schema, host, mishaps, invoked>>

\* _archive_cutover_intent, through abort_install_intent
AbortArchivesIntent ==
    /\ AtStep("abort_intent")
    /\ IF state.intent # "none"
       THEN /\ tx' = [tx EXCEPT !.kept = @ \cup {"intent"}]
            /\ state' = AbortInstallIntent(state)
       ELSE UNCHANGED <<tx, state>>
    /\ GoTo("abort_publish")
    /\ UNCHANGED <<legacy, target, units, schema, host, mishaps, invoked>>

\* _publish_receipt: no live state or intent; signed, then renamed.
AbortPublishes ==
    /\ AtStep("abort_publish")
    /\ IF state.install = "none" /\ state.intent = "none" /\ KeyPair
       THEN tx' = [tx EXCEPT !.abort = "final"] /\ AbortDone
       ELSE Fail /\ UNCHANGED tx
    /\ UNCHANGED <<state, legacy, target, units, schema, host, mishaps, invoked>>

\* main: the operator runs the worker with --execute.
AbortByHand ==
    /\ holder = LockFree /\ tx.journal
    /\ holder' = [LockFree EXCEPT !.cmd = "abort", !.at = "abort"]
    /\ UNCHANGED <<state, tx, legacy, target, units, schema, host, mishaps, invoked>>

AbortNext ==
    \/ AbortBegins \/ AbortArchivesUnits \/ AbortRemovesContainers
    \/ AbortRemovesMarker \/ AbortVerifiesHost \/ AbortArchivesState
    \/ AbortArchivesIntent \/ AbortPublishes \/ AbortByHand
=============================================================================
