---------------------------- MODULE OfflineCutover ----------------------------
(***************************************************************************)
(* deploy/tencent/adopt-offline.sh: the one entry that retires the legacy  *)
(* release and installs the target release on the same data, with its      *)
(* journal, its archive of legacy receipts, its exit trap, and the         *)
(* troubles of the host.                                                   *)
(*                                                                         *)
(* One command runs at a time (OfflineHost).  A command that is killed     *)
(* or loses power stops between two durable steps and leaves files and     *)
(* containers as they are; the entry may be run again at any time.         *)
(***************************************************************************)
EXTENDS TargetInstall, PreMigrationAbort, LegacyRetirement

EntrySteps == {"journal", "archive", "archive_move", "archive_publish",
               "restore", "complete", "complete_publish", "forward"}

-----------------------------------------------------------------------------
(* The predictive preflight                                                *)

\* assert_target_resources_absent, the reconcile baseline, the host.
NothingOfTarget ==
    /\ ProjectEmpty /\ ~target.marker /\ ~units /\ HostIsolated
    /\ state.install = "none" /\ state.intent = "none"
    /\ ~state.active /\ ~state.installed

\* validate_resumable_target_runtime_resources
ResumableResources ==
    /\ target.box["oneoff"] # "up" /\ target.box["page"] = "gone" /\ LegacyGone
    /\ LabelsExact

\* classify_journal_bound_target_state
Classification ==
    IF tx.completion # "none" /\ tx.abort # "none" THEN "error"
    ELSE IF tx.completion = "final" THEN "completed"
    ELSE IF tx.completion = "pending" /\ ~state.installed THEN "error"
    ELSE IF tx.abort = "final"
         THEN IF NothingOfTarget THEN "needs_reactivation" ELSE "error"
    ELSE IF tx.abort = "pending" THEN "needs_reactivation"
    ELSE IF state.old THEN "error"
    ELSE IF state.installed
         THEN IF state.install = "none" /\ state.active THEN "committed" ELSE "error"
    ELSE IF state.install # "none"
         THEN IF /\ state.active => state.install \in {"proxy_started", "completed"}
                 /\ ResumableResources
              THEN "resumable" ELSE "error"
    ELSE IF ~state.active /\ ProjectEmpty /\ ~target.marker /\ ~units
         THEN "not_started" ELSE "error"

\* validate_resumable_archive_distribution: every receipt in one place.
ArchiveDistribution ==
    /\ tx.archive # "failed"
    /\ tx.archive = "final" => ~state.old
    /\ tx.archive = "none" => state.old = tx.bound.old

\* verify_backup_evidence_for_transaction_state
EvidenceForState == BackupEvidence(tx.receipt = "none" /\ ~tx.journal)

\* predictive_target_preflight; the retirement dry run is part of it with a
\* journal, too.
PreflightPasses ==
    /\ KeyPair /\ ReleaseIntact /\ EvidenceForState /\ RetireDryRun
    /\ HostIsolated
    /\ IF tx.journal
       THEN /\ tx.receipt = "final" /\ Classification # "error"
            /\ Classification # "needs_reactivation" => ArchiveDistribution
       ELSE tx.archive = "none" /\ ~units

\* run_adoption_orchestrator, with --execute.
AdoptBegins ==
    /\ holder = LockFree /\ PreflightPasses
    /\ holder' = [LockFree EXCEPT !.cmd = "adopt",
                   !.at = IF tx.journal THEN "journal" ELSE "retire",
                   !.retired = tx.journal,
                   !.needs = tx.journal /\ Classification = "needs_reactivation"]
    /\ UNCHANGED <<state, tx, legacy, target, units, schema, host, mishaps, invoked>>

-----------------------------------------------------------------------------
(* Journal and archive                                                     *)

\* verify_retirement_receipt, verify_host_isolation, write_adoption_journal;
\* then an interrupted abort is finished, or the archive is next.
WriteJournal ==
    /\ AtStep("journal")
    /\ IF ReceiptVerifies /\ HostIsolated
       THEN /\ tx' = [tx EXCEPT !.journal = TRUE]
            /\ holder' = IF holder.needs
                      THEN [holder EXCEPT !.archiving = TRUE,
                                !.at = IF tx.abort = "final" THEN "restore" ELSE "abort"]
                      ELSE [holder EXCEPT !.at = "archive"]
       ELSE Fail /\ UNCHANGED tx
    /\ UNCHANGED <<state, legacy, target, units, schema, host, mishaps, invoked>>

\* archive_legacy_receipts: checked, then made, filled and published.
ArchiveOpens ==
    /\ AtStep("archive")
    /\ IF ~ArchiveDistribution THEN Fail /\ UNCHANGED tx
       ELSE /\ holder' = [holder EXCEPT !.archiving = TRUE,
                  !.at = IF tx.archive = "final" THEN "install" ELSE "archive_move"]
            /\ tx' = [tx EXCEPT !.archive = IF @ = "none" THEN "pending" ELSE @]
    /\ UNCHANGED <<state, legacy, target, units, schema, host, mishaps, invoked>>

\* archive_one_legacy_receipt
ArchiveMoves ==
    /\ AtStep("archive_move") /\ state' = [state EXCEPT !.old = FALSE]
    /\ GoTo("archive_publish")
    /\ UNCHANGED <<tx, legacy, target, units, schema, host, mishaps, invoked>>

\* The archive is signed, then renamed.
ArchivePublishes ==
    /\ AtStep("archive_publish")
    /\ IF KeyPair THEN tx' = [tx EXCEPT !.archive = "final"] /\ GoTo("install")
       ELSE Fail /\ UNCHANGED tx
    /\ UNCHANGED <<state, legacy, target, units, schema, host, mishaps, invoked>>

-----------------------------------------------------------------------------
(* After the install, after the abort                                      *)

\* verify_host_isolation, publish_completion_receipt.
CompletionOpens ==
    /\ AtStep("complete")
    /\ IF HostIsolated /\ KeyPair /\ state.installed /\ state.active
       THEN /\ tx' = [tx EXCEPT !.completion = IF @ = "none" THEN "pending" ELSE @]
            /\ GoTo("complete_publish")
       ELSE Fail /\ UNCHANGED tx
    /\ UNCHANGED <<state, legacy, target, units, schema, host, mishaps, invoked>>

CompletionPublishes ==
    /\ AtStep("complete_publish")
    /\ tx' = [tx EXCEPT !.completion = "final"] /\ holder' = LockFree
    /\ UNCHANGED <<state, legacy, target, units, schema, host, mishaps, invoked>>

\* verify_abort_receipt.  The path of the receipt is remembered by the shell
\* that calls it: the exit trap calls it in a subshell.
VerifyAbort ==
    /\ AtStep("abort_verify")
    /\ LET seen == [holder EXCEPT !.authority = @ \/ ~holder.trap]
       IN holder' = IF NothingOfTarget THEN [seen EXCEPT !.at = "restore"]
                 ELSE Failed(seen)
    /\ UNCHANGED <<state, tx, legacy, target, units, schema, host, mishaps, invoked>>

\* restore_archived_receipts: copied back if this run began to archive.
RestoreReceipts ==
    /\ AtStep("restore")
    /\ IF holder.archiving /\ tx.archive # "none"
       THEN /\ state' = [state EXCEPT !.old = tx.bound.old]
            /\ tx' = [tx EXCEPT !.archive = IF @ = "pending" THEN "failed" ELSE @]
       ELSE UNCHANGED <<state, tx>>
    /\ GoTo("reactivate")
    /\ UNCHANGED <<legacy, target, units, schema, host, mishaps, invoked>>

\* enter_forward_fix_maintenance, best effort: units, intent, then the page
\* in place of the proxy.
ForwardFix ==
    /\ AtStep("forward") /\ holder' = LockFree
    /\ IF ~ReleaseIntact THEN UNCHANGED <<state, legacy, target, units>>
       ELSE /\ units' = TRUE
            /\ IF IntentMayBe(SettledFiles, "maintenance")
               THEN /\ state' = WriteIntent(SettledFiles, "maintenance")
                    /\ legacy' = [legacy EXCEPT !.box = Stops(@, {"proxy"})]
                    /\ \E page \in {target.box["page"], "up"} :
                         target' = [target EXCEPT !.contract = TRUE,
                             !.net = @ \/ page = "up",
                             !.box = [Stops(@, {"proxy"}) EXCEPT !["page"] = page]]
               ELSE /\ state' = SettledFiles
                    /\ target' = [target EXCEPT !.contract = TRUE]
                    /\ UNCHANGED legacy
    /\ UNCHANGED <<tx, schema, host, mishaps, invoked>>

EntryNext ==
    \/ AdoptBegins \/ WriteJournal \/ ArchiveOpens \/ ArchiveMoves
    \/ ArchivePublishes \/ CompletionOpens \/ CompletionPublishes
    \/ VerifyAbort \/ RestoreReceipts \/ ForwardFix

-----------------------------------------------------------------------------
(* Mishap                                                                *)

Mishap == mishaps < MaxMishaps /\ mishaps' = mishaps + 1

\* A tool, the daemon or the disk fails the step at hand.
CommandFails ==
    /\ Mishap /\ holder # LockFree /\ ~AtStep("forward")
    /\ IF holder.at \in InstallSteps
       THEN \E owned \in {StateOwned, holder.at # "install"} : InstallFails(owned)
       ELSE Fail /\ UNCHANGED target
    /\ UNCHANGED <<state, tx, legacy, units, schema, host, invoked>>

\* The command is killed; the containers run on.
Kill ==
    /\ Mishap /\ holder # LockFree /\ holder' = LockFree
    /\ UNCHANGED <<state, tx, legacy, target, units, schema, host, invoked>>

\* Power loss: containers with restart policy "no" stay down.
PowerLoss ==
    /\ Mishap /\ holder' = LockFree
    /\ target' = [target EXCEPT !.box = Stops(@, Business \cup {"oneoff"})]
    /\ UNCHANGED <<state, tx, legacy, units, schema, host, invoked>>

\* docker stop fails under the watchdog: only what precedes it is down, the
\* edge first; the timer tries again.
WatchdogFails ==
    /\ Mishap /\ holder = LockFree /\ units /\ LabelsExact
    /\ Selection = "active" => ~ActiveExact \/ ~ReleaseIntact
    /\ \E stopped \in {{"proxy"}, Business} :
         /\ legacy' = [legacy EXCEPT !.box = Stops(@, stopped)]
         /\ target' = [target EXCEPT !.box = Stops(@, stopped)]
    /\ UNCHANGED <<state, tx, units, schema, host, holder, invoked>>

FaultArises ==
    /\ Mishap /\ \E f \in Faults \ host : host' = host \cup {f}
    /\ UNCHANGED <<state, tx, legacy, target, units, schema, holder, invoked>>

\* A key is brought back, a foreign change undone; signed evidence that has
\* expired or changed files stay so.
FaultClears ==
    /\ \E f \in host \cap {"key", "foreign", "service", "port", "edge", "stray"} :
         host' = host \ {f}
    /\ UNCHANGED <<state, tx, legacy, target, units, schema, holder, mishaps, invoked>>

\* The legacy stack is recreated between its plan and the cut-over.
RecreateLegacy ==
    /\ Mishap /\ holder = LockFree /\ tx.receipt = "none" /\ legacy.gen = 1
    /\ legacy' = [legacy EXCEPT !.gen = 2]
    /\ UNCHANGED <<state, tx, target, units, schema, host, holder, invoked>>

MishapNext ==
    \/ CommandFails \/ Kill \/ PowerLoss \/ WatchdogFails \/ FaultArises \/ FaultClears
    \/ RecreateLegacy

-----------------------------------------------------------------------------
CommandNext == EntryNext \/ RetireNext \/ InstallNext \/ AbortNext \/ ReactivateNext

CutoverNext == CommandNext \/ ReconcileNext \/ MishapNext

\* A command goes on until it ends; the timer reconciles every five seconds.
CutoverFairness ==
    /\ WF_hostVars(holder # LockFree /\ CommandNext)
    /\ WF_hostVars(ReconcileIntent)

CutoverSpec == HostInit /\ [][CutoverNext]_hostVars /\ CutoverFairness

-----------------------------------------------------------------------------
(* Properties                                                              *)

\* Every file, container and step stays in its range.
CutoverTypeOK ==
    /\ HostTypeOK
    /\ holder.at \in EntrySteps \cup RetireSteps \cup InstallSteps \cup AbortSteps
                    \cup ReactivateSteps \cup {"none"}

\* Whatever is interrupted, failed, repeated or run by hand: one PostgreSQL at
\* a time opens the data, the target only after the migration is announced,
\* the legacy release never again afterwards (adopt-offline.sh, install,
\* abort and reactivate together implement DataHandover).
DataUsers ==
    {stack \in {"legacy", "target"} :
        (IF stack = "legacy" THEN legacy.box ELSE target.box)["postgres"] = "up"}

Handover == INSTANCE DataHandover WITH LegacyStack <- "legacy",
                TargetStack <- "target", users <- DataUsers, announced <- invoked

HandoverRefined == Handover!DataSpec

\* An API only ever runs on the schema of its own release, and never both
\* (start order of reactivate, phases of the install, the reconciler).
WritersMatchSchema ==
    /\ legacy.box["api"] = "up" => schema = "source" /\ target.box["api"] # "up"
    /\ target.box["api"] = "up" => schema = "target"

\* One proxy at a time is behind the public ports: the legacy one, the target
\* one or the maintenance page, through traps, watchdog and forward fix.
EdgeServedOnce ==
    /\ legacy.box["proxy"] = "up" => {"proxy", "page"} \cap TargetUp = {}
    /\ holder = LockFree => ~({"proxy", "page"} \subseteq TargetUp)

\* One stack serves: its API on its own schema and its proxy alone at the edge,
\* through install, trap, reactivation, watchdog and forward fix.
OneStackServes == CutoverTypeOK /\ WritersMatchSchema /\ EdgeServedOnce

\* No legacy container or network goes before a signed intent names it, and
\* none is missing outside the retirement and what follows it.
LegacyRemovedByReceipt ==
    /\ (\E s \in LegacyServices : legacy.box[s] = "gone") \/ ~legacy.net
           => tx.receipt # "none"
    /\ tx.receipt = "intent" => tx.abort = "none" /\ ~tx.journal /\ TargetBoxes = {}

\* Once the migration is announced the record says so for good, over crashes
\* and re-runs of the install: in the phase, live or archived, or as the
\* installed receipt.
BoundaryStaysClosed ==
    invoked => \/ state.install \in ClosedPhases \/ state.installed
               \/ tx.phase \in ClosedPhases

\* A published abort means an untouched database and nothing of the target
\* left but what the forward fix puts there, as long as the state directory
\* shows no install: one that is started by hand afterwards, which nothing
\* refuses, has its record there before it touches anything.
AbortMeansUntouched ==
    (tx.abort = "final" /\ state.install = "none" /\ ~state.installed) =>
        /\ ~invoked /\ schema = "source" /\ ~state.active
        /\ TargetBoxes \subseteq {"page"} /\ ~target.marker

\* The legacy release runs only on this side of the boundary: from the record
\* of an install on, by the entry or by hand, before or after an abort, none of
\* its containers comes back.
InstallMeansRetired ==
    state.install # "none" \/ state.installed => LegacyGone /\ tx.receipt = "final"

\* The boundary to the migration (install-in-progress.json, the abort worker)
\* is crossed once and on record for good; what an abort or an install has
\* published about it is so.
BoundarySound == BoundaryStaysClosed /\ AbortMeansUntouched /\ InstallMeansRetired

\* A completion is published over a committed, installed release only, with
\* the legacy receipts archived; it never meets a published abort.
CompletionMeansCommitted ==
    tx.completion # "none" =>
        /\ state.installed /\ state.active /\ tx.archive = "final"
        /\ tx.receipt = "final" /\ tx.abort # "final" /\ LegacyGone

\* The watchdog never runs without the contract it recovers from.
WatchdogHasContract == units => target.contract

\* A cut-over interrupted before the target install has written anything is
\* accepted again, also with evidence that has expired meanwhile: unless
\* legacy receipts are live beside the journal, or IDs differ from the plan.
ResumesBeforeInstall ==
    (/\ holder = LockFree /\ host \subseteq {"stale", "port", "edge"}
     /\ tx.receipt # "none" /\ tx.ids = Planned /\ tx.abort = "none"
     /\ state = tx.bound /\ ~units /\ ~(tx.journal /\ state.old))
    => PreflightPasses

\* What a durable record says is so, after any crash and re-run: the signed
\* retirement, the completion receipt, the watchdog's contract, and the
\* transaction an interrupted entry is resumed from.
RecordsTrue ==
    /\ LegacyRemovedByReceipt /\ CompletionMeansCommitted
    /\ WatchdogHasContract /\ ResumesBeforeInstall

\* The trap of a cut-over that failed before the migration, with its abort
\* verified and nothing else wrong, brings the legacy release back:
\* deploy/tencent/README.md says that reactivate then runs.
TrapReactivates ==
    (holder.trap /\ AtStep("reactivate") /\ host = {} /\ mishaps = MaxMishaps)
        ~> (\A s \in LegacyServices : legacy.box[s] = "up")

\* A command ends, the exit trap included, however its steps fail.
CommandsEnd == (holder # LockFree) ~> (holder = LockFree)

\* An uncommitted cut-over does not stay open to users when its command is
\* gone: the watchdog closes it, unless a new command takes over or a container
\* of the project does not validate.
UncommittedCloses ==
    (holder = LockFree /\ units /\ Selection = "intent" /\ target.box["proxy"] = "up")
        ~> \/ target.box["proxy"] # "up" \/ holder # LockFree \/ Selection # "intent"
           \/ ~LabelsExact

\* The exit trap, when nothing else goes wrong, ends with the whole legacy
\* release back or closed to users, for the watchdog to keep closed: also when
\* abort, restore or reactivation fails in turn.  Without the signing key it
\* exits closed and leaves no watchdog.
TrapEndsClosed ==
    (holder.trap /\ mishaps = MaxMishaps /\ ReleaseIntact) ~>
        /\ holder = LockFree
        /\ \/ \A s \in LegacyServices : legacy.box[s] = "up"
           \/ /\ "up" \notin {legacy.box["proxy"], target.box["proxy"]}
              /\ (units /\ Selection = "intent") \/ ~KeyPair

=============================================================================
