----------------------------- MODULE OfflineHost -----------------------------
(***************************************************************************)
(* The offline host during the cut-over from the legacy release to the     *)
(* target release: the files of the state directory, the directory of the  *)
(* adoption transaction, the containers of the one Compose project that    *)
(* both releases use, and the reconcile units.  The commands of            *)
(* TargetInstall, PreMigrationAbort, LegacyRetirement and OfflineCutover   *)
(* work on this state, one command at a time.  The shell entries and the   *)
(* abort worker hold the project lock; retire and reactivate take none of  *)
(* their own (the entry that runs them holds it), so for the two run by    *)
(* hand this is an assumption on the operator.                             *)
(*                                                                         *)
(* The operations on the control files are those of                        *)
(* deploy/tencent/offline-recovery-state.py.                               *)
(***************************************************************************)
EXTENDS Naturals, Sequences, FiniteSets

CONSTANT MaxMishaps     \* crashes, failures and faults of the host

ASSUME MishapAssumption == MaxMishaps \in Nat

VARIABLES state,    \* control files of the state directory
          tx,       \* the adoption transaction and the retirement receipt
          legacy,   \* legacy containers of the project
          target,   \* target containers, network, owner marker, contract
          units,    \* the reconcile timer is installed and enabled
          schema,   \* head of the database schema
          host,     \* faults of the host that checks can see
          holder,   \* the command that runs, as a rule under the project lock
          mishaps,  \* mishaps so far
          invoked   \* history: the migration command was announced

hostVars == <<state, tx, legacy, target, units, schema, host, holder, mishaps,
              invoked>>

-----------------------------------------------------------------------------
OpenPhases == {"prepared", "preflight_passed"}
ClosedPhases == {"migration_invoked", "migrated", "bootstrapped", "core_ready",
                 "proxy_started", "completed"}
Phases == OpenPhases \cup ClosedPhases

LegacyOrder == <<"postgres", "api", "proxy">>
LegacyServices == {LegacyOrder[i] : i \in DOMAIN LegacyOrder}
TargetServices == {"oneoff", "postgres", "api", "proxy", "page"}
Boxes == {"up", "down", "gone"}

\* "stale": the signed evidence has expired; "artifact", "manifest", "control":
\* a backup, the control-state manifest or the control-state archive it signs
\* has changed; "release": the materialized release has changed; "key": the
\* short-lived signing key is gone; "foreign", "service": a container of
\* another project or a protected host service differs from the isolation
\* baseline; "port": a foreign listener on the edge; "edge": the proxy does
\* not answer with the legacy CA; "stray": a stopped one-off container that
\* names the project and does not carry the labels of its owner.
Faults == {"stale", "artifact", "manifest", "control", "release",
           "key", "foreign", "service", "port", "edge", "stray"}

LockFree == [cmd |-> "none", at |-> "none", trap |-> FALSE, retired |-> FALSE,
         archiving |-> FALSE, needs |-> FALSE, authority |-> FALSE]

NoRelease(old) == [install |-> "none", active |-> FALSE, intent |-> "none",
                   same |-> FALSE, installed |-> FALSE, old |-> old]

HostTypeOK ==
    /\ state \in [install : Phases \cup {"none"}, active : BOOLEAN,
                  intent : {"none", "install", "maintenance"}, same : BOOLEAN,
                  installed : BOOLEAN, old : BOOLEAN]
    /\ tx.receipt \in {"none", "intent", "final"} /\ tx.ids \in 0 .. 2
    /\ tx.archive \in {"none", "pending", "final", "failed"}
    /\ tx.abort \in {"none", "pending", "final"}
    /\ tx.kept \subseteq {"state", "intent", "units"}
    /\ tx.phase \in Phases \cup {"none"}
    /\ tx.completion \in {"none", "pending", "final"} /\ tx.journal \in BOOLEAN
    /\ legacy.box \in [LegacyServices -> Boxes] /\ legacy.net \in BOOLEAN
    /\ legacy.gen \in 1 .. 2
    /\ target.box \in [TargetServices -> Boxes]
    /\ {target.net, target.marker, target.contract} \subseteq BOOLEAN
    /\ units \in BOOLEAN /\ schema \in {"source", "target"}
    /\ host \subseteq Faults /\ invoked \in BOOLEAN
    /\ mishaps \in 0 .. MaxMishaps

\* The evidence is signed and the legacy release serves; it may have left an
\* installed receipt of its own in the state directory.
HostInit ==
    /\ \E old \in BOOLEAN : state = NoRelease(old)
    /\ tx = [receipt |-> "none", ids |-> 0, bound |-> NoRelease(FALSE),
             journal |-> FALSE, archive |-> "none", abort |-> "none",
             kept |-> {}, phase |-> "none", completion |-> "none"]
    /\ legacy = [box |-> [s \in LegacyServices |-> "up"], net |-> TRUE, gen |-> 1]
    /\ target = [box |-> [s \in TargetServices |-> "gone"],
                 net |-> FALSE, marker |-> FALSE, contract |-> FALSE]
    /\ units = FALSE /\ schema = "source" /\ host = {}
    /\ holder = LockFree /\ mishaps = 0 /\ invoked = FALSE

-----------------------------------------------------------------------------
(* The command that runs.                                                  *)

AtStep(step) == holder.at = step
GoTo(step) == holder' = [holder EXCEPT !.at = step]
Stops(box, services) ==
    [s \in DOMAIN box |-> IF s \in services /\ box[s] = "up" THEN "down" ELSE box[s]]

\* A failed command: a worker started by hand just ends; the adoption entry
\* runs its exit trap once the legacy release is retired, and gives up into
\* maintenance when the trap itself fails (handle_transaction_failure).
Failed(j) ==
    IF j.cmd # "adopt" \/ ~j.retired \/ tx.completion = "final" THEN LockFree
    ELSE IF j.trap THEN [j EXCEPT !.at = "forward"]
    ELSE [j EXCEPT !.at = "abort", !.trap = TRUE]
Fail == holder' = Failed(holder)

-----------------------------------------------------------------------------
(* What commands look at.                                                  *)

LegacyGone == (\A s \in LegacyServices : legacy.box[s] = "gone") /\ ~legacy.net
TargetBoxes == {s \in TargetServices : target.box[s] # "gone"}
TargetUp == {s \in TargetServices : target.box[s] = "up"}

\* Every container that names the project validates: the first thing that
\* each listing of the project by label looks at.
LabelsExact == "stray" \notin host

\* docker ps and network ls by the label of the Compose project.
ProjectEmpty == LegacyGone /\ TargetBoxes = {} /\ ~target.net /\ LabelsExact

\* The evidence verifier.  A new cut-over needs current evidence, a durable
\* transaction only that the signed artifacts are unchanged.
ArtifactsUnchanged == "artifact" \notin host
ControlManifestValid == "manifest" \notin host
ControlArchiveBound == "control" \notin host
BackupDocumentSigned ==
    ArtifactsUnchanged /\ ControlManifestValid /\ ControlArchiveBound
BackupEvidenceCurrent == "stale" \notin host
BackupEvidence(current) ==
    BackupDocumentSigned /\ (current => BackupEvidenceCurrent)

KeyPair == "key" \notin host

\* host_isolation_guard.py: nothing of other tenants has changed.
ContainersAsBaseline == "foreign" \notin host
ServicesAsBaseline == "service" \notin host
HostIsolated == ContainersAsBaseline /\ ServicesAsBaseline

\* verify_materialized_release, against the staged contract.
ReleaseIntact == "release" \notin host

-----------------------------------------------------------------------------
(* offline-recovery-state.py                                               *)

\* _validate_intent, _validate_active: the documents are read and bound to
\* their contract before anything relies on them.
IntentOnRecord == state.intent # "none"
ActiveOnRecord == state.active

\* _active_commits_intent
ActiveCommitsIntent == ActiveOnRecord /\ state.same

\* select_state
Selection ==
    IF IntentOnRecord /\ ~ActiveCommitsIntent THEN "intent"
    ELSE IF ActiveOnRecord THEN "active" ELSE "invalid"

\* write_intent: a fresh transaction, or the same operation again.
IntentMayBe(files, operation) == files.intent \in {"none", operation}
WriteIntent(files, operation) ==
    IF files.intent = "none"
    THEN [files EXCEPT !.intent = operation, !.same = FALSE] ELSE files

\* write_active: commits the transaction of the current intent.
WriteActive(files) == [files EXCEPT !.active = TRUE, !.same = TRUE]

\* clear_intent: only when the active release committed it.
ClearIntent(files) == [files EXCEPT !.intent = "none", !.same = FALSE]

\* abort_install_intent: out of the state directory, into the archive.
AbortInstallIntent(files) == [files EXCEPT !.intent = "none"]
=============================================================================
