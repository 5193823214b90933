--------------------------- MODULE LegacyAdoption ---------------------------
(***************************************************************************)
(* The evidence half of scripts/legacy_offline_adoption.py: plan, prepare  *)
(* and finalize, composed with the offline CA host.                        *)
(*                                                                         *)
(* The operator plans against the live legacy stack, prepares (which stops *)
(* every writer, takes the database and object backups and the CA escrow,  *)
(* and must bring the stack back), carries the challenge to the offline    *)
(* host, and finalizes (which restores the backup into scratch containers  *)
(* and signs the evidence a retirement needs).  The script takes no lock,  *)
(* so any of its commands may overlap.  Between any two of their steps one *)
(* may be killed, the machine may crash, the clock may pass a deadline, a  *)
(* file may be damaged, a newer release may be authorised, or somebody may *)
(* recreate or change the legacy stack.                                    *)
(*                                                                         *)
(* A command whose check fails changes nothing, so a refused command is an *)
(* action that is not enabled.                                             *)
(***************************************************************************)
EXTENDS CaRestoreDrill, FiniteSets

CONSTANTS Commands,     \* processes of the script, each run again and again
          MaxTrouble,   \* crashes, failures, changes and expiries
          MaxWrites     \* writes by the live legacy application

ASSUME AdoptionAssumption == MaxTrouble \in Nat /\ MaxWrites \in Nat

VARIABLES box,      \* [Services -> state of the legacy container]
          gen,      \* generation of the container IDs
          shape,    \* generation of the topology contract
          auth,     \* the highest signed release authorisation
          key,      \* the evidence signing key is present and is the pinned one
          writes,   \* version of the live data
          plan,     \* [Runs -> what the approved plan records, or NoPlan]
          art,      \* [Runs -> artifacts of the run on disk]
          copy,     \* [Runs -> data versions of the two backups]
          late,     \* [Runs -> documents that have outlived their validity]
          rot,      \* [Runs -> artifacts damaged since they were written]
          job,      \* [Commands -> what the process is doing]
          trouble,  \* troubles so far
          outage,   \* history: a command gave up with services stopped, or was
                    \* planned on a stack that was partly stopped
          shared    \* history: runs whose prepare met another one at work

legacyVars == <<box, gen, shape, auth, key, writes>>
evidenceVars == <<plan, art, copy, late, rot>>
adoptionVars == <<drillVars, legacyVars, evidenceVars, job, trouble, outage, shared>>

\* Two writers (the edge and the application) and the two data services.
Writers == <<"proxy", "api">>
DataServices == {"postgres", "minio"}
StartOrder == <<"postgres", "minio", "api", "proxy">>
Services == Range(StartOrder)

Up == {s \in Services : box[s] = "up"}

NoPlan == [gen |-> 0, shape |-> 0, auth |-> 0, up |-> {}]

Artifacts == {"directory", "database", "objects", "escrow", "challenge",
              "prepared", "scratch", "restored", "evidence", "signature"}
Dated == {"plan", "prepared", "evidence"}
Idle == [op |-> "none", run |-> NoRun, at |-> "none", ok |-> TRUE, left |-> {}]

AdoptionTypeOK ==
    /\ DrillTypeOK
    /\ box \in [Services -> {"up", "down", "gone"}]
    /\ gen \in 1 .. MaxTrouble + 1
    /\ shape \in 1 .. MaxTrouble + 1 /\ auth \in 1 .. MaxTrouble + 1
    /\ key \in BOOLEAN /\ outage \in BOOLEAN
    /\ writes \in 0 .. MaxWrites
    /\ \A r \in Runs : /\ art[r] \subseteq Artifacts
                       /\ late[r] \subseteq Dated
                       /\ rot[r] \subseteq {"database", "objects", "escrow"}
                       /\ copy[r].rows \in 0 .. MaxWrites
                       /\ copy[r].blobs \in 0 .. MaxWrites
                       /\ plan[r].gen \in 0 .. gen /\ plan[r].auth \in 0 .. auth
    /\ \A c \in Commands : /\ job[c].run \in Runs \cup {NoRun}
                           /\ job[c].ok \in BOOLEAN /\ job[c].left \subseteq Services
    /\ trouble \in 0 .. MaxTrouble /\ shared \subseteq Runs

AdoptionInit ==
    /\ DrillInit
    /\ box = [s \in Services |-> "up"]
    /\ gen = 1 /\ shape = 1 /\ auth = 1 /\ key = TRUE /\ writes = 0
    /\ plan = [r \in Runs |-> NoPlan]
    /\ art = [r \in Runs |-> {}]
    /\ copy = [r \in Runs |-> [rows |-> 0, blobs |-> 0]]
    /\ late = [r \in Runs |-> {}] /\ rot = [r \in Runs |-> {}]
    /\ job = [c \in Commands |-> Idle]
    /\ trouble = 0 /\ outage = FALSE /\ shared = {}

Write(r, artifact) == art' = [art EXCEPT ![r] = @ \cup {artifact}]

Doing(c, op) == job[c].op = op
At(c, op, at) == Doing(c, op) /\ job[c].at = at
Step(c, at) == job' = [job EXCEPT ![c].at = at]
Ends(c) == job' = [job EXCEPT ![c] = Idle]
Plan(c) == plan[job[c].run]

-----------------------------------------------------------------------------
(* What the commands compare.                                              *)

\* collect_inventory refuses a project with a required service missing.
InventoryComplete == \A s \in Services : box[s] # "gone"

\* inventory_sha256: container IDs, running flags and the whole contract.
InventoryIs(p) == InventoryComplete /\ gen = p.gen /\ Up = p.up /\ shape = p.shape

\* topology_sha256: the contract without IDs and running flags.
TopologyIs(p) == InventoryComplete /\ shape = p.shape

\* _current_release_authorization is the planned one.
AuthorizationIs(p) == auth = p.auth

\* _load_plan_identity: the plan is at most thirty days old, where asked.
PlanIdentity(r, enforceFreshness) ==
    plan[r] # NoPlan /\ (enforceFreshness => "plan" \notin late[r])

\* _validate_plan: everything the plan binds is still what it was.
PlanValid(r, enforceFreshness) ==
    PlanIdentity(r, enforceFreshness) /\ AuthorizationIs(plan[r])

\* _validate_adoption_evidence_key_pair.
KeyPairValid == key

\* _validate_prepared_state: HMAC-bound, at most seven days old.
PreparedValid(r) == "prepared" \in art[r] /\ "prepared" \notin late[r]

\* _verify_descriptor: a file of the run has the recorded size and digest.
Intact(r, artifact) == artifact \in art[r] /\ artifact \notin rot[r]

\* _validate_backup_artifacts: the digests of the dump and of the escrow;
\* of the objects only the manifest is compared here.
BackupArtifactsValid(r) ==
    Intact(r, "database") /\ Intact(r, "escrow") /\ "objects" \in art[r]

\* _validate_ca_challenge_binding: the challenge is this run's, unexpired.
ChallengeBound(r) == "challenge" \in art[r] /\ ~media[r].expired

\* _verify_ca_attestation: the pair the operator carried over is signed by
\* the offline host and answers this run's challenge.
AttestationValid(r) == Carried(r)

-----------------------------------------------------------------------------
(* plan                                                                    *)

\* build_plan: what the plan binds.
BuiltPlan == [gen |-> gen, shape |-> shape, auth |-> auth, up |-> Up]

\* _plan_command: every service present, the highest release authorised.
MakePlan(r) ==
    /\ plan[r] = NoPlan
    /\ InventoryComplete /\ DataServices \subseteq Up
    /\ plan' = [plan EXCEPT ![r] = BuiltPlan]
    /\ UNCHANGED <<drillVars, legacyVars, art, copy, late, rot, job, trouble,
                   outage, shared>>

-----------------------------------------------------------------------------
(* prepare                                                                 *)

\* The steps at which a prepare holds the stack in its hands.
Backing == {"stop", "check", "dump", "archive", "mirror", "seal", "escrow"}
Recovering == {"restore", "start", "settle"}
Touches(c) == Doing(c, "prepare") /\ job[c].at \in Backing \cup Recovering

\* _create_run_directory: a run id is used once.
RunDirectoryFree(r) == "directory" \notin art[r]

\* Keys, plan, exact live inventory, confirmation; then a fresh run
\* directory.  Nothing has been stopped yet, and nobody asks whether another
\* prepare is at work.
PrepareBegins(c, r) ==
    /\ Doing(c, "none") /\ KeyPairValid
    /\ PlanValid(r, TRUE) /\ InventoryIs(plan[r])
    /\ RunDirectoryFree(r)
    /\ Write(r, "directory")
    /\ job' = [job EXCEPT ![c] = [op |-> "prepare", run |-> r, at |-> "stop",
                                  ok |-> TRUE, left |-> Up \ DataServices]]
    /\ LET others == {d \in Commands : Touches(d)}
       IN  shared' = IF others = {} THEN shared
                     ELSE shared \cup {r} \cup {job[d].run : d \in others}
    /\ UNCHANGED <<drillVars, legacyVars, plan, copy, late, rot, trouble, outage>>

\* The backup steps address containers by the IDs of the plan.
SameContainers(c) == gen = Plan(c).gen
BackupError(c) ==
    job' = [job EXCEPT ![c].at = "restore", ![c].ok = FALSE, ![c].left = {}]

\* _quiesce_legacy: the writers the inventory showed running are stopped in
\* their order, by container ID, each once.
PrepareStops(c) ==
    /\ At(c, "prepare", "stop")
    /\ \/ \E i \in DOMAIN Writers :
            /\ Writers[i] \in job[c].left
            /\ \A j \in 1 .. i - 1 : Writers[j] \notin job[c].left
            /\ IF SameContainers(c)
               THEN /\ box' = [box EXCEPT ![Writers[i]] = "down"]
                    /\ job' = [job EXCEPT ![c].left = @ \ {Writers[i]}]
               ELSE BackupError(c) /\ UNCHANGED box
       \/ job[c].left = {} /\ Step(c, "check") /\ UNCHANGED box
    /\ UNCHANGED <<drillVars, gen, shape, auth, key, writes, evidenceVars,
                   trouble, outage, shared>>

\* A fresh inventory: no writer up, both data services up.
PrepareChecks(c) ==
    /\ At(c, "prepare", "check")
    /\ IF InventoryComplete /\ Up = DataServices THEN Step(c, "dump") ELSE BackupError(c)
    /\ UNCHANGED <<drillVars, legacyVars, evidenceVars, trouble, outage, shared>>

\* _database_backup: dump, globals, schema head and counts, taken inside the
\* PostgreSQL container of the plan.
PrepareDumps(c) ==
    /\ At(c, "prepare", "dump")
    /\ IF SameContainers(c)
       THEN copy' = [copy EXCEPT ![job[c].run].rows = writes] /\ Step(c, "archive")
       ELSE UNCHANGED copy /\ BackupError(c)
    /\ UNCHANGED <<drillVars, legacyVars, plan, art, late, rot, trouble, outage, shared>>

\* _database_archive: the dump directory as one verified tar.
PrepareArchives(c) ==
    /\ At(c, "prepare", "archive")
    /\ Write(job[c].run, "database") /\ Step(c, "mirror")
    /\ UNCHANGED <<drillVars, legacyVars, plan, copy, late, rot, trouble, outage, shared>>

\* _run_mc_backup: the bucket is mirrored over the project network from
\* whatever container answers as minio; nothing looks at the writers again.
PrepareMirrors(c) ==
    /\ At(c, "prepare", "mirror") /\ "minio" \in Up
    /\ copy' = [copy EXCEPT ![job[c].run].blobs = writes]
    /\ Step(c, "seal")
    /\ UNCHANGED <<drillVars, legacyVars, plan, art, late, rot, trouble, outage, shared>>

\* _seal_private_tree and _object_manifest.
PrepareSeals(c) ==
    /\ At(c, "prepare", "seal")
    /\ Write(job[c].run, "objects") /\ Step(c, "escrow")
    /\ UNCHANGED <<drillVars, legacyVars, plan, copy, late, rot, trouble, outage, shared>>

\* What the recipient certificate the operator names can be.
Certificates == {"safe", "unsafe"}

\* _validate_ca_recipient_certificate: RSA, long enough, meant for key
\* encipherment only, valid now, no CA.
RecipientCertificateSafe(certificate) == certificate = "safe"

\* _encrypt_ca_escrow: the live CA files are sealed for the recipient.
\* Whether the CA works, and whether the offline host holds the recipient's
\* key, shows only in the drill.
PrepareEscrows(c) ==
    /\ At(c, "prepare", "escrow")
    /\ \E certificate \in Certificates :
        IF RecipientCertificateSafe(certificate)
        THEN /\ \E kind \in Archives \ {"none"} :
                   media' = [media EXCEPT ![job[c].run].archive = kind]
             /\ Write(job[c].run, "escrow") /\ Step(c, "restore")
        ELSE BackupError(c) /\ UNCHANGED <<media, art>>
    /\ UNCHANGED <<trail, drill, io, legacyVars, plan, copy, late, rot, trouble,
                   outage, shared>>

\* Any of the backup steps raises: the error is kept, and the finally block
\* runs first.
PrepareFails(c) ==
    /\ trouble < MaxTrouble /\ trouble' = trouble + 1
    /\ Doing(c, "prepare") /\ job[c].at \in Backing
    /\ BackupError(c)
    /\ UNCHANGED <<drillVars, legacyVars, evidenceVars, outage, shared>>

\* Mutant of PrepareRestores: the finally block restores only after success.
SlipRestoreOnSuccess(c) ==
    /\ At(c, "prepare", "restore") /\ SameContainers(c)
    /\ IF job[c].ok
       THEN job' = [job EXCEPT ![c].at = "start", ![c].left = Plan(c).up \ Up]
       ELSE Ends(c)
    /\ UNCHANGED <<drillVars, legacyVars, evidenceVars, trouble, outage, shared>>

\* _resume_or_recreate_legacy, same containers and contract: an inventory
\* says which of the services that were running have to be started.
PrepareRestores(c) ==
    /\ At(c, "prepare", "restore") /\ SameContainers(c)
    /\ shape = Plan(c).shape
    /\ job' = [job EXCEPT ![c].at = "start", ![c].left = Plan(c).up \ Up]
    /\ UNCHANGED <<drillVars, legacyVars, evidenceVars, trouble, outage, shared>>

\* They are started in order, each once.
PrepareStarts(c) ==
    /\ At(c, "prepare", "start")
    /\ \/ \E i \in DOMAIN StartOrder :
            /\ StartOrder[i] \in job[c].left
            /\ \A j \in 1 .. i - 1 : StartOrder[j] \notin job[c].left
            /\ box' = [box EXCEPT ![StartOrder[i]] = "up"]
            /\ job' = [job EXCEPT ![c].left = @ \ {StartOrder[i]}]
       \/ job[c].left = {} /\ Step(c, "settle") /\ UNCHANGED box
    /\ UNCHANGED <<drillVars, gen, shape, auth, key, writes, evidenceVars,
                   trouble, outage, shared>>

\* The containers changed meanwhile: Compose brings every service up (or
\* leaves it created), from the planned files.
PrepareRecreates(c) ==
    /\ At(c, "prepare", "restore") /\ ~SameContainers(c)
    /\ box' = [s \in Services |-> IF s \in Plan(c).up \/ box[s] = "up" THEN "up" ELSE "down"]
    /\ Step(c, "settle")
    /\ UNCHANGED <<drillVars, gen, shape, auth, key, writes, evidenceVars,
                   trouble, outage, shared>>

\* The restored stack has the planned contract; services that were not
\* running when the command began are stopped.
PrepareStopsExtras(c) ==
    /\ At(c, "prepare", "settle") /\ shape = Plan(c).shape
    /\ Plan(c).up \subseteq Up /\ Plan(c).up # Up
    /\ box' = [s \in Services |-> IF s \in Up \ Plan(c).up THEN "down" ELSE box[s]]
    /\ UNCHANGED <<drillVars, gen, shape, auth, key, writes, evidenceVars, job,
                   trouble, outage, shared>>

\* Exactly the services that were running run again: the kept error is
\* raised, or the run goes on to its challenge.
PrepareSettles(c) ==
    /\ At(c, "prepare", "settle")
    /\ shape = Plan(c).shape /\ Plan(c).up = Up
    /\ IF job[c].ok THEN Step(c, "challenge") ELSE Ends(c)
    /\ outage' = (Plan(c).up # Services)
    /\ UNCHANGED <<drillVars, legacyVars, evidenceVars, trouble, shared>>

\* The restoration fails, or the 900 seconds run out because the contract is
\* not the planned one or another prepare has stopped a writer.
PrepareCannotRestore(c) ==
    /\ Doing(c, "prepare") /\ job[c].at \in Recovering
    /\ \/ trouble < MaxTrouble /\ trouble' = trouble + 1
       \/ /\ \/ shape # Plan(c).shape
             \/ job[c].at = "settle" /\ ~ (Plan(c).up \subseteq Up)
          /\ UNCHANGED trouble
    /\ Ends(c) /\ outage' = TRUE
    /\ UNCHANGED <<drillVars, legacyVars, evidenceVars, shared>>

\* The key pair is validated again, then the challenge is written, signed
\* and verified, and goes to the media.
PrepareChallenges(c) ==
    /\ At(c, "prepare", "challenge")
    /\ IF KeyPairValid
       THEN /\ Write(job[c].run, "challenge") /\ Step(c, "bind")
            /\ media' = [media EXCEPT ![job[c].run].challenge = TRUE]
       ELSE Ends(c) /\ UNCHANGED <<art, media>>
    /\ UNCHANGED <<trail, drill, io, legacyVars, plan, copy, late, rot, trouble,
                   outage, shared>>

\* prepared-state.json, bound by HMAC, is the run's last file.
PrepareBinds(c) ==
    /\ At(c, "prepare", "bind")
    /\ Write(job[c].run, "prepared") /\ Ends(c)
    /\ UNCHANGED <<drillVars, legacyVars, plan, copy, late, rot, trouble, outage, shared>>

-----------------------------------------------------------------------------
(* finalize                                                                *)

\* Everything the signature will vouch for is checked first.
FinalizeBegins(c, r) ==
    /\ Doing(c, "none") /\ KeyPairValid
    /\ PlanValid(r, TRUE) /\ PreparedValid(r) /\ BackupArtifactsValid(r)
    /\ ChallengeBound(r) /\ AttestationValid(r) /\ TopologyIs(plan[r])
    /\ job' = [job EXCEPT ![c] = [op |-> "finalize", run |-> r, at |-> "scratch",
                                  ok |-> TRUE, left |-> {}]]
    /\ UNCHANGED <<drillVars, legacyVars, evidenceVars, trouble, outage, shared>>

\* _run_restore_drill makes drill-<run>; one that exists ends the command.
FinalizeScratches(c) ==
    /\ At(c, "finalize", "scratch")
    /\ IF "scratch" \in art[job[c].run]
       THEN Ends(c) /\ UNCHANGED art
       ELSE Write(job[c].run, "scratch") /\ Step(c, "restoreRows")
    /\ UNCHANGED <<drillVars, legacyVars, plan, copy, late, rot, trouble, outage, shared>>

\* One step of the drill: on to the next, or to the cleanup with an error.
DrillProceeds(c, ok, next) ==
    job' = [job EXCEPT ![c].at = IF ok THEN next ELSE "clean", ![c].ok = ok]

\* _start_restore_postgres: a scratch PostgreSQL of the legacy image, on an
\* internal network, restores globals and dump.
FinalizeRestoresRows(c) ==
    /\ At(c, "finalize", "restoreRows")
    /\ DrillProceeds(c, "database" \notin rot[job[c].run], "countRows")
    /\ UNCHANGED <<drillVars, legacyVars, evidenceVars, trouble, outage, shared>>

\* The restored schema head and every table count are the backup's.
FinalizeCountsRows(c) ==
    /\ At(c, "finalize", "countRows")
    /\ DrillProceeds(c, TRUE, "restoreBlobs")
    /\ UNCHANGED <<drillVars, legacyVars, evidenceVars, trouble, outage, shared>>

\* _start_restore_minio: a scratch MinIO takes the mirror, whatever it holds.
FinalizeRestoresBlobs(c) ==
    /\ At(c, "finalize", "restoreBlobs")
    /\ DrillProceeds(c, TRUE, "readBlobs")
    /\ UNCHANGED <<drillVars, legacyVars, evidenceVars, trouble, outage, shared>>

\* Mutant of FinalizeReadsBlobs(c): restored objects are not compared.
SlipBlobsUnread(c) ==
    /\ At(c, "finalize", "readBlobs")
    /\ Step(c, "clean")
    /\ UNCHANGED <<drillVars, legacyVars, evidenceVars, trouble, outage, shared>>

\* _verify_restored_objects: every object of the manifest is read back and
\* compared, and the totals must agree.
FinalizeReadsBlobs(c) ==
    /\ At(c, "finalize", "readBlobs")
    /\ DrillProceeds(c, "objects" \notin rot[job[c].run], "clean")
    /\ UNCHANGED <<drillVars, legacyVars, evidenceVars, trouble, outage, shared>>

\* The drill's finally: exact containers, network and scratch directory go.
FinalizeCleans(c) ==
    /\ At(c, "finalize", "clean")
    /\ art' = [art EXCEPT ![job[c].run] = @ \ {"scratch"}]
    /\ IF job[c].ok /\ KeyPairValid THEN Step(c, "restored") ELSE Ends(c)
    /\ UNCHANGED <<drillVars, legacyVars, plan, copy, late, rot, trouble, outage, shared>>

Drilling == {"restoreRows", "countRows", "restoreBlobs", "readBlobs"}

\* A command of the drill fails: the finally runs.  A command of the finally
\* fails: the rest of it is skipped and the scratch directory stays.
FinalizeFails(c) ==
    /\ trouble < MaxTrouble /\ trouble' = trouble + 1
    /\ Doing(c, "finalize")
    /\ \/ job[c].at \in Drilling /\ DrillProceeds(c, FALSE, "clean")
       \/ job[c].at = "clean" /\ Ends(c)
    /\ UNCHANGED <<drillVars, legacyVars, evidenceVars, outage, shared>>

\* The three documents, each refused by _atomic_write when it exists.
FinalizeWrites(c, artifact, next) ==
    /\ At(c, "finalize", artifact)
    /\ IF artifact \in art[job[c].run]
       THEN Ends(c) /\ UNCHANGED art
       ELSE /\ Write(job[c].run, artifact)
            /\ IF next = "none" THEN Ends(c) ELSE Step(c, next)
    /\ UNCHANGED <<drillVars, legacyVars, plan, copy, late, rot, trouble, outage, shared>>

FinalizeStep(c) ==
    \/ FinalizeScratches(c) \/ FinalizeRestoresRows(c) \/ FinalizeCountsRows(c)
    \/ FinalizeRestoresBlobs(c) \/ FinalizeReadsBlobs(c) \/ FinalizeCleans(c)
    \/ FinalizeWrites(c, "restored", "evidence")
    \/ FinalizeWrites(c, "evidence", "signature")
    \/ FinalizeWrites(c, "signature", "none")

-----------------------------------------------------------------------------
(* The world around the commands.                                          *)

\* The legacy application writes while it and the data services run.
LegacyWrites ==
    /\ writes < MaxWrites /\ {"api", "postgres", "minio"} \subseteq Up
    /\ writes' = writes + 1
    /\ UNCHANGED <<drillVars, box, gen, shape, auth, key, evidenceVars, job,
                   trouble, outage, shared>>

Trouble == trouble < MaxTrouble /\ trouble' = trouble + 1

\* The commands that run, and what is left of them when they all end.
Busy == {c \in Commands : ~Doing(c, "none")}

\* A command is killed: its finally blocks do not run.
CommandKilled(c) ==
    /\ Trouble /\ c \in Busy /\ Ends(c)
    /\ outage' = (outage \/ Doing(c, "prepare"))
    /\ UNCHANGED <<drillVars, legacyVars, evidenceVars, shared>>

\* The server dies and comes back: the commands are gone, so is the signing
\* key under /run, and stopped containers stay stopped.
ServerCrashes ==
    /\ Trouble /\ Busy # {}
    /\ job' = [c \in Commands |-> Idle] /\ key' = FALSE
    /\ outage' = (outage \/ \E c \in Commands : Doing(c, "prepare"))
    /\ UNCHANGED <<drillVars, box, gen, shape, auth, writes, evidenceVars, shared>>

\* The operator puts the signing key back.
ProvisionKey ==
    /\ ~key /\ key' = TRUE
    /\ UNCHANGED <<drillVars, box, gen, shape, auth, writes, evidenceVars, job,
                   trouble, outage, shared>>

\* Somebody recreates the legacy containers with Compose: new IDs, all up.
LegacyRecreated ==
    /\ Trouble /\ InventoryComplete
    /\ gen' = gen + 1 /\ box' = [s \in Services |-> "up"]
    /\ outage' = FALSE
    /\ UNCHANGED <<drillVars, shape, auth, key, writes, evidenceVars, job, shared>>

\* Somebody starts what an interrupted command left stopped, once no command
\* runs any more.
LegacyRestarted ==
    /\ outage /\ Busy = {}
    /\ box' = [s \in Services |-> IF box[s] = "down" THEN "up" ELSE box[s]]
    /\ outage' = FALSE
    /\ UNCHANGED <<drillVars, gen, shape, auth, key, writes, evidenceVars, job,
                   trouble, shared>>

\* Somebody changes the legacy contract (images, mounts, files).
LegacyReshaped ==
    /\ Trouble /\ InventoryComplete
    /\ shape' = shape + 1
    /\ UNCHANGED <<drillVars, box, gen, auth, key, writes, evidenceVars, job,
                   outage, shared>>

\* A newer release is authorised on this host.
NewerRelease ==
    /\ Trouble /\ auth' = auth + 1
    /\ UNCHANGED <<drillVars, box, gen, shape, key, writes, evidenceVars, job,
                   outage, shared>>

\* A document outlives its validity: the plan's 30 days, the prepared
\* state's and the challenge's 7 days, the evidence's 24 hours.
Expires(r) ==
    /\ Trouble
    /\ \/ /\ \E doc \in Dated : /\ doc \in art[r] \cup {"plan"} /\ doc \notin late[r]
                                /\ late' = [late EXCEPT ![r] = @ \cup {doc}]
          /\ UNCHANGED media
       \/ /\ media[r].challenge /\ ~media[r].expired
          /\ media' = [media EXCEPT ![r].expired = TRUE]
          /\ UNCHANGED late
    /\ UNCHANGED <<trail, drill, io, legacyVars, plan, art, copy, rot, job, outage, shared>>

\* A stored artifact is damaged, though not under a running finalize: no
\* check can see what changes after it looked.
Rots(r) ==
    /\ Trouble /\ (\A c \in Commands : Doing(c, "finalize") => job[c].run # r)
    /\ \E a \in art[r] \cap {"database", "objects", "escrow"} :
           rot' = [rot EXCEPT ![r] = @ \cup {a}]
    /\ UNCHANGED <<drillVars, legacyVars, plan, art, copy, late, job, outage, shared>>

PrepareStep(c) ==
    \/ PrepareStops(c) \/ PrepareChecks(c) \/ PrepareDumps(c) \/ PrepareArchives(c)
    \/ PrepareMirrors(c) \/ PrepareSeals(c) \/ PrepareEscrows(c) \/ PrepareRestores(c)
    \/ PrepareStarts(c) \/ PrepareRecreates(c) \/ PrepareStopsExtras(c)
    \/ PrepareSettles(c) \/ PrepareChallenges(c) \/ PrepareBinds(c)

World ==
    \/ LegacyWrites \/ ServerCrashes \/ ProvisionKey \/ LegacyRecreated
    \/ LegacyRestarted \/ LegacyReshaped \/ NewerRelease
    \/ \E r \in Runs : Expires(r) \/ Rots(r)

Offline ==
    DrillNext /\ UNCHANGED <<legacyVars, evidenceVars, job, trouble, outage, shared>>

AdoptionNext ==
    \/ \E r \in Runs : MakePlan(r)
    \/ \E c \in Commands, r \in Runs : PrepareBegins(c, r) \/ FinalizeBegins(c, r)
    \/ \E c \in Commands : \/ PrepareStep(c) \/ PrepareFails(c) \/ PrepareCannotRestore(c)
                           \/ FinalizeStep(c) \/ FinalizeFails(c) \/ CommandKilled(c)
    \/ World \/ Offline

-----------------------------------------------------------------------------
(* Properties                                                              *)

\* The two halves of a backup are of one instant: no write lies between the
\* dump and the mirror of a prepared run.  The writers are looked at once,
\* before the dump, and the mirror does not address a container of the plan,
\* so this is promised only while the stack has not been recreated; and
\* nothing keeps a second prepare from starting the writers again, so it is
\* promised only for a prepare that met no other.
BackupHalvesAgree ==
    \A r \in Runs \ shared : "prepared" \in art[r] /\ gen = plan[r].gen
                               => copy[r].rows = copy[r].blobs

\* prepare never leaves the legacy stack stopped behind its back, whatever
\* other commands did meanwhile: when no command runs, all services are up
\* unless one gave up or was killed, or was planned on a stopped stack.
NoSilentOutage == Busy = {} /\ ~outage => Up = Services

\* Signed evidence vouches for a CA escrow that an offline drill opened and
\* used, and for a run whose every artifact is there.
EvidenceIsBacked ==
    \A r \in Runs : "signature" \in art[r] =>
        /\ media[r].archive = "good" /\ Attested(r)
        /\ {"database", "objects", "escrow", "challenge", "prepared",
            "restored", "evidence"} \subseteq art[r]

\* legacy_offline_adoption.py's records are true whichever command failed, was
\* killed or found a changed stack: a prepared backup is of one instant, signed
\* evidence is backed, and the stack is not left down unnoticed.
BackupSound ==
    AdoptionTypeOK /\ BackupHalvesAgree /\ EvidenceIsBacked /\ NoSilentOutage

\* Evidence is signed only over a backup that was restored: the dump and the
\* objects are undamaged when finalize signs.
SignedBackupRestores ==
    [][\A r \in Runs : "signature" \in art'[r] \ art[r]
                           => rot[r] \cap {"database", "objects"} = {}]_adoptionVars

\* What was published stays, and what is signed was restored: neither the
\* rollback of a drill nor a run of finalize over damaged copies undoes it.
EvidenceStays == CommittedPairStays /\ SignedBackupRestores

AdoptionSpec == AdoptionInit /\ [][AdoptionNext]_adoptionVars
=============================================================================
