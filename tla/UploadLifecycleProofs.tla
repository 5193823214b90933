----------------------- MODULE UploadLifecycleProofs -----------------------
(***************************************************************************)
(* The quota ledger and the upload sessions that use it, for every set of  *)
(* uploads, limit keys, limits, amounts, days, requests and reconcilers.   *)
(***************************************************************************)
EXTENDS UploadLifecycle, TallyProofs, TLAPS

-----------------------------------------------------------------------------
(* The quota ledger                                                        *)

(* Every window a request can name is one the ledger keeps. *)
LEMMA WindowStartType ==
    ASSUME QuotaTypeOK, NEW k
    PROVE  WindowStart(k) \in Days
BY QuotaAssumption DEF QuotaTypeOK, WindowStart, Days

(* max(reserved - amount, 0) is a natural number. *)
LEMMA ReducedType ==
    ASSUME NEW n \in Nat, NEW a \in Nat
    PROVE  Reduced(n, a) \in Nat
BY DEF Reduced

(* reserve_many keeps the rows well formed. *)
LEMMA ReserveManyType ==
    ASSUME QuotaTypeOK, NEW u \in Uploads, ReserveMany(u)
    PROVE  QuotaTypeOK'
<1>1. \A k \in UploadKeys : WindowStart(k) \in Days /\ Amount[u][k] \in Nat
  BY WindowStartType, QuotaAssumption
<1>2. reserved' \in [LimitKeys -> [Days -> Nat]]
  BY <1>1 DEF ReserveMany, QuotaTypeOK
<1>3. resv' \in [Uploads -> [UploadKeys -> ReservationStatus \cup {"none"}]]
  BY DEF ReserveMany, QuotaTypeOK, ReservationStatus
<1>4. window' \in [Uploads -> [UploadKeys -> Days]]
  BY <1>1 DEF ReserveMany, QuotaTypeOK
<1> QED
  BY <1>2, <1>3, <1>4 DEF ReserveMany, QuotaTypeOK

(* consume_upload_reservations keeps the rows well formed. *)
LEMMA ConsumeReservationsType ==
    ASSUME QuotaTypeOK, NEW u \in Uploads, ConsumeUploadReservations(u)
    PROVE  QuotaTypeOK'
<1>1. \A k \in UploadKeys : Amount[u][k] \in Nat
  BY QuotaAssumption
<1>2. \A k \in LimitKeys, w \in Days :
         reserved[k][w] \in Nat /\ used[k][w] \in Nat
  BY DEF QuotaTypeOK
<1>3. reserved' \in [LimitKeys -> [Days -> Nat]]
  BY <1>1, <1>2, ReducedType DEF ConsumeUploadReservations, HeldIn
<1>4. used' \in [LimitKeys -> [Days -> Nat]]
  BY <1>1, <1>2 DEF ConsumeUploadReservations, HeldIn
<1>5. resv' \in [Uploads -> [UploadKeys -> ReservationStatus \cup {"none"}]]
  BY DEF ConsumeUploadReservations, QuotaTypeOK, ReservationStatus
<1> QED
  BY <1>3, <1>4, <1>5 DEF ConsumeUploadReservations, QuotaTypeOK

(* release_upload_reservations keeps the rows well formed. *)
LEMMA ReleaseReservationsType ==
    ASSUME QuotaTypeOK, NEW u \in Uploads, NEW s \in ReservationStatus,
           ReleaseUploadReservations(u, s)
    PROVE  QuotaTypeOK'
<1>1. \A k \in UploadKeys : Amount[u][k] \in Nat
  BY QuotaAssumption
<1>2. \A k \in LimitKeys, w \in Days : reserved[k][w] \in Nat
  BY DEF QuotaTypeOK
<1>3. reserved' \in [LimitKeys -> [Days -> Nat]]
  BY <1>1, <1>2, ReducedType DEF ReleaseUploadReservations, HeldIn
<1>4. resv' \in [Uploads -> [UploadKeys -> ReservationStatus \cup {"none"}]]
  BY DEF ReleaseUploadReservations, QuotaTypeOK, ReservationStatus
<1> QED
  BY <1>3, <1>4 DEF ReleaseUploadReservations, QuotaTypeOK

(* consume keeps the rows well formed. *)
LEMMA ConsumeType ==
    ASSUME QuotaTypeOK, NEW k \in LimitKeys, NEW a \in Nat, Consume(k, a)
    PROVE  QuotaTypeOK'
<1>1. WindowStart(k) \in Days
  BY WindowStartType
<1> QED
  BY <1>1 DEF Consume, QuotaTypeOK

(* Every step of the ledger keeps the rows well formed. *)
LEMMA QuotaTypeInductive ==
    ASSUME QuotaTypeOK, [QuotaNext]_quotaVars
    PROVE  QuotaTypeOK'
<1>1. CASE \E u \in Uploads : ReserveMany(u)
  BY <1>1, ReserveManyType
<1>2. CASE \E u \in Uploads : ConsumeUploadReservations(u)
  BY <1>2, ConsumeReservationsType
<1>3. CASE \E u \in Uploads, s \in {"RELEASED", "EXPIRED"} :
             ReleaseUploadReservations(u, s)
  BY <1>3, ReleaseReservationsType DEF ReservationStatus
<1>4. CASE \E k \in LimitKeys, a \in Direct : Consume(k, a)
  BY <1>4, ConsumeType, QuotaAssumption
<1>5. CASE NextDay
  BY <1>5, QuotaAssumption DEF NextDay, QuotaTypeOK, Days
<1>6. CASE UNCHANGED quotaVars
  BY <1>6 DEF quotaVars, QuotaTypeOK
<1> QED
  BY <1>1, <1>2, <1>3, <1>4, <1>5, <1>6 DEF QuotaNext

(* The rows of an empty ledger are well formed. *)
LEMMA QuotaInitType == QuotaInit => QuotaTypeOK
<1>1. 0 \in Days
  BY QuotaAssumption DEF Days
<1> QED
  BY <1>1 DEF QuotaInit, QuotaTypeOK, NoCounters

(* Counters stay natural numbers and every reservation keeps a status and a
   window of the schema, whatever the callers of quota.py do. *)
THEOREM QuotaTypeCorrect == QuotaSpec => []QuotaTypeOK
<1>1. QuotaInit => QuotaTypeOK
  BY QuotaInitType
<1>2. QuotaTypeOK /\ [QuotaNext]_quotaVars => QuotaTypeOK'
  BY QuotaTypeInductive
<1> QED
  BY <1>1, <1>2, PTL DEF QuotaSpec

(* One step of the ledger never touches a settled reservation and never lowers
   used_value. *)
LEMMA SettledOnceStep ==
    ASSUME QuotaTypeOK, [QuotaNext]_quotaVars
    PROVE  /\ \A u \in Uploads, k \in UploadKeys :
                 resv[u][k] \in {"CONSUMED", "RELEASED", "EXPIRED"}
                    => resv'[u][k] = resv[u][k]
           /\ \A k \in LimitKeys, w \in Days : used'[k][w] >= used[k][w]
<1>1. \A k \in LimitKeys, w \in Days : used[k][w] \in Nat
  BY DEF QuotaTypeOK
<1>2. CASE \E u \in Uploads :
             (\A k \in UploadKeys : resv[u][k] = "none") /\ ReserveMany(u)
  BY <1>1, <1>2 DEF ReserveMany, QuotaTypeOK
<1>3. ASSUME NEW u \in Uploads, ConsumeUploadReservations(u)
      PROVE  /\ \A v \in Uploads, k \in UploadKeys :
                   resv[v][k] \in {"CONSUMED", "RELEASED", "EXPIRED"}
                      => resv'[v][k] = resv[v][k]
             /\ \A k \in LimitKeys, w \in Days : used'[k][w] >= used[k][w]
  <2>1. \A k \in UploadKeys : Amount[u][k] \in Nat
    BY QuotaAssumption
  <2>2. \A k \in LimitKeys, w \in Days : used'[k][w] >= used[k][w]
    BY <1>1, <1>3, <2>1 DEF ConsumeUploadReservations, HeldIn
  <2> QED
    BY <1>3, <2>2 DEF ConsumeUploadReservations, QuotaTypeOK
<1>4. CASE \E u \in Uploads, s \in {"RELEASED", "EXPIRED"} :
             ReleaseUploadReservations(u, s)
  BY <1>1, <1>4 DEF ReleaseUploadReservations, QuotaTypeOK
<1>5. ASSUME NEW k \in LimitKeys, NEW a \in Direct, Consume(k, a)
      PROVE  UNCHANGED resv /\ \A l \in LimitKeys, w \in Days :
                                   used'[l][w] >= used[l][w]
  <2>1. a \in Nat /\ WindowStart(k) \in Days
    BY QuotaAssumption, WindowStartType
  <2> QED
    BY <1>1, <1>5, <2>1 DEF Consume, QuotaTypeOK
<1>6. CASE NextDay \/ UNCHANGED quotaVars
  BY <1>1, <1>6 DEF NextDay, quotaVars
<1> QED
  BY <1>2, <1>3, <1>4, <1>5, <1>6 DEF QuotaNext

(* A settled reservation is settled for good and usage only grows, so a retried
   or late settlement can neither refund nor charge twice. *)
THEOREM QuotaSettledOnce == QuotaSpec => SettledOnce
<1>1. QuotaTypeOK /\ [QuotaNext]_quotaVars =>
        [/\ \A u \in Uploads, k \in UploadKeys :
               resv[u][k] \in {"CONSUMED", "RELEASED", "EXPIRED"}
                  => resv'[u][k] = resv[u][k]
         /\ \A k \in LimitKeys, w \in Days : used'[k][w] >= used[k][w]]_quotaVars
  BY SettledOnceStep
<1> QED
  BY <1>1, QuotaTypeCorrect, PTL DEF QuotaSpec, SettledOnce

-----------------------------------------------------------------------------
(* Upload sessions: types                                                  *)

(* What a step of a process does to the variables of processes. *)
LEMMA GotoType ==
    ASSUME UploadTypeOK, NEW p \in Procs, NEW s \in Steps, Goto(p, s)
    PROVE  pc' \in [Procs -> Steps]
BY DEF UploadTypeOK, Goto

(* A request that starts. *)
LEMMA CallType ==
    ASSUME UploadTypeOK, NEW r \in Requests, NEW u \in Uploads, NEW s \in Steps, Call(r, u, s)
    PROVE  /\ pc' \in [Procs -> Steps] /\ job' \in [Procs -> Uploads]
           /\ calls' \in 0..MaxCalls /\ faults' \in 0..MaxFaults
BY GotoType, UploadAssumption DEF UploadTypeOK, Call, Procs

(* The verdict on a stored object. *)
LEMMA JudgeType ==
    ASSUME UploadTypeOK, NEW p \in Procs, NEW o \in Content, Judge(p, o)
    PROVE  /\ pc' \in [Procs -> Steps] /\ stored' \in [Procs -> Content]
           /\ then' \in [Procs -> {"idle", "reject", "abortstorage"}]
<1>1. (IF o = "good" THEN "commit" ELSE "delete") \in Steps
  BY DEF Steps, FinalizerSteps
<1> QED
  BY <1>1, GotoType DEF UploadTypeOK, Judge

(* POST /files/uploads keeps the rows well formed. *)
LEMMA InitiateType ==
    ASSUME UploadTypeOK, NEW r \in Requests, NEW u \in Uploads,
           InitiateUpload(r, u) \/ ReplayInitiate(r, u)
    PROVE  UploadTypeOK'
<1>0. {"create", "idle"} \subseteq Steps
  BY DEF Steps
<1>1. CASE InitiateUpload(r, u)
  <2>1. QuotaTypeOK'
    BY <1>1, ReserveManyType DEF InitiateUpload, UploadTypeOK
  <2> QED
    BY <1>0, <1>1, <2>1, CallType
       DEF InitiateUpload, UploadTypeOK, SessionStatus, FileStatus, storeVars
<1>2. CASE ReplayInitiate(r, u)
  <2>1. QuotaTypeOK'
    BY <1>2 DEF ReplayInitiate, UploadTypeOK, QuotaTypeOK, quotaVars
  <2>2. Call(r, u, "create") \/ Call(r, u, "idle")
    BY <1>2 DEF ReplayInitiate
  <2>3. announced' \in SUBSET Uploads
    BY <1>2 DEF ReplayInitiate, UploadTypeOK
  <2> QED
    BY <1>0, <1>2, <2>1, <2>2, <2>3, CallType DEF ReplayInitiate, UploadTypeOK, storeVars
<1> QED
  BY <1>1, <1>2

(* The S3 half of an initiation. *)
LEMMA StorageUploadType ==
    ASSUME UploadTypeOK, NEW r \in Procs,
           CreateStorageUpload(r) \/ PersistStorageUpload(r) \/ DropDuplicate(r)
    PROVE  UploadTypeOK'
<1> USE DEF UploadTypeOK
<1>0. {"persist", "dropdup", "idle"} \subseteq Steps /\ NoId \in Nat
  BY DEF Steps, NoId
<1>1. QuotaTypeOK'
  BY DEF CreateStorageUpload, PersistStorageUpload, DropDuplicate, QuotaTypeOK, quotaVars
<1>2. CASE CreateStorageUpload(r)
  <2>1. pc' \in [Procs -> Steps]
    BY <1>0, <1>2, GotoType DEF CreateStorageUpload
  <2>2. created' \in [Uploads -> Nat] /\ mpu' \in [Uploads -> SUBSET Nat] /\ uid' \in [Procs -> Nat]
    BY <1>0, <1>2 DEF CreateStorageUpload
  <2> QED
    BY <1>1, <1>2, <2>1, <2>2 DEF CreateStorageUpload, sessionVars, budgetVars
<1>3. CASE PersistStorageUpload(r)
  <2>1. pc' \in [Procs -> Steps]
    BY <1>0, <1>3, GotoType DEF PersistStorageUpload
  <2>2. uploadId' \in [Uploads -> Nat] /\ announced' \in SUBSET Uploads
    BY <1>3 DEF PersistStorageUpload
  <2> QED
    BY <1>1, <1>3, <2>1, <2>2 DEF PersistStorageUpload, storeVars, budgetVars
<1>4. CASE DropDuplicate(r)
  <2>1. pc' \in [Procs -> Steps]
    BY <1>0, <1>4, GotoType DEF DropDuplicate
  <2> QED
    BY <1>1, <1>4, <2>1 DEF DropDuplicate, storeVars, budgetVars
<1> QED
  BY <1>2, <1>3, <1>4

(* The steps that only read and write objects. *)
ObjectStep(p) ==
    \/ AssembleParts(p) \/ HeadFinal(p) \/ HeadStaging(p) \/ CopyObject(p)
    \/ HeadPromoted(p) \/ SealPromoted(p) \/ DeleteFinal(p) \/ ResealStaging(p)
    \/ AbortStorage(p)

LEMMA ObjectsOnly ==
    ASSUME NEW p, ObjectStep(p)
    PROVE  UNCHANGED <<quotaVars, sessionVars, created, job, uid, orig, budgetVars>>
<1>1. CASE AssembleParts(p)
  BY <1>1 DEF AssembleParts, storeVars
<1>2. CASE HeadFinal(p)
  BY <1>2 DEF HeadFinal, storeVars
<1>3. CASE HeadStaging(p)
  BY <1>3 DEF HeadStaging, storeVars
<1>4. CASE CopyObject(p)
  BY <1>4 DEF CopyObject, storeVars
<1>5. CASE HeadPromoted(p)
  BY <1>5 DEF HeadPromoted, storeVars
<1>6. CASE SealPromoted(p)
  BY <1>6 DEF SealPromoted, storeVars
<1>7. CASE DeleteFinal(p)
  BY <1>7 DEF DeleteFinal, storeVars
<1>8. CASE ResealStaging(p)
  BY <1>8 DEF ResealStaging, storeVars
<1>9. CASE AbortStorage(p)
  BY <1>9 DEF AbortStorage, storeVars
<1> QED
  BY <1>1, <1>2, <1>3, <1>4, <1>5, <1>6, <1>7, <1>8, <1>9 DEF ObjectStep

(* They keep everything well formed. *)
LEMMA ObjectStepType ==
    ASSUME UploadTypeOK, NEW p \in Procs, ObjectStep(p)
    PROVE  UploadTypeOK'
<1> USE DEF UploadTypeOK
<1>0. /\ {"headfinal", "idle", "headstaging", "abortstorage", "copy", "headcopy", "seal",
          "commit", "delete", "reseal", "reject", "release"} \subseteq Steps
      /\ {"none", "good", "bad", "tomb"} \subseteq Content
  BY DEF Steps, FinalizerSteps, Content
<1>1. QuotaTypeOK'
  BY ObjectsOnly DEF QuotaTypeOK, quotaVars
<1>2. CASE AssembleParts(p)
  <2>1. pc' \in [Procs -> Steps] /\ final' \in [Uploads -> Content] /\ mpu' \in [Uploads -> SUBSET Nat]
    BY <1>0, <1>2, GotoType DEF AssembleParts
  <2> QED
    BY <1>1, <1>2, <2>1 DEF AssembleParts, sessionVars, budgetVars
<1>3. CASE HeadFinal(p)
  <2>1. /\ pc' \in [Procs -> Steps] /\ stored' \in [Procs -> Content]
        /\ then' \in [Procs -> {"idle", "reject", "abortstorage"}]
    BY <1>0, <1>3, GotoType, JudgeType DEF HeadFinal
  <2> QED
    BY <1>1, <1>3, <2>1 DEF HeadFinal, sessionVars, storeVars, budgetVars
<1>4. CASE HeadStaging(p)
  <2>1. /\ pc' \in [Procs -> Steps] /\ stored' \in [Procs -> Content]
        /\ then' \in [Procs -> {"idle", "reject", "abortstorage"}]
    BY <1>0, <1>4, GotoType, JudgeType DEF HeadStaging
  <2> QED
    BY <1>1, <1>4, <2>1 DEF HeadStaging, sessionVars, storeVars, budgetVars
<1>5. CASE CopyObject(p)
  <2>1. pc' \in [Procs -> Steps] /\ final' \in [Uploads -> Content]
    BY <1>0, <1>5, GotoType DEF CopyObject
  <2> QED
    BY <1>1, <1>5, <2>1 DEF CopyObject, sessionVars, budgetVars
<1>6. CASE HeadPromoted(p)
  <2>1. pc' \in [Procs -> Steps] /\ stored' \in [Procs -> Content]
    BY <1>0, <1>6, GotoType DEF HeadPromoted
  <2> QED
    BY <1>1, <1>6, <2>1 DEF HeadPromoted, sessionVars, storeVars, budgetVars
<1>7. CASE SealPromoted(p)
  <2>1. /\ pc' \in [Procs -> Steps] /\ stored' \in [Procs -> Content]
        /\ then' \in [Procs -> {"idle", "reject", "abortstorage"}]
    BY <1>7, JudgeType DEF SealPromoted
  <2>2. staging' \in [Uploads -> Content]
    BY <1>0, <1>7 DEF SealPromoted
  <2> QED
    BY <1>1, <1>7, <2>1, <2>2 DEF SealPromoted, sessionVars, budgetVars
<1>8. CASE DeleteFinal(p) \/ ResealStaging(p)
  <2>1. pc' \in [Procs -> Steps]
    BY <1>0, <1>8, GotoType DEF DeleteFinal, ResealStaging
  <2>2. staging' \in [Uploads -> Content] /\ final' \in [Uploads -> Content]
    BY <1>0, <1>8 DEF DeleteFinal, ResealStaging
  <2> QED
    BY <1>1, <1>8, <2>1, <2>2 DEF DeleteFinal, ResealStaging, sessionVars, budgetVars
<1>9. CASE AbortStorage(p)
  <2>1. pc' \in [Procs -> Steps]
    BY <1>0, <1>9, GotoType DEF AbortStorage
  <2>2. staging' \in [Uploads -> Content] /\ final' \in [Uploads -> Content]
        /\ mpu' \in [Uploads -> SUBSET Nat]
    BY <1>0, <1>9 DEF AbortStorage
  <2> QED
    BY <1>1, <1>9, <2>1, <2>2 DEF AbortStorage, sessionVars, budgetVars
<1> QED
  BY <1>2, <1>3, <1>4, <1>5, <1>6, <1>7, <1>8, <1>9 DEF ObjectStep

(* The transactions that open or settle a session. *)
LEMMA TransactionType ==
    ASSUME UploadTypeOK, NEW p \in Procs,
           \/ CommitUpload(p) \/ ReauthorizationFails(p) \/ RecordRejection(p)
           \/ AbortRelease(p) \/ ReconcileFinalization(p) \/ FinishCleanup(p)
    PROVE  UploadTypeOK'
<1> USE DEF UploadTypeOK
<1>0. /\ {"idle", "delete"} \subseteq Steps
      /\ {"RELEASED", "EXPIRED"} \subseteq ReservationStatus
      /\ {"COMPLETED", "FAILED", "ABORTED", "EXPIRED"} \subseteq SessionStatus
      /\ {"QUARANTINED", "FAILED"} \subseteq FileStatus
  BY DEF Steps, FinalizerSteps, ReservationStatus, SessionStatus, FileStatus
<1>1. ASSUME NEW u \in Uploads, Publish(u)
      PROVE  /\ QuotaTypeOK' /\ status' \in [Uploads -> SessionStatus \cup {"none"}]
             /\ fileStatus' \in [Uploads -> FileStatus]
  BY <1>0, <1>1, ConsumeReservationsType DEF Publish
<1>2. ASSUME UNCHANGED quotaVars PROVE QuotaTypeOK'
  BY <1>2 DEF quotaVars, QuotaTypeOK
<1>3. ASSUME CleanUp(p)
      PROVE  pc' \in [Procs -> Steps] /\ then' \in [Procs -> {"idle", "reject", "abortstorage"}]
  BY <1>0, <1>3, GotoType DEF CleanUp
<1>4. CASE CommitUpload(p) \/ ReconcileFinalization(p)
  <2>1. /\ QuotaTypeOK' /\ status' \in [Uploads -> SessionStatus \cup {"none"}]
        /\ fileStatus' \in [Uploads -> FileStatus]
    BY <1>1, <1>2, <1>4 DEF CommitUpload, ReconcileFinalization
  <2>2. pc' \in [Procs -> Steps] /\ then' \in [Procs -> {"idle", "reject", "abortstorage"}]
    BY <1>0, <1>3, <1>4, GotoType DEF CommitUpload, ReconcileFinalization
  <2> QED
    BY <1>4, <2>1, <2>2 DEF CommitUpload, ReconcileFinalization, storeVars, budgetVars
<1>5. CASE ReauthorizationFails(p)
  BY <1>2, <1>3, <1>5 DEF ReauthorizationFails, storeVars, budgetVars
<1>6. CASE RecordRejection(p)
  <2>1. /\ QuotaTypeOK' /\ status' \in [Uploads -> SessionStatus \cup {"none"}]
        /\ fileStatus' \in [Uploads -> FileStatus]
    BY <1>0, <1>2, <1>6, ReleaseReservationsType DEF RecordRejection
  <2>2. pc' \in [Procs -> Steps]
    BY <1>0, <1>6, GotoType DEF RecordRejection
  <2> QED
    BY <1>6, <2>1, <2>2 DEF RecordRejection, storeVars, budgetVars
<1>7. CASE AbortRelease(p)
  <2>1. QuotaTypeOK'
    BY <1>0, <1>7, ReleaseReservationsType DEF AbortRelease
  <2>2. pc' \in [Procs -> Steps]
    BY <1>0, <1>7, GotoType DEF AbortRelease
  <2> QED
    BY <1>7, <2>1, <2>2 DEF AbortRelease, sessionVars, storeVars, budgetVars
<1>8. CASE FinishCleanup(p)
  <2>1. QuotaTypeOK'
    BY <1>0, <1>2, <1>8, ReleaseReservationsType DEF FinishCleanup
  <2>2. pc' \in [Procs -> Steps]
    BY <1>0, <1>8, GotoType DEF FinishCleanup
  <2>3. /\ status' \in [Uploads -> SessionStatus \cup {"none"}]
        /\ fileStatus' \in [Uploads -> FileStatus]
    BY <1>0, <1>8 DEF FinishCleanup
  <2> QED
    BY <1>8, <2>1, <2>2, <2>3 DEF FinishCleanup, storeVars, budgetVars
<1> QED
  BY <1>4, <1>5, <1>6, <1>7, <1>8

(* A step may run for a session only once it exists. *)
LEMMA OpeningType ==
    ASSUME UploadTypeOK, NEW u \in Uploads,
           \/ \E r \in Requests : CompleteUpload(r, u) \/ AbortUpload(r, u)
           \/ \E w \in Workers : ClaimExpired(w, u)
           \/ Expire(u)
           \/ \E c \in {"good", "bad"} : ClientPut(u, c)
    PROVE  UploadTypeOK'
<1> USE DEF UploadTypeOK
<1>0. /\ {"headfinal", "assemble", "abortstorage"} \subseteq Steps
      /\ {"FINALIZING", "ABORTED", "EXPIRED"} \subseteq SessionStatus
      /\ "FAILED" \in FileStatus /\ {"none", "good", "bad"} \subseteq Content
      /\ Requests \subseteq Procs /\ Workers \subseteq Procs
  BY DEF Steps, FinalizerSteps, SessionStatus, FileStatus, Content, Procs
<1>2. UNCHANGED quotaVars => QuotaTypeOK'
  BY DEF quotaVars, QuotaTypeOK
<1>3. ASSUME NEW r \in Requests, CompleteUpload(r, u) PROVE UploadTypeOK'
  <2>1. /\ pc' \in [Procs -> Steps] /\ job' \in [Procs -> Uploads]
        /\ calls' \in 0..MaxCalls /\ faults' \in 0..MaxFaults
    BY <1>0, <1>3, CallType DEF CompleteUpload
  <2> QED
    BY <1>0, <1>2, <1>3, <2>1 DEF CompleteUpload, storeVars
<1>4. ASSUME NEW r \in Requests, AbortUpload(r, u) PROVE UploadTypeOK'
  <2>1. /\ pc' \in [Procs -> Steps] /\ job' \in [Procs -> Uploads]
        /\ calls' \in 0..MaxCalls /\ faults' \in 0..MaxFaults
    BY <1>0, <1>4, CallType DEF AbortUpload
  <2>2. /\ status' \in [Uploads -> SessionStatus \cup {"none"}]
        /\ fileStatus' \in [Uploads -> FileStatus] /\ due' \in [Uploads -> BOOLEAN]
    <3>1. CASE status[u] = "ABORTED"
      BY <1>4, <3>1 DEF AbortUpload
    <3>2. CASE status[u] # "ABORTED"
      <4>1. /\ status' = [status EXCEPT ![u] = "ABORTED"]
            /\ fileStatus' = [fileStatus EXCEPT ![u] = "FAILED"]
            /\ due' = [due EXCEPT ![u] = TRUE]
        BY <1>4, <3>2 DEF AbortUpload
      <4> QED
        BY <1>0, <4>1
    <3> QED
      BY <3>1, <3>2
  <2> QED
    BY <1>0, <1>2, <1>4, <2>1, <2>2 DEF AbortUpload, storeVars
<1>5. ASSUME NEW w \in Workers, ClaimExpired(w, u) PROVE UploadTypeOK'
  <2>1. pc' \in [Procs -> Steps]
    BY <1>0, <1>5, GotoType DEF ClaimExpired
  <2>2. status[u] \in SessionStatus
    BY <1>5 DEF ClaimExpired, Claimable, SessionStatus
  <2> QED
    BY <1>0, <1>2, <1>5, <2>1, <2>2 DEF ClaimExpired, storeVars, budgetVars
<1>6. CASE Expire(u)
  BY <1>2, <1>6 DEF Expire, storeVars, procVars, budgetVars
<1>7. ASSUME NEW c \in {"good", "bad"}, ClientPut(u, c) PROVE UploadTypeOK'
  BY <1>0, <1>2, <1>7 DEF ClientPut, sessionVars, procVars, budgetVars
<1> QED
  BY <1>3, <1>4, <1>5, <1>6, <1>7

(* The environment. *)
LEMMA EnvironmentType ==
    ASSUME UploadTypeOK, (\E p \in Procs : Fault(p)) \/ Meter \/ Midnight
    PROVE  UploadTypeOK'
<1> USE DEF UploadTypeOK
<1>1. ASSUME NEW p \in Procs, Fault(p) PROVE UploadTypeOK'
  <2>1. "idle" \in Steps /\ faults' \in 0..MaxFaults
    BY <1>1, UploadAssumption DEF Steps, Fault
  <2>2. pc' \in [Procs -> Steps]
    BY <1>1, <2>1, GotoType DEF Fault
  <2>3. QuotaTypeOK'
    BY <1>1 DEF Fault, quotaVars, QuotaTypeOK
  <2> QED
    BY <1>1, <2>1, <2>2, <2>3 DEF Fault, sessionVars, storeVars
<1>2. CASE Meter
  <2>1. QuotaTypeOK'
    BY <1>2, ConsumeType, QuotaAssumption DEF Meter, LimitKeys
  <2> QED
    BY <1>2, <2>1 DEF Meter, sessionVars, storeVars, procVars, budgetVars
<1>3. CASE Midnight
  <2>1. QuotaTypeOK'
    BY <1>3, QuotaTypeInductive DEF Midnight, QuotaNext
  <2> QED
    BY <1>3, <2>1 DEF Midnight, sessionVars, storeVars, procVars, budgetVars
<1> QED
  BY <1>1, <1>2, <1>3

LEMMA UploadInitType == UploadInit => UploadTypeOK
BY QuotaInitType, UploadAssumption
   DEF UploadInit, UploadTypeOK, SessionStatus, FileStatus, Content, Steps, NoId

(* Every step keeps the rows, the objects and the processes well formed. *)
LEMMA UploadTypeInductive ==
    ASSUME UploadTypeOK, [UploadNext]_uploadVars
    PROVE  UploadTypeOK'
<1>1. ASSUME NEW p \in Procs, Step(p) PROVE UploadTypeOK'
  BY <1>1, StorageUploadType, ObjectStepType, TransactionType DEF Step, ObjectStep
<1>2. ASSUME UNCHANGED uploadVars PROVE UploadTypeOK'
  <2>1. QuotaTypeOK => QuotaTypeOK'
    BY <1>2 DEF uploadVars, quotaVars, QuotaTypeOK
  <2> QED
    BY <1>2, <2>1 DEF uploadVars, sessionVars, storeVars, procVars, budgetVars, UploadTypeOK
<1> QED
  BY <1>1, <1>2, InitiateType, OpeningType, EnvironmentType DEF UploadNext, ApiCall

-----------------------------------------------------------------------------
(* Upload sessions: the invariant                                          *)

Closed == {"ABORTED", "FAILED", "EXPIRED"}

(* Where a process that works on a session can be: the session exists; for a
   single PUT there is no upload id and, when the quota is about to move, the
   staging key is occupied; a request aborts only what is closed. *)
Placed(p) ==
    pc[p] # "idle" =>
        /\ status[job[p]] # "none"
        /\ pc[p] = "assemble" => ~Single(job[p])
        /\ Single(job[p]) /\ pc[p] # "create" => uid[p] = NoId
        /\ Single(job[p]) /\ pc[p] \in {"commit", "reject", "release"}
              => staging[job[p]] # "none"
        /\ p \in Requests /\ pc[p] \in {"abortstorage", "release"}
              => status[job[p]] \in Closed

(* A single PUT has no upload id, and its object was copied from staging. *)
SinglePut ==
    \A u \in Uploads : Single(u) =>
        /\ uploadId[u] = NoId
        /\ final[u] # "none" => staging[u] # "none"

UploadInv ==
    /\ UploadTypeOK /\ SessionAgreesWithQuota /\ CapabilityRevoked /\ SinglePut
    /\ \A p \in Procs : Placed(p)
    /\ \A r \in Requests : then[r] # "abortstorage"

(* Sessions only move on, and a staging key that is occupied stays so. *)
Onward ==
    \A u \in Uploads :
        /\ status[u] = "COMPLETED" => status'[u] = "COMPLETED"
        /\ status[u] # "none" => status'[u] # "none"
        /\ status[u] \in Closed => status'[u] \in Closed
        /\ staging[u] # "none" => staging'[u] # "none"

(* The step is that of p. *)
StepOf(p) ==
    \A q \in Procs \ {p} :
        pc'[q] = pc[q] /\ job'[q] = job[q] /\ uid'[q] = uid[q] /\ then'[q] = then[q]

(* The other processes stay where they are. *)
LEMMA OthersPlaced ==
    ASSUME UploadInv, Onward, NEW p, StepOf(p)
    PROVE  /\ \A q \in Procs \ {p} : Placed(q)'
           /\ \A r \in Requests \ {p} : then'[r] # "abortstorage"
<1>1. ASSUME NEW q \in Procs \ {p} PROVE Placed(q)'
  <2>1. Placed(q) /\ job[q] \in Uploads
    BY DEF UploadInv, UploadTypeOK
  <2>2. pc'[q] = pc[q] /\ job'[q] = job[q] /\ uid'[q] = uid[q]
    BY DEF StepOf
  <2> QED
    BY <2>1, <2>2 DEF Placed, Onward
<1> QED
  BY <1>1 DEF UploadInv, StepOf, Procs

(* A step that settles nothing. *)
LEMMA NothingSettled ==
    ASSUME UploadInv, UNCHANGED quotaVars, UNCHANGED <<status, fileStatus>>,
           \A u \in Uploads : staging[u] # "none" => staging'[u] # "none"
    PROVE  SessionAgreesWithQuota' /\ CapabilityRevoked' /\ Onward
<1>1. UNCHANGED <<resv, status, fileStatus>>
  BY DEF quotaVars
<1>2. SessionAgreesWithQuota'
  BY <1>1 DEF UploadInv, SessionAgreesWithQuota
<1>3. CapabilityRevoked'
  BY <1>1 DEF UploadInv, CapabilityRevoked, Held
<1>4. Onward
  BY <1>1 DEF Onward
<1> QED
  BY <1>2, <1>3, <1>4

(* Where a process goes. *)
LEMMA GotoMeans ==
    ASSUME UploadTypeOK, NEW p \in Procs, NEW s, Goto(p, s)
    PROVE  pc'[p] = s /\ \A q \in Procs \ {p} : pc'[q] = pc[q]
BY DEF UploadTypeOK, Goto

LEMMA JudgeMeans ==
    ASSUME UploadTypeOK, NEW p \in Procs, NEW o, Judge(p, o)
    PROVE  /\ pc'[p] = (IF o = "good" THEN "commit" ELSE "delete")
           /\ then'[p] = (IF p \in Workers THEN "abortstorage" ELSE "reject")
           /\ stored'[p] = o
           /\ \A q \in Procs \ {p} : pc'[q] = pc[q] /\ then'[q] = then[q] /\ stored'[q] = stored[q]
BY GotoMeans DEF UploadTypeOK, Judge

(* What an S3 call does to the objects and to its process. *)
S3Effect(p) ==
    LET u == job[p]
    IN  /\ \A q \in Procs \ {p} : pc'[q] = pc[q] /\ then'[q] = then[q]
        /\ pc[p] \notin {"idle", "create"} /\ pc'[p] \notin {"create", "assemble"}
        /\ \A v \in Uploads \ {u} : staging'[v] = staging[v] /\ final'[v] = final[v]
        /\ staging[u] # "none" => staging'[u] # "none"
        /\ Single(u) /\ final'[u] # "none" => staging'[u] # "none"
        /\ Single(u) /\ pc'[p] \in {"commit", "reject", "release"} => staging'[u] # "none"
        /\ p \in Requests => then'[p] # "abortstorage"
        /\ p \in Requests /\ pc'[p] \in {"abortstorage", "release"} => pc[p] = "abortstorage"

LEMMA ObjectEffect ==
    ASSUME UploadInv, NEW p \in Procs, ObjectStep(p)
    PROVE  S3Effect(p)
<1>1. PICK u \in Uploads : u = job[p]
  BY DEF UploadInv, UploadTypeOK
<1>2. /\ UploadTypeOK /\ Placed(p) /\ (p \in Requests => then[p] # "abortstorage")
      /\ Single(u) /\ final[u] # "none" => staging[u] # "none"
      /\ p \in Requests => p \notin Workers
      /\ p \notin Requests => p \in Workers
  BY <1>1, UploadAssumption DEF UploadInv, SinglePut, Procs
<1> USE <1>1, <1>2, GotoMeans DEF S3Effect
<1>3. staging \in [Uploads -> Content] /\ final \in [Uploads -> Content]
      /\ then[p] \in {"idle", "reject", "abortstorage"}
  BY DEF UploadTypeOK
<1>4. CASE AssembleParts(p)
  BY <1>3, <1>4 DEF AssembleParts, Placed
<1>5. CASE HeadFinal(p)
  BY <1>5, JudgeMeans DEF HeadFinal, storeVars
<1>6. CASE HeadStaging(p)
  BY <1>6, JudgeMeans DEF HeadStaging, storeVars
<1>7. CASE CopyObject(p)
  BY <1>3, <1>7 DEF CopyObject
<1>8. CASE HeadPromoted(p)
  BY <1>8 DEF HeadPromoted, storeVars
<1>9. CASE SealPromoted(p)
  BY <1>3, <1>9, JudgeMeans DEF SealPromoted
<1>10. CASE DeleteFinal(p)
  BY <1>3, <1>10 DEF DeleteFinal
<1>11. CASE ResealStaging(p)
  BY <1>3, <1>11 DEF ResealStaging
<1>12. CASE AbortStorage(p)
  <2>1. pc[p] = "abortstorage" /\ pc'[p] = "release" /\ UNCHANGED then
        /\ \A q \in Procs \ {p} : pc'[q] = pc[q]
    BY <1>12 DEF AbortStorage
  <2>2. Single(u) => uid[p] = NoId
    BY <2>1 DEF Placed
  <2>3. /\ \A v \in Uploads \ {u} : staging'[v] = staging[v] /\ final'[v] = final[v]
        /\ staging[u] # "none" => staging'[u] # "none"
        /\ Single(u) => staging'[u] = "tomb"
    <3>1. CASE uid[p] # NoId
      BY <1>12, <2>2, <3>1 DEF AbortStorage
    <3>2. CASE uid[p] = NoId /\ Single(u)
      BY <1>3, <1>12, <3>2 DEF AbortStorage, Single
    <3>3. CASE uid[p] = NoId /\ u \in Multipart
      BY <1>3, <1>12, <3>3 DEF AbortStorage, Single
    <3> QED
      BY <3>1, <3>2, <3>3 DEF Single
  <2> QED
    BY <2>1, <2>3
<1> QED
  BY <1>4, <1>5, <1>6, <1>7, <1>8, <1>9, <1>10, <1>11, <1>12 DEF ObjectStep

(* S3 calls. *)
LEMMA ObjectStepKeeps ==
    ASSUME UploadInv, UploadTypeOK', NEW p \in Procs, ObjectStep(p)
    PROVE  UploadInv' /\ Onward
<1>0. UNCHANGED quotaVars /\ UNCHANGED <<status, fileStatus, uploadId, job, uid>>
  BY ObjectsOnly DEF sessionVars
<1>1. S3Effect(p)
  BY ObjectEffect
<1>2. job[p] \in Uploads
  BY DEF UploadInv, UploadTypeOK
<1>3. \A u \in Uploads : staging[u] # "none" => staging'[u] # "none"
  BY <1>1, <1>2 DEF S3Effect
<1>4. SessionAgreesWithQuota' /\ CapabilityRevoked' /\ Onward
  BY <1>0, <1>3, NothingSettled
<1>5. StepOf(p)
  BY <1>0, <1>1 DEF S3Effect, StepOf
<1>6. SinglePut'
  BY <1>0, <1>1, <1>2 DEF S3Effect, UploadInv, SinglePut
<1>7. Placed(p)'
  <2>1. Placed(p)
    BY DEF UploadInv
  <2>2. /\ status[job[p]] # "none" /\ (Single(job[p]) => uid[p] = NoId)
        /\ p \in Requests /\ pc[p] = "abortstorage" => status[job[p]] \in Closed
    BY <1>1, <2>1 DEF S3Effect, Placed
  <2>3. /\ pc'[p] # "assemble"
        /\ Single(job[p]) /\ pc'[p] \in {"commit", "reject", "release"} => staging'[job[p]] # "none"
        /\ p \in Requests /\ pc'[p] \in {"abortstorage", "release"} => pc[p] = "abortstorage"
    BY <1>1 DEF S3Effect
  <2> QED
    BY <1>0, <2>2, <2>3 DEF Placed
<1>8. p \in Requests => then'[p] # "abortstorage"
  BY <1>1 DEF S3Effect
<1> QED
  BY <1>4, <1>5, <1>6, <1>7, <1>8, OthersPlaced DEF UploadInv

(* Putting the invariant together again after a step of one process. *)
LEMMA InvariantKept ==
    ASSUME UploadInv, UploadTypeOK', SessionAgreesWithQuota', CapabilityRevoked', SinglePut',
           Onward, NEW p \in Procs, StepOf(p), Placed(p)',
           p \in Requests => then'[p] # "abortstorage"
    PROVE  UploadInv' /\ Onward
BY OthersPlaced DEF UploadInv

(* What a settlement does to the rows. *)
LEMMA SettlementRows ==
    ASSUME QuotaTypeOK, NEW u \in Uploads, NEW s,
           \/ s = "CONSUMED" /\ ConsumeUploadReservations(u)
           \/ ReleaseUploadReservations(u, s)
    PROVE  \A v \in Uploads, k \in UploadKeys :
              resv'[v][k] = IF v = u /\ resv[v][k] = "HELD" THEN s ELSE resv[v][k]
<1>1. resv' = [resv EXCEPT ![u] = [k \in UploadKeys |->
                  IF resv[u][k] = "HELD" THEN s ELSE resv[u][k]]]
  BY DEF ConsumeUploadReservations, ReleaseUploadReservations
<1> QED
  BY <1>1 DEF QuotaTypeOK

(* The first request of an upload opens the session with all it reserves. *)
LEMMA InitiateKeeps ==
    ASSUME UploadInv, UploadTypeOK', NEW r \in Requests, NEW u \in Uploads, InitiateUpload(r, u)
    PROVE  UploadInv' /\ Onward
<1>0. r \in Procs /\ UploadTypeOK
  BY DEF Procs, UploadInv
<1>1. /\ status[u] = "none" /\ Goto(r, "create") /\ job' = [job EXCEPT ![r] = u]
      /\ resv' = [resv EXCEPT ![u] = [k \in UploadKeys |-> "HELD"]]
      /\ status' = [status EXCEPT ![u] = "INITIATED"]
      /\ fileStatus' = [fileStatus EXCEPT ![u] = "UPLOADING"]
      /\ UNCHANGED <<uploadId, staging, final, uid, then>>
  BY Zenon DEF InitiateUpload, Call, ReserveMany, storeVars
<1>2. /\ \A v \in Uploads : /\ status'[v] = IF v = u THEN "INITIATED" ELSE status[v]
                            /\ fileStatus'[v] = IF v = u THEN "UPLOADING" ELSE fileStatus[v]
      /\ \A v \in Uploads, k \in UploadKeys : resv'[v][k] = IF v = u THEN "HELD" ELSE resv[v][k]
  BY <1>0, <1>1 DEF UploadTypeOK, QuotaTypeOK
<1>3. /\ pc'[r] = "create" /\ job'[r] = u
      /\ \A q \in Procs \ {r} : pc'[q] = pc[q] /\ job'[q] = job[q]
  BY <1>0, <1>1, GotoMeans DEF UploadTypeOK
<1>4. SessionAgreesWithQuota'
  BY <1>2 DEF UploadInv, SessionAgreesWithQuota
<1>5. CapabilityRevoked'
  BY <1>1, <1>2, UploadAssumption DEF UploadInv, CapabilityRevoked, Held
<1>6. Onward /\ StepOf(r) /\ SinglePut'
  BY <1>1, <1>2, <1>3 DEF UploadInv, SinglePut, Onward, StepOf, Closed
<1>7. Placed(r)'
  BY <1>2, <1>3 DEF Placed
<1>8. then'[r] # "abortstorage"
  BY <1>1 DEF UploadInv
<1> QED
  BY <1>0, <1>4, <1>5, <1>6, <1>7, <1>8, InvariantKept

(* A repeated request, the S3 half of an initiation and a cut-off step. *)
LEMMA StorageUploadKeeps ==
    ASSUME UploadInv, UploadTypeOK', NEW p \in Procs,
           \/ p \in Requests /\ \E u \in Uploads : ReplayInitiate(p, u)
           \/ CreateStorageUpload(p) \/ PersistStorageUpload(p) \/ DropDuplicate(p)
           \/ Fault(p)
    PROVE  UploadInv' /\ Onward
<1>0. UploadTypeOK /\ (\A r \in Requests : then[r] # "abortstorage") /\ Placed(p)
      /\ job[p] \in Uploads
  BY DEF UploadInv, UploadTypeOK
<1> USE DEF Procs
<1>1. /\ UNCHANGED quotaVars
      /\ UNCHANGED <<status, fileStatus, staging, final, then>>
  <2>1. ASSUME NEW u, ReplayInitiate(p, u)
        PROVE  UNCHANGED quotaVars /\ UNCHANGED <<status, fileStatus, staging, final, then>>
    BY <2>1, Zenon DEF ReplayInitiate, storeVars
  <2>2. CASE CreateStorageUpload(p)
    BY <2>2, Zenon DEF CreateStorageUpload, sessionVars
  <2>3. CASE PersistStorageUpload(p)
    BY <2>3, Zenon DEF PersistStorageUpload, storeVars
  <2>4. CASE DropDuplicate(p)
    BY <2>4, Zenon DEF DropDuplicate
  <2>5. CASE Fault(p)
    BY <2>5, Zenon DEF Fault, sessionVars, storeVars
  <2> QED
    BY <2>1, <2>2, <2>3, <2>4, <2>5
<1>2. SessionAgreesWithQuota' /\ CapabilityRevoked' /\ Onward
  BY <1>1, NothingSettled
<1>3. CASE \E u \in Uploads : ReplayInitiate(p, u)
  <2>1. PICK u \in Uploads : ReplayInitiate(p, u)
    BY <1>3
  <2>2. /\ status[u] # "none" /\ job' = [job EXCEPT ![p] = u] /\ UNCHANGED <<uid, uploadId>>
        /\ Goto(p, "create") \/ Goto(p, "idle")
    BY <2>1, Zenon DEF ReplayInitiate, Call
  <2>3. /\ pc'[p] \in {"create", "idle"} /\ job'[p] = u
        /\ \A q \in Procs \ {p} : pc'[q] = pc[q] /\ job'[q] = job[q]
    BY <1>0, <2>2, GotoMeans DEF UploadTypeOK
  <2>4. StepOf(p) /\ Placed(p)' /\ SinglePut'
    BY <1>1, <2>2, <2>3 DEF StepOf, Placed, SinglePut, UploadInv
  <2> QED
    BY <1>0, <1>1, <1>2, <2>4, InvariantKept
<1>4. CASE CreateStorageUpload(p)
  <2>1. pc[p] = "create" /\ Goto(p, "persist") /\ UNCHANGED <<job, uploadId>>
        /\ \E i : uid' = [uid EXCEPT ![p] = i] /\ (Single(job[p]) => i = NoId)
    BY <1>4 DEF CreateStorageUpload, sessionVars, Single
  <2>2. /\ pc'[p] = "persist" /\ (Single(job[p]) => uid'[p] = NoId)
        /\ \A q \in Procs \ {p} : pc'[q] = pc[q] /\ uid'[q] = uid[q]
    BY <1>0, <2>1, GotoMeans DEF UploadTypeOK
  <2>3. StepOf(p) /\ Placed(p)' /\ SinglePut'
    BY <1>0, <1>1, <2>1, <2>2 DEF StepOf, Placed, SinglePut, UploadInv
  <2> QED
    BY <1>0, <1>1, <1>2, <2>3, InvariantKept
<1>5. CASE PersistStorageUpload(p)
  <2>1. /\ pc[p] = "persist" /\ (Goto(p, "dropdup") \/ Goto(p, "idle")) /\ UNCHANGED <<job, uid>>
        /\ uploadId' = [uploadId EXCEPT ![job[p]] = uid[p]] \/ UNCHANGED uploadId
    BY <1>5, Zenon DEF PersistStorageUpload
  <2>2. /\ pc'[p] \in {"dropdup", "idle"} /\ (Single(job[p]) => uid[p] = NoId)
        /\ \A q \in Procs \ {p} : pc'[q] = pc[q]
    BY <1>0, <2>1, GotoMeans DEF Placed
  <2>3. SinglePut'
    BY <1>0, <1>1, <2>1, <2>2 DEF SinglePut, UploadInv, UploadTypeOK
  <2>4. StepOf(p) /\ Placed(p)'
    BY <1>0, <1>1, <2>1, <2>2 DEF StepOf, Placed
  <2> QED
    BY <1>0, <1>1, <1>2, <2>3, <2>4, InvariantKept
<1>6. CASE DropDuplicate(p) \/ Fault(p)
  <2>1. Goto(p, "idle") /\ UNCHANGED <<job, uid, uploadId>>
    BY <1>6, Zenon DEF DropDuplicate, Fault, sessionVars
  <2>2. pc'[p] = "idle" /\ \A q \in Procs \ {p} : pc'[q] = pc[q]
    BY <1>0, <2>1, GotoMeans
  <2>3. StepOf(p) /\ Placed(p)' /\ SinglePut'
    BY <1>1, <2>1, <2>2 DEF StepOf, Placed, SinglePut, UploadInv
  <2> QED
    BY <1>0, <1>1, <1>2, <2>3, InvariantKept
<1> QED
  BY <1>3, <1>4, <1>5, <1>6

(* complete_upload and abort_upload take a session over, the reconciler claims
   one: the transaction before the S3 calls. *)
LEMMA OpeningKeeps ==
    ASSUME UploadInv, UploadTypeOK', NEW p \in Procs, NEW u \in Uploads,
           \/ p \in Requests /\ (CompleteUpload(p, u) \/ AbortUpload(p, u))
           \/ p \in Workers /\ ClaimExpired(p, u)
    PROVE  UploadInv' /\ Onward
<1>0. /\ UploadTypeOK /\ SessionAgreesWithQuota /\ CapabilityRevoked /\ SinglePut
      /\ p \in Requests => then[p] # "abortstorage" /\ p \notin Workers
  BY UploadAssumption DEF UploadInv
<1>1. /\ UNCHANGED <<resv, uploadId, staging, final, then>>
      /\ job' = [job EXCEPT ![p] = u] /\ uid' = [uid EXCEPT ![p] = uploadId[u]]
      /\ \E s \in {"headfinal", "abortstorage", "assemble"} : Goto(p, s)
  <2>1. CASE CompleteUpload(p, u)
    BY <2>1, Zenon DEF CompleteUpload, Call, quotaVars, storeVars
  <2>2. CASE AbortUpload(p, u)
    BY <2>2, Zenon DEF AbortUpload, Call, quotaVars, storeVars
  <2>3. CASE ClaimExpired(p, u)
    BY <2>3, Zenon DEF ClaimExpired, quotaVars, storeVars
  <2> QED
    BY <2>1, <2>2, <2>3
<1>2. /\ job'[p] = u /\ uid'[p] = uploadId[u]
      /\ \A q \in Procs \ {p} : pc'[q] = pc[q] /\ job'[q] = job[q] /\ uid'[q] = uid[q]
      /\ pc'[p] \in {"headfinal", "abortstorage", "assemble"}
  BY <1>0, <1>1, GotoMeans DEF UploadTypeOK
<1>3. /\ \A v \in Uploads \ {u} : status'[v] = status[v] /\ fileStatus'[v] = fileStatus[v]
      /\ \/ /\ status[u] \in {"INITIATED", "FINALIZING"} /\ status'[u] = "FINALIZING"
            /\ fileStatus'[u] = fileStatus[u]
         \/ /\ status[u] \in {"INITIATED", "FINALIZING"} \cup Closed /\ status'[u] = "ABORTED"
            /\ status[u] = "ABORTED" \/ fileStatus'[u] = "FAILED"
            /\ status[u] = "ABORTED" => fileStatus'[u] = fileStatus[u]
         \/ /\ status[u] \in {"INITIATED", "FINALIZING"} \cup Closed /\ status'[u] = status[u]
            /\ status[u] # "INITIATED" /\ fileStatus'[u] = fileStatus[u]
         \/ /\ status[u] = "INITIATED" /\ status'[u] = "EXPIRED" /\ fileStatus'[u] = fileStatus[u]
      /\ pc'[p] = "assemble" => ~Single(u)
      /\ p \in Requests /\ pc'[p] = "abortstorage" => status'[u] = "ABORTED"
  <2>0. /\ status \in [Uploads -> SessionStatus \cup {"none"}]
        /\ fileStatus \in [Uploads -> FileStatus]
    BY <1>0 DEF UploadTypeOK
  <2>1. CASE p \in Requests /\ CompleteUpload(p, u)
    <3>1. /\ status[u] \in {"INITIATED", "FINALIZING"} /\ UNCHANGED fileStatus
          /\ status' = [status EXCEPT ![u] = "FINALIZING"]
          /\ Goto(p, IF Single(u) THEN "headfinal" ELSE "assemble")
      BY <2>1, Zenon DEF CompleteUpload, Call
    <3> QED
      BY <1>0, <2>0, <3>1, GotoMeans
  <2>2. CASE p \in Requests /\ AbortUpload(p, u)
    <3>1. /\ status[u] \notin {"none", "COMPLETED", "EXPIRED"} /\ Goto(p, "abortstorage")
          /\ \/ status[u] = "ABORTED" /\ UNCHANGED <<status, fileStatus>>
             \/ /\ status[u] # "ABORTED" /\ status' = [status EXCEPT ![u] = "ABORTED"]
                /\ fileStatus' = [fileStatus EXCEPT ![u] = "FAILED"]
      BY <2>2, Zenon DEF AbortUpload, Call
    <3> QED
      BY <1>0, <2>0, <3>1, GotoMeans DEF SessionStatus, Closed
  <2>3. CASE p \in Workers /\ ClaimExpired(p, u)
    <3>1. /\ status[u] \in {"INITIATED", "FINALIZING", "ABORTED", "EXPIRED"}
          /\ status' = [status EXCEPT ![u] = IF @ = "INITIATED" THEN "EXPIRED" ELSE @]
          /\ UNCHANGED fileStatus
          /\ Goto(p, IF status[u] = "FINALIZING" THEN "headfinal" ELSE "abortstorage")
      BY <2>3, Zenon DEF ClaimExpired, Claimable
    <3> QED
      BY <1>0, <2>0, <2>3, <3>1, GotoMeans DEF Closed
  <2> QED
    BY <2>1, <2>2, <2>3
<1>4. SessionAgreesWithQuota'
  <2> SUFFICES ASSUME NEW v \in Uploads
               PROVE  /\ (status[v] = "COMPLETED")' <=> (fileStatus[v] = "QUARANTINED")'
                      /\ \A k \in UploadKeys :
                           /\ (status[v] = "none")' <=> (resv[v][k] = "none")'
                           /\ (status[v] = "COMPLETED")' <=> (resv[v][k] = "CONSUMED")'
                           /\ (status[v] \in {"INITIATED", "FINALIZING"})' => (resv[v][k] = "HELD")'
                           /\ (status[v] = "FAILED")' => (resv[v][k] \in {"RELEASED", "EXPIRED"})'
    BY DEF SessionAgreesWithQuota
  <2>1. CASE v # u
    BY <1>0, <1>1, <1>3, <2>1 DEF SessionAgreesWithQuota
  <2>2. CASE v = u
    BY <1>0, <1>1, <1>3, <2>2 DEF SessionAgreesWithQuota, Closed
  <2> QED
    BY <2>1, <2>2
<1>5. Onward
  BY <1>1, <1>3 DEF Onward, Closed
<1>6. CapabilityRevoked'
  <2>1. \A v \in Uploads : status'[v] # "none" => status[v] # "none"
    BY <1>3 DEF Closed
  <2> QED
    BY <1>0, <1>1, <2>1 DEF CapabilityRevoked, Held
<1>7. SinglePut' /\ StepOf(p)
  BY <1>0, <1>1, <1>2 DEF SinglePut, StepOf
<1>8. Placed(p)'
  BY <1>0, <1>2, <1>3 DEF Placed, Closed, SinglePut
<1> QED
  BY <1>0, <1>1, <1>4, <1>5, <1>6, <1>7, <1>8, InvariantKept

(* The steps in which no process moves. *)
LEMMA EnvironmentKeeps ==
    ASSUME UploadInv, UploadTypeOK',
           \/ \E u \in Uploads : Expire(u) \/ \E c \in {"good", "bad"} : ClientPut(u, c)
           \/ Meter \/ Midnight \/ UNCHANGED uploadVars
    PROVE  UploadInv' /\ Onward
<1>1. /\ UNCHANGED <<resv, status, fileStatus, uploadId, final, pc, job, uid, then>>
      /\ \A u \in Uploads : staging[u] # "none" => staging'[u] # "none"
  <2>1. ASSUME NEW u \in Uploads, Expire(u)
        PROVE  UNCHANGED <<resv, status, fileStatus, uploadId, final, pc, job, uid, then, staging>>
    BY <2>1, Zenon DEF Expire, quotaVars, storeVars, procVars
  <2>2. ASSUME NEW u \in Uploads, NEW c \in {"good", "bad"}, ClientPut(u, c)
        PROVE  /\ UNCHANGED <<resv, status, fileStatus, uploadId, final, pc, job, uid, then>>
               /\ \A v \in Uploads : staging[v] # "none" => staging'[v] # "none"
    <3>1. UNCHANGED <<resv, status, fileStatus, uploadId, final, pc, job, uid, then>>
          /\ staging' = [staging EXCEPT ![u] = c]
      BY <2>2, Zenon DEF ClientPut, quotaVars, sessionVars, procVars
    <3> QED
      BY <3>1 DEF UploadInv, UploadTypeOK
  <2>3. CASE Meter
    <3>1. \E k, a : Consume(k, a)
      BY <2>3 DEF Meter
    <3> QED
      BY <2>3, <3>1, Zenon DEF Meter, Consume, sessionVars, storeVars, procVars
  <2>4. CASE Midnight
    BY <2>4, Zenon DEF Midnight, NextDay, sessionVars, storeVars, procVars
  <2>5. CASE UNCHANGED uploadVars
    BY <2>5, Zenon DEF uploadVars, quotaVars, sessionVars, storeVars, procVars
  <2> QED
    BY <2>1, <2>2, <2>3, <2>4, <2>5
<1>2. SessionAgreesWithQuota' /\ CapabilityRevoked' /\ SinglePut' /\ Onward
  BY <1>1 DEF UploadInv, SessionAgreesWithQuota, CapabilityRevoked, Held, SinglePut, Onward
<1>3. ASSUME NEW p \in Procs PROVE Placed(p)'
  <2>1. Placed(p) /\ job[p] \in Uploads
    BY DEF UploadInv, UploadTypeOK
  <2> QED
    BY <1>1, <2>1 DEF Placed
<1> QED
  BY <1>1, <1>2, <1>3 DEF UploadInv

(* What a settling transaction does to its session. *)
Settles(p, u) ==
    /\ \A v \in Uploads \ {u} : status'[v] = status[v] /\ fileStatus'[v] = fileStatus[v]
    /\ \/ /\ UNCHANGED <<resv, status, fileStatus>>
       \/ /\ status[u] = "FINALIZING" /\ Publish(u)
       \/ \E s \in {"RELEASED", "EXPIRED"} :
             /\ ReleaseUploadReservations(u, s)
             /\ pc[p] \in {"reject", "release"} /\ status[u] # "COMPLETED"
             /\ \/ status'[u] \in Closed /\ fileStatus'[u] = "FAILED"
                \/ /\ status[u] \in Closed
                   /\ status'[u] = status[u] /\ fileStatus'[u] = fileStatus[u]

(* The transactions after the S3 calls. *)
LEMMA TransactionEffect ==
    ASSUME UploadInv, NEW p \in Procs,
           \/ p \in Requests /\ (\/ CommitUpload(p) \/ ReauthorizationFails(p)
                                 \/ RecordRejection(p) \/ AbortRelease(p))
           \/ p \in Workers /\ (ReconcileFinalization(p) \/ FinishCleanup(p))
    PROVE  /\ Settles(p, job[p])
           /\ UNCHANGED <<uploadId, staging, final, job, uid>>
           /\ pc[p] \in {"commit", "reject", "release"}
           /\ \/ Goto(p, "idle") /\ UNCHANGED then
              \/ CleanUp(p)
<1>0. /\ job[p] \in Uploads /\ status \in [Uploads -> SessionStatus \cup {"none"}]
      /\ fileStatus \in [Uploads -> FileStatus] /\ Placed(p)
  BY DEF UploadInv, UploadTypeOK
<1> DEFINE u == job[p]
<1> USE <1>0
<1>1. ASSUME Publish(u) PROVE \A v \in Uploads \ {u} : status'[v] = status[v] /\ fileStatus'[v] = fileStatus[v]
  BY <1>1 DEF Publish
<1>2. CASE CommitUpload(p)
  <2>1. UNCHANGED <<uploadId, staging, final, job, uid>> /\ pc[p] = "commit"
    BY <1>2, Zenon DEF CommitUpload, storeVars
  <2>2. (Goto(p, "idle") /\ UNCHANGED then) \/ CleanUp(p)
    BY <1>2 DEF CommitUpload
  <2>3. UNCHANGED <<resv, status, fileStatus>> \/ (status[u] = "FINALIZING" /\ Publish(u))
    BY <1>2 DEF CommitUpload, quotaVars
  <2> QED
    BY <1>1, <2>1, <2>2, <2>3 DEF Settles
<1>3. CASE ReconcileFinalization(p)
  <2>1. UNCHANGED <<uploadId, staging, final, job, uid>> /\ pc[p] = "commit"
    BY <1>3, Zenon DEF ReconcileFinalization, storeVars
  <2>2. (Goto(p, "idle") /\ UNCHANGED then) \/ CleanUp(p)
    BY <1>3 DEF ReconcileFinalization
  <2>3. UNCHANGED <<resv, status, fileStatus>> \/ (status[u] = "FINALIZING" /\ Publish(u))
    BY <1>3 DEF ReconcileFinalization, quotaVars
  <2> QED
    BY <1>1, <2>1, <2>2, <2>3 DEF Settles
<1>4. CASE ReauthorizationFails(p)
  <2>1. /\ UNCHANGED <<uploadId, staging, final, job, uid>> /\ pc[p] = "commit" /\ CleanUp(p)
        /\ UNCHANGED <<resv, status, fileStatus>>
    BY <1>4, Zenon DEF ReauthorizationFails, quotaVars, storeVars
  <2> QED
    BY <2>1 DEF Settles
<1>5. CASE RecordRejection(p)
  <2>1. /\ UNCHANGED <<uploadId, staging, final, job, uid, then>> /\ pc[p] = "reject" /\ Goto(p, "idle")
        /\ \/ UNCHANGED <<resv, status, fileStatus>>
           \/ /\ status[u] = "FINALIZING" /\ status' = [status EXCEPT ![u] = "FAILED"]
              /\ fileStatus' = [fileStatus EXCEPT ![u] = "FAILED"]
              /\ ReleaseUploadReservations(u, "RELEASED")
    BY <1>5, Zenon DEF RecordRejection, quotaVars, storeVars
  <2> QED
    BY <2>1 DEF Settles, Closed
<1>6. CASE p \in Requests /\ AbortRelease(p)
  <2>1. /\ UNCHANGED <<uploadId, staging, final, job, uid, then>> /\ pc[p] = "release" /\ Goto(p, "idle")
        /\ UNCHANGED <<status, fileStatus>> /\ ReleaseUploadReservations(u, "RELEASED")
    BY <1>6, Zenon DEF AbortRelease, sessionVars, storeVars
  <2>2. status[u] \in Closed
    BY <1>6, <2>1 DEF Placed
  <2> QED
    BY <2>1, <2>2 DEF Settles, Closed
<1>7. CASE FinishCleanup(p)
  <2>1. /\ UNCHANGED <<uploadId, staging, final, job, uid, then>> /\ pc[p] = "release" /\ Goto(p, "idle")
        /\ \/ UNCHANGED <<resv, status, fileStatus>>
           \/ /\ status[u] # "COMPLETED"
              /\ \E s \in {"RELEASED", "EXPIRED"} : ReleaseUploadReservations(u, s)
              /\ \E c \in Closed : status' = [status EXCEPT ![u] = c]
              /\ fileStatus' = [fileStatus EXCEPT ![u] = "FAILED"]
    BY <1>7 DEF FinishCleanup, quotaVars, storeVars, Closed
  <2> QED
    BY <2>1 DEF Settles
<1> QED
  BY <1>2, <1>3, <1>4, <1>5, <1>6, <1>7

(* Settling keeps the story of session, file and reservations, and gives quota
   back only over an occupied staging key. *)
LEMMA TransactionKeeps ==
    ASSUME UploadInv, UploadTypeOK', NEW p \in Procs,
           \/ p \in Requests /\ (\/ CommitUpload(p) \/ ReauthorizationFails(p)
                                 \/ RecordRejection(p) \/ AbortRelease(p))
           \/ p \in Workers /\ (ReconcileFinalization(p) \/ FinishCleanup(p))
    PROVE  UploadInv' /\ Onward
<1>1. PICK u \in Uploads : u = job[p]
  BY DEF UploadInv, UploadTypeOK
<1>2. /\ Settles(p, u) /\ UNCHANGED <<uploadId, staging, final, job, uid>>
      /\ pc[p] \in {"commit", "reject", "release"}
      /\ (Goto(p, "idle") /\ UNCHANGED then) \/ CleanUp(p)
  BY <1>1, TransactionEffect
<1>3. /\ UploadTypeOK /\ QuotaTypeOK /\ SessionAgreesWithQuota /\ CapabilityRevoked /\ SinglePut
      /\ Placed(p) /\ status \in [Uploads -> SessionStatus \cup {"none"}]
      /\ fileStatus \in [Uploads -> FileStatus]
  BY DEF UploadInv, UploadTypeOK
<1>4. status[u] # "none" /\ (Single(u) => staging[u] # "none" /\ uid[p] = NoId)
  BY <1>1, <1>2, <1>3 DEF Placed
<1>5. /\ \A v \in Uploads : v # u => /\ status'[v] = status[v] /\ fileStatus'[v] = fileStatus[v]
                                     /\ \A k \in UploadKeys : resv'[v][k] = resv[v][k]
      /\ \/ /\ status'[u] = status[u] /\ fileStatus'[u] = fileStatus[u]
            /\ \A k \in UploadKeys : resv'[u][k] = resv[u][k]
         \/ /\ status[u] = "FINALIZING" /\ status'[u] = "COMPLETED" /\ fileStatus'[u] = "QUARANTINED"
            /\ \A k \in UploadKeys :
                  resv'[u][k] = IF resv[u][k] = "HELD" THEN "CONSUMED" ELSE resv[u][k]
         \/ /\ status[u] # "COMPLETED" /\ status'[u] \in Closed
            /\ \/ fileStatus'[u] = "FAILED"
               \/ status[u] = status'[u] /\ fileStatus'[u] = fileStatus[u]
            /\ \E s \in {"RELEASED", "EXPIRED"} : \A k \in UploadKeys :
                  resv'[u][k] = IF resv[u][k] = "HELD" THEN s ELSE resv[u][k]
  <2>1. CASE UNCHANGED <<resv, status, fileStatus>>
    BY <2>1
  <2>2. CASE status[u] = "FINALIZING" /\ Publish(u)
    <3>1. \A v \in Uploads, k \in UploadKeys :
             resv'[v][k] = IF v = u /\ resv[v][k] = "HELD" THEN "CONSUMED" ELSE resv[v][k]
      BY <1>3, <2>2, SettlementRows DEF Publish
    <3>2. /\ \A v \in Uploads : v # u => status'[v] = status[v] /\ fileStatus'[v] = fileStatus[v]
          /\ status'[u] = "COMPLETED" /\ fileStatus'[u] = "QUARANTINED"
      BY <1>3, <2>2 DEF Publish
    <3> QED
      BY <2>2, <3>1, <3>2
  <2>3. ASSUME NEW s \in {"RELEASED", "EXPIRED"}, ReleaseUploadReservations(u, s)
        PROVE  \A v \in Uploads, k \in UploadKeys :
                  resv'[v][k] = IF v = u /\ resv[v][k] = "HELD" THEN s ELSE resv[v][k]
    BY <1>3, <2>3, SettlementRows
  <2>4. CASE \E s \in {"RELEASED", "EXPIRED"} :
               /\ ReleaseUploadReservations(u, s)
               /\ status[u] # "COMPLETED"
               /\ \/ status'[u] \in Closed /\ fileStatus'[u] = "FAILED"
                  \/ /\ status[u] \in Closed
                     /\ status'[u] = status[u] /\ fileStatus'[u] = fileStatus[u]
    <3>1. PICK s \in {"RELEASED", "EXPIRED"} :
               /\ ReleaseUploadReservations(u, s)
               /\ status[u] # "COMPLETED"
               /\ \/ status'[u] \in Closed /\ fileStatus'[u] = "FAILED"
                  \/ /\ status[u] \in Closed
                     /\ status'[u] = status[u] /\ fileStatus'[u] = fileStatus[u]
      BY <2>4
    <3>2. \A v \in Uploads, k \in UploadKeys :
             resv'[v][k] = IF v = u /\ resv[v][k] = "HELD" THEN s ELSE resv[v][k]
      BY <2>3, <3>1
    <3>3. \A v \in Uploads : v # u => status'[v] = status[v] /\ fileStatus'[v] = fileStatus[v]
      BY <1>2 DEF Settles
    <3> QED
      BY <3>1, <3>2, <3>3
  <2> QED
    BY <1>2, <2>1, <2>2, <2>4 DEF Settles
<1>6. SessionAgreesWithQuota'
  <2> SUFFICES ASSUME NEW v \in Uploads
               PROVE  /\ (status[v] = "COMPLETED")' <=> (fileStatus[v] = "QUARANTINED")'
                      /\ \A k \in UploadKeys :
                           /\ (status[v] = "none")' <=> (resv[v][k] = "none")'
                           /\ (status[v] = "COMPLETED")' <=> (resv[v][k] = "CONSUMED")'
                           /\ (status[v] \in {"INITIATED", "FINALIZING"})' => (resv[v][k] = "HELD")'
                           /\ (status[v] = "FAILED")' => (resv[v][k] \in {"RELEASED", "EXPIRED"})'
    BY DEF SessionAgreesWithQuota
  <2>1. CASE v # u
    BY <1>3, <1>5, <2>1 DEF SessionAgreesWithQuota
  <2>2. CASE v = u
    <3>1. QuotaTypeOK /\ \A k \in UploadKeys : resv[u][k] \in ReservationStatus \cup {"none"}
      BY <1>3 DEF QuotaTypeOK
    <3> QED
      BY <1>3, <1>4, <1>5, <2>2, <3>1 DEF SessionAgreesWithQuota, Closed, ReservationStatus
  <2> QED
    BY <2>1, <2>2
<1>7. Onward
  BY <1>2, <1>5 DEF Onward, Closed
<1>8. CapabilityRevoked'
  BY <1>2, <1>3, <1>4, <1>5 DEF CapabilityRevoked, Held
<1>9. SinglePut'
  BY <1>2, <1>3 DEF SinglePut
<1>10. /\ pc'[p] \in {"idle", "delete"} /\ \A q \in Procs \ {p} : pc'[q] = pc[q] /\ then'[q] = then[q]
       /\ p \in Requests => then'[p] # "abortstorage"
  <2>1. CASE Goto(p, "idle") /\ UNCHANGED then
    BY <1>3, <2>1, GotoMeans DEF UploadInv
  <2>2. CASE CleanUp(p)
    BY <1>3, <2>2, GotoMeans DEF CleanUp, UploadTypeOK
  <2> QED
    BY <1>2, <2>1, <2>2
<1>11. StepOf(p) /\ Placed(p)'
  <2>1. status'[u] # "none"
    BY <1>4, <1>5 DEF Closed
  <2> QED
    BY <1>1, <1>2, <1>4, <1>10, <2>1 DEF StepOf, Placed
<1> QED
  BY <1>3, <1>6, <1>7, <1>8, <1>9, <1>10, <1>11, InvariantKept

(* Every step of a process keeps the invariant. *)
LEMMA StepKeeps ==
    ASSUME UploadInv, UploadTypeOK', NEW p \in Procs, Step(p)
    PROVE  UploadInv' /\ Onward
<1>1. CASE CreateStorageUpload(p) \/ PersistStorageUpload(p) \/ DropDuplicate(p)
  BY <1>1, StorageUploadKeeps
<1>2. CASE ObjectStep(p)
  BY <1>2, ObjectStepKeeps
<1>3. CASE p \in Requests /\ (\/ CommitUpload(p) \/ ReauthorizationFails(p)
                              \/ RecordRejection(p) \/ AbortRelease(p))
  BY <1>3, TransactionKeeps
<1>4. CASE p \in Workers /\ (ReconcileFinalization(p) \/ FinishCleanup(p))
  BY <1>4, TransactionKeeps
<1> QED
  BY <1>1, <1>2, <1>3, <1>4 DEF Step, ObjectStep

LEMMA UploadInductive ==
    ASSUME UploadInv, [UploadNext]_uploadVars
    PROVE  UploadInv' /\ Onward
<1>1. UploadTypeOK'
  BY UploadTypeInductive DEF UploadInv
<1>2. ASSUME NEW r \in Requests, NEW u \in Uploads, ApiCall(r, u) PROVE UploadInv' /\ Onward
  <2>1. r \in Procs
    BY DEF Procs
  <2>2. CASE InitiateUpload(r, u)
    BY <1>1, <2>2, InitiateKeeps
  <2>3. CASE ReplayInitiate(r, u)
    BY <1>1, <2>1, <2>3, StorageUploadKeeps
  <2>4. CASE CompleteUpload(r, u) \/ AbortUpload(r, u)
    BY <1>1, <2>1, <2>4, OpeningKeeps
  <2> QED
    BY <1>2, <2>2, <2>3, <2>4 DEF ApiCall
<1>3. ASSUME NEW w \in Workers, NEW u \in Uploads, ClaimExpired(w, u) PROVE UploadInv' /\ Onward
  BY <1>1, <1>3, OpeningKeeps DEF Procs
<1>4. ASSUME NEW p \in Procs, Fault(p) PROVE UploadInv' /\ Onward
  BY <1>1, <1>4, StorageUploadKeeps
<1>5. ASSUME NEW p \in Procs, Step(p) PROVE UploadInv' /\ Onward
  BY <1>1, <1>5, StepKeeps
<1>6. CASE \/ \E u \in Uploads : Expire(u) \/ \E c \in {"good", "bad"} : ClientPut(u, c)
           \/ Meter \/ Midnight \/ UNCHANGED uploadVars
  BY <1>1, <1>6, EnvironmentKeeps
<1> QED
  BY <1>2, <1>3, <1>4, <1>5, <1>6 DEF UploadNext

LEMMA UploadInvInit == UploadInit => UploadInv
<1> SUFFICES ASSUME UploadInit PROVE UploadInv
  OBVIOUS
<1>1. UploadTypeOK
  BY UploadInitType
<1>2. /\ \A u \in Uploads : /\ status[u] = "none" /\ fileStatus[u] = "UPLOADING"
                            /\ uploadId[u] = NoId /\ final[u] = "none"
                            /\ \A k \in UploadKeys : resv[u][k] = "none"
      /\ \A p \in Procs : pc[p] = "idle" /\ then[p] = "idle"
  BY DEF UploadInit, QuotaInit
<1> QED
  BY <1>1, <1>2 DEF UploadInv, SessionAgreesWithQuota, CapabilityRevoked, SinglePut, Placed, Procs

(* The invariant above holds of every behaviour of the handlers. *)
THEOREM UploadInvariant == UploadSpec => []UploadInv
BY UploadInvInit, UploadInductive, PTL DEF UploadSpec

(* An upload is COMPLETED exactly when all its reservations are CONSUMED and its
   file is QUARANTINED, an open session holds everything it reserved and a
   FAILED one nothing, whatever number of completions, aborts and reconcilers
   work on it and wherever they are cut off. *)
THEOREM UploadAlwaysConsistent == UploadSpec => []UploadConsistent
<1>1. UploadInv => UploadConsistent
  BY DEF UploadInv, UploadConsistent
<1> QED
  BY <1>1, UploadInvariant, PTL

(* The quota of a single PUT is given back only over an occupied staging key, so
   a presigned URL replayed later stores nothing. *)
THEOREM CapabilityAlwaysRevoked == UploadSpec => []CapabilityRevoked
<1>1. UploadInv => CapabilityRevoked
  BY DEF UploadInv
<1> QED
  BY <1>1, UploadInvariant, PTL

(* No step publishes a session that was closed, or reopens a published one. *)
THEOREM UploadNeverResurrected == UploadSpec => NeverResurrected
<1>1. ASSUME UploadInv, UploadInv', [UploadNext]_uploadVars
      PROVE  \A u \in Uploads :
                /\ status[u] = "COMPLETED" => status'[u] = "COMPLETED"
                /\ status[u] \in {"ABORTED", "EXPIRED", "FAILED"} =>
                      /\ status'[u] \notin {"INITIATED", "FINALIZING", "COMPLETED"}
                      /\ fileStatus'[u] # "QUARANTINED"
  <2>1. Onward /\ SessionAgreesWithQuota'
    BY <1>1, UploadInductive DEF UploadInv
  <2> QED
    BY <2>1 DEF Onward, SessionAgreesWithQuota, Closed
<1> QED
  BY <1>1, UploadInvariant, PTL DEF UploadSpec, NeverResurrected

(* Every step of an upload is a step of the ledger or leaves it alone. *)
LEMMA UploadStepIsQuotaStep ==
    ASSUME UploadInv, [UploadNext]_uploadVars
    PROVE  [QuotaNext]_quotaVars
<1>1. ASSUME NEW r \in Requests, NEW u \in Uploads, ApiCall(r, u) PROVE [QuotaNext]_quotaVars
  <2>1. CASE InitiateUpload(r, u)
    <3>1. ReserveMany(u) /\ status[u] = "none"
      BY <2>1 DEF InitiateUpload
    <3>2. \A k \in UploadKeys : resv[u][k] = "none"
      BY <3>1 DEF UploadInv, SessionAgreesWithQuota
    <3> QED
      BY <3>1, <3>2 DEF QuotaNext
  <2>2. CASE ReplayInitiate(r, u) \/ CompleteUpload(r, u) \/ AbortUpload(r, u)
    BY <2>2 DEF ReplayInitiate, CompleteUpload, AbortUpload
  <2> QED
    BY <1>1, <2>1, <2>2 DEF ApiCall
<1>2. ASSUME NEW p \in Procs, Step(p) PROVE [QuotaNext]_quotaVars
  <2>0. job[p] \in Uploads
    BY DEF UploadInv, UploadTypeOK
  <2>1. CASE CreateStorageUpload(p) \/ PersistStorageUpload(p) \/ DropDuplicate(p)
    BY <2>1 DEF CreateStorageUpload, PersistStorageUpload, DropDuplicate
  <2>2. CASE ObjectStep(p)
    BY <2>2, ObjectsOnly
  <2>3. CASE CommitUpload(p) \/ ReconcileFinalization(p)
    <3>1. UNCHANGED quotaVars \/ ConsumeUploadReservations(job[p])
      BY <2>3 DEF CommitUpload, ReconcileFinalization, Publish
    <3> QED
      BY <2>0, <3>1 DEF QuotaNext
  <2>4. CASE ReauthorizationFails(p)
    BY <2>4 DEF ReauthorizationFails
  <2>5. CASE RecordRejection(p) \/ AbortRelease(p) \/ FinishCleanup(p)
    <3>1. UNCHANGED quotaVars \/ \E s \in {"RELEASED", "EXPIRED"} : ReleaseUploadReservations(job[p], s)
      BY <2>5 DEF RecordRejection, AbortRelease, FinishCleanup
    <3> QED
      BY <2>0, <3>1 DEF QuotaNext
  <2> QED
    BY <1>2, <2>1, <2>2, <2>3, <2>4, <2>5 DEF Step, ObjectStep
<1>3. ASSUME NEW u \in Uploads, (\E w \in Workers : ClaimExpired(w, u)) \/ Expire(u)
                                \/ \E c \in {"good", "bad"} : ClientPut(u, c)
      PROVE  UNCHANGED quotaVars
  BY <1>3 DEF ClaimExpired, Expire, ClientPut
<1>4. ASSUME NEW p \in Procs, Fault(p) PROVE UNCHANGED quotaVars
  BY <1>4 DEF Fault
<1>5. CASE Meter \/ Midnight
  BY <1>5 DEF Meter, Midnight, QuotaNext, LimitKeys
<1>6. CASE UNCHANGED uploadVars
  BY <1>6 DEF uploadVars
<1> QED
  BY <1>1, <1>2, <1>3, <1>4, <1>5, <1>6 DEF UploadNext

(* The handlers and the reconciler use the ledger as it promises to be used: a
   reservation is made once and all of an upload's rows settle together. *)
THEOREM UploadsImplementLedger == UploadSpec => QuotaSpec
<1>1. UploadInit => QuotaInit
  BY DEF UploadInit
<1>2. UploadInv /\ [UploadNext]_uploadVars => [QuotaNext]_quotaVars
  BY UploadStepIsQuotaStep
<1> QED
  BY <1>1, <1>2, UploadInvariant, PTL DEF UploadSpec, QuotaSpec

(* So no interleaving of handlers and reconcilers settles a reservation twice. *)
THEOREM UploadSettledOnce == UploadSpec => SettledOnce
BY UploadsImplementLedger, QuotaSettledOnce

(* What a booking amounts to is a natural number. *)
LEMMA BookedNat ==
    ASSUME QuotaTypeOK, NEW k, NEW w, NEW s
    PROVE  Booked(k, w, s) \in Nat
<1>1. CASE k \in UploadKeys
  <2> DEFINE S == {u \in Uploads : resv[u][k] = s /\ window[u][k] = w}
  <2> DEFINE f == [u \in Uploads |-> Amount[u][k]]
  <2>1. IsFiniteSet(S) /\ \A x \in S : f[x] \in Nat
    BY <1>1, QuotaAssumption, FS_Subset
  <2>2. Tally(f, S) \in Nat
    <3> HIDE DEF f, S
    <3> QED
      BY <2>1, TallyNat
  <2> QED
    BY <1>1, <2>2 DEF Booked
<1> QED
  BY <1>1 DEF Booked

(* What settling or opening the rows of upload u does to a booking: every other
   row is as it was, and u's own row enters or leaves it. *)
LEMMA BookedMoves ==
    ASSUME QuotaTypeOK, QuotaTypeOK', NEW u \in Uploads, NEW k \in UploadKeys, NEW w, NEW s,
           \A v \in Uploads \ {u} : resv'[v][k] = resv[v][k] /\ window'[v][k] = window[v][k]
    PROVE  LET was == resv[u][k] = s /\ window[u][k] = w
               is == resv'[u][k] = s /\ window'[u][k] = w
           IN  /\ was /\ ~is => Booked(k, w, s) = Booked(k, w, s)' + Amount[u][k]
               /\ ~was /\ is => Booked(k, w, s)' = Booked(k, w, s) + Amount[u][k]
               /\ (was <=> is) => Booked(k, w, s)' = Booked(k, w, s)
               /\ Booked(k, w, s)' \in Nat
<1> DEFINE S == {v \in Uploads : resv[v][k] = s /\ window[v][k] = w}
<1> DEFINE T == {v \in Uploads : resv'[v][k] = s /\ window'[v][k] = w}
<1> DEFINE f == [v \in Uploads |-> Amount[v][k]]
<1>1. IsFiniteSet(S) /\ IsFiniteSet(T) /\ f[u] = Amount[u][k]
      /\ \A x \in S \cup T \cup {u} : f[x] \in Nat
  BY QuotaAssumption, FS_Subset
<1>2. Booked(k, w, s) = Tally(f, S) /\ Booked(k, w, s)' = Tally(f, T)
  BY DEF Booked
<1>3. /\ u \in S <=> resv[u][k] = s /\ window[u][k] = w
      /\ u \in T <=> resv'[u][k] = s /\ window'[u][k] = w
      /\ S \ {u} = T \ {u}
  OBVIOUS
<1>4. /\ u \in S /\ u \notin T => Tally(f, S) = Tally(f, T) + f[u]
      /\ u \notin S /\ u \in T => Tally(f, T) = Tally(f, S) + f[u]
      /\ ((u \in S) <=> (u \in T)) => T = S
  <2> HIDE DEF S, T, f
  <2>1. CASE u \in S /\ u \notin T
    <3>1. S \ {u} = T
      BY <1>3, <2>1
    <3> QED
      BY <1>1, <2>1, <3>1, TallyRemove
  <2>2. CASE u \notin S /\ u \in T
    <3>1. T \ {u} = S
      BY <1>3, <2>2
    <3> QED
      BY <1>1, <2>2, <3>1, TallyRemove
  <2>3. CASE (u \in S) <=> (u \in T)
    <3>1. \A v : v \in S <=> v \in T
      BY <1>3, <2>3
    <3>2. S = T
      BY <3>1
    <3> QED
      BY <2>3, <3>2
  <2> QED
    BY <2>1, <2>2, <2>3
<1> HIDE DEF S, T, f
<1>5. Tally(f, T) \in Nat
  BY <1>1, TallyNat
<1> QED
  BY <1>1, <1>2, <1>3, <1>4, <1>5

(* The ledger of a key no upload reserves has no bookings. *)
LEMMA NoBookings ==
    ASSUME NEW k, k \notin UploadKeys, NEW w, NEW s
    PROVE  Booked(k, w, s) = 0 /\ Booked(k, w, s)' = 0
BY DEF Booked

(* reserve_many: what fits is booked, in the window of today. *)
LEMMA ReserveManySound ==
    ASSUME QuotaTypeOK, QuotaTypeOK', QuotaSound, NEW u \in Uploads,
           \A k \in UploadKeys : resv[u][k] = "none", ReserveMany(u)
    PROVE  QuotaSound'
<1>0. \A k \in UploadKeys : Amount[u][k] \in Nat /\ WindowStart(k) \in Days
  BY QuotaAssumption, WindowStartType
<1>1. /\ \A v \in Uploads \ {u}, k \in UploadKeys :
            resv'[v][k] = resv[v][k] /\ window'[v][k] = window[v][k]
      /\ \A k \in UploadKeys : resv'[u][k] = "HELD" /\ window'[u][k] = WindowStart(k)
  BY DEF ReserveMany, QuotaTypeOK
<1>2. /\ \A k \in LimitKeys, w \in Days :
            reserved'[k][w] = IF k \in UploadKeys /\ w = WindowStart(k)
                              THEN reserved[k][w] + Amount[u][k] ELSE reserved[k][w]
      /\ UNCHANGED <<used, metered>>
      /\ \A k \in UploadKeys : Fits(k, WindowStart(k), Amount[u][k])
  BY DEF ReserveMany
<1> SUFFICES ASSUME NEW k \in LimitKeys, NEW w \in Days
             PROVE  /\ reserved'[k][w] = Booked(k, w, "HELD")'
                    /\ used'[k][w] = Booked(k, w, "CONSUMED")' + metered'[k][w]
                    /\ Limit[k] # Unlimited => used'[k][w] + reserved'[k][w] <= Limit[k]
  BY DEF QuotaSound, QuotaConservation, QuotaNeverOversold
<1>3. /\ reserved[k][w] = Booked(k, w, "HELD")
      /\ used[k][w] = Booked(k, w, "CONSUMED") + metered[k][w]
      /\ Limit[k] # Unlimited => used[k][w] + reserved[k][w] <= Limit[k]
  BY DEF QuotaSound, QuotaConservation, QuotaNeverOversold
<1>4. CASE k \notin UploadKeys
  BY <1>2, <1>3, <1>4, NoBookings
<1>5. CASE k \in UploadKeys
  <2>1. /\ Booked(k, w, "CONSUMED")' = Booked(k, w, "CONSUMED")
        /\ w = WindowStart(k) => Booked(k, w, "HELD")' = Booked(k, w, "HELD") + Amount[u][k]
        /\ w # WindowStart(k) => Booked(k, w, "HELD")' = Booked(k, w, "HELD")
    BY <1>1, <1>5, BookedMoves
  <2>2. /\ reserved[k][w] \in Nat /\ used[k][w] \in Nat
        /\ Limit[k] # Unlimited => Limit[k] \in Nat
    BY QuotaAssumption DEF QuotaTypeOK
  <2>3. Limit[k] # Unlimited /\ w = WindowStart(k) => used[k][w] + reserved[k][w] + Amount[u][k] <= Limit[k]
    BY <1>0, <1>2, <1>3, <1>5, <2>2 DEF Fits
  <2> QED
    BY <1>0, <1>2, <1>3, <1>5, <2>1, <2>2, <2>3
<1> QED
  BY <1>4, <1>5

(* consume_upload_reservations and release_upload_reservations: max(.., 0) has
   nothing to hide, since the counter holds at least what its rows hold. *)
LEMMA SettlementSound ==
    ASSUME QuotaTypeOK, QuotaTypeOK', QuotaSound, NEW u \in Uploads,
           NEW s \in {"CONSUMED", "RELEASED", "EXPIRED"},
           \/ s = "CONSUMED" /\ ConsumeUploadReservations(u)
           \/ s # "CONSUMED" /\ ReleaseUploadReservations(u, s)
    PROVE  QuotaSound'
<1>0. \A k \in UploadKeys : Amount[u][k] \in Nat
  BY QuotaAssumption
<1>1. \A v \in Uploads, k \in UploadKeys :
         resv'[v][k] = IF v = u /\ resv[v][k] = "HELD" THEN s ELSE resv[v][k]
  BY SettlementRows
<1>2. /\ \A k \in LimitKeys, w \in Days :
            /\ reserved'[k][w] = IF HeldIn(u, k, w) THEN Reduced(reserved[k][w], Amount[u][k])
                                 ELSE reserved[k][w]
            /\ used'[k][w] = IF HeldIn(u, k, w) /\ s = "CONSUMED" THEN used[k][w] + Amount[u][k]
                             ELSE used[k][w]
      /\ UNCHANGED <<window, metered>>
  BY DEF ConsumeUploadReservations, ReleaseUploadReservations
<1> SUFFICES ASSUME NEW k \in LimitKeys, NEW w \in Days
             PROVE  /\ reserved'[k][w] = Booked(k, w, "HELD")'
                    /\ used'[k][w] = Booked(k, w, "CONSUMED")' + metered'[k][w]
                    /\ Limit[k] # Unlimited => used'[k][w] + reserved'[k][w] <= Limit[k]
  BY DEF QuotaSound, QuotaConservation, QuotaNeverOversold
<1>3. /\ reserved[k][w] = Booked(k, w, "HELD")
      /\ used[k][w] = Booked(k, w, "CONSUMED") + metered[k][w]
      /\ Limit[k] # Unlimited => used[k][w] + reserved[k][w] <= Limit[k]
  BY DEF QuotaSound, QuotaConservation, QuotaNeverOversold
<1>4. CASE k \notin UploadKeys
  BY <1>2, <1>3, <1>4, NoBookings DEF HeldIn
<1>5. CASE k \in UploadKeys
  <2>1. \A v \in Uploads \ {u} : resv'[v][k] = resv[v][k] /\ window'[v][k] = window[v][k]
    BY <1>1, <1>2, <1>5
  <2>2. /\ HeldIn(u, k, w) => Booked(k, w, "HELD") = Booked(k, w, "HELD")' + Amount[u][k]
        /\ ~HeldIn(u, k, w) => Booked(k, w, "HELD")' = Booked(k, w, "HELD")
    BY <1>1, <1>2, <1>5, <2>1, BookedMoves DEF HeldIn
  <2>3. IF HeldIn(u, k, w) /\ s = "CONSUMED"
        THEN Booked(k, w, "CONSUMED")' = Booked(k, w, "CONSUMED") + Amount[u][k]
        ELSE Booked(k, w, "CONSUMED")' = Booked(k, w, "CONSUMED")
    BY <1>1, <1>2, <1>5, <2>1, BookedMoves DEF HeldIn
  <2>4. /\ reserved[k][w] \in Nat /\ used[k][w] \in Nat /\ metered[k][w] \in Nat
        /\ Limit[k] # Unlimited => Limit[k] \in Nat
        /\ Amount[u][k] \in Nat
    BY <1>0, <1>5, QuotaAssumption DEF QuotaTypeOK
  <2>5. Booked(k, w, "HELD")' \in Nat /\ Booked(k, w, "CONSUMED") \in Nat
    BY <1>5, <2>1, BookedNat, BookedMoves
  <2>6. CASE HeldIn(u, k, w)
    <3>1. reserved'[k][w] = Booked(k, w, "HELD")'
      BY <1>2, <1>3, <2>2, <2>4, <2>5, <2>6 DEF Reduced
    <3> QED
      BY <1>2, <1>3, <2>2, <2>3, <2>4, <2>5, <2>6, <3>1
  <2>7. CASE ~HeldIn(u, k, w)
    BY <1>2, <1>3, <2>2, <2>3, <2>7
  <2> QED
    BY <2>6, <2>7
<1> QED
  BY <1>4, <1>5

(* consume: a direct charge fits too. *)
LEMMA ConsumeSound ==
    ASSUME QuotaTypeOK, QuotaSound, NEW l \in LimitKeys, NEW a \in Nat, Consume(l, a)
    PROVE  QuotaSound'
<1>1. WindowStart(l) \in Days
  BY WindowStartType
<1>2. /\ UNCHANGED <<reserved, resv, window>> /\ Fits(l, WindowStart(l), a)
      /\ \A k \in LimitKeys, w \in Days :
            IF k = l /\ w = WindowStart(l)
            THEN used'[k][w] = used[k][w] + a /\ metered'[k][w] = metered[k][w] + a
            ELSE used'[k][w] = used[k][w] /\ metered'[k][w] = metered[k][w]
  BY <1>1 DEF Consume, QuotaTypeOK
<1> SUFFICES ASSUME NEW k \in LimitKeys, NEW w \in Days
             PROVE  /\ reserved'[k][w] = Booked(k, w, "HELD")'
                    /\ used'[k][w] = Booked(k, w, "CONSUMED")' + metered'[k][w]
                    /\ Limit[k] # Unlimited => used'[k][w] + reserved'[k][w] <= Limit[k]
  BY DEF QuotaSound, QuotaConservation, QuotaNeverOversold
<1>3. /\ reserved[k][w] = Booked(k, w, "HELD")
      /\ used[k][w] = Booked(k, w, "CONSUMED") + metered[k][w]
      /\ Limit[k] # Unlimited => used[k][w] + reserved[k][w] <= Limit[k]
  BY DEF QuotaSound, QuotaConservation, QuotaNeverOversold
<1>4. \A s : Booked(k, w, s)' = Booked(k, w, s)
  BY <1>2 DEF Booked
<1>5. /\ reserved[k][w] \in Nat /\ used[k][w] \in Nat /\ metered[k][w] \in Nat
      /\ Limit[k] # Unlimited => Limit[k] \in Nat
      /\ Booked(k, w, "CONSUMED") \in Nat
  BY QuotaAssumption, BookedNat DEF QuotaTypeOK
<1>6. Limit[k] # Unlimited /\ k = l /\ w = WindowStart(l) => used[k][w] + reserved[k][w] + a <= Limit[k]
  BY <1>2, <1>3, <1>5 DEF Fits
<1> QED
  BY <1>2, <1>3, <1>4, <1>5, <1>6

LEMMA QuotaSoundInductive ==
    ASSUME QuotaTypeOK, QuotaSound, [QuotaNext]_quotaVars
    PROVE  QuotaSound'
<1>0. QuotaTypeOK'
  BY QuotaTypeInductive
<1>1. ASSUME NEW u \in Uploads, \A k \in UploadKeys : resv[u][k] = "none", ReserveMany(u)
      PROVE  QuotaSound'
  BY <1>0, <1>1, ReserveManySound
<1>2. ASSUME NEW u \in Uploads, ConsumeUploadReservations(u) PROVE QuotaSound'
  BY <1>0, <1>2, SettlementSound
<1>3. ASSUME NEW u \in Uploads, NEW s \in {"RELEASED", "EXPIRED"}, ReleaseUploadReservations(u, s)
      PROVE  QuotaSound'
  BY <1>0, <1>3, SettlementSound
<1>4. ASSUME NEW k \in LimitKeys, NEW a \in Direct, Consume(k, a) PROVE QuotaSound'
  BY <1>4, ConsumeSound, QuotaAssumption
<1>5. CASE NextDay \/ UNCHANGED quotaVars
  <2>1. UNCHANGED <<used, reserved, resv, window, metered>>
    BY <1>5 DEF NextDay, quotaVars
  <2>2. \A k, w, s : Booked(k, w, s)' = Booked(k, w, s)
    BY <2>1 DEF Booked
  <2> QED
    BY <2>1, <2>2 DEF QuotaSound, QuotaConservation, QuotaNeverOversold
<1> QED
  BY <1>1, <1>2, <1>3, <1>4, <1>5 DEF QuotaNext

LEMMA QuotaSoundInit == QuotaInit => QuotaSound
<1> SUFFICES ASSUME QuotaInit, NEW k \in LimitKeys, NEW w \in Days
             PROVE  /\ reserved[k][w] = Booked(k, w, "HELD")
                    /\ used[k][w] = Booked(k, w, "CONSUMED") + metered[k][w]
                    /\ Limit[k] # Unlimited => used[k][w] + reserved[k][w] <= Limit[k]
  BY DEF QuotaSound, QuotaConservation, QuotaNeverOversold
<1>1. used[k][w] = 0 /\ reserved[k][w] = 0 /\ metered[k][w] = 0
  BY DEF QuotaInit, NoCounters
<1>2. Limit[k] # Unlimited => Limit[k] >= 0
  BY QuotaAssumption
<1>3. \A s \in {"HELD", "CONSUMED"} :
         k \in UploadKeys => {u \in Uploads : resv[u][k] = s /\ window[u][k] = w} = {}
  BY DEF QuotaInit
<1>4. Booked(k, w, "HELD") = 0 /\ Booked(k, w, "CONSUMED") = 0
  BY <1>3, TallyEmpty DEF Booked
<1> QED
  BY <1>1, <1>2, <1>4

(* The counters equal the reservations and charges they stand for and never
   exceed the limit of the role, for every set of uploads, keys, limits and
   amounts and every order of admissions and settlements. *)
THEOREM QuotaAlwaysSound == QuotaSpec => []QuotaSound
<1>1. QuotaTypeOK /\ QuotaSound /\ [QuotaNext]_quotaVars => QuotaSound'
  BY QuotaSoundInductive
<1> QED
  BY <1>1, QuotaSoundInit, QuotaTypeCorrect, PTL DEF QuotaSpec

(* And so they do under the upload handlers and the reconciler. *)
THEOREM UploadQuotaSound == UploadSpec => []QuotaSound
BY UploadsImplementLedger, QuotaAlwaysSound

-----------------------------------------------------------------------------
(* Upload sessions: their objects, while finalizations do not overlap      *)

Acting == FinalizerSteps \cup {"abortstorage", "release"}
Promoting == {"headstaging", "copy", "headcopy", "seal", "reseal"}
Uploading == {"persist", "dropdup"}
Open(s) == s \in {"none", "INITIATED"}

(* No bytes are stored under the objects/ key. *)
Clear(u) == final[u] \in {"none", "tomb"}

(* None can be put there any more: the staging key is sealed, or the multipart
   upload is gone. *)
Spent(u) == IF Single(u) THEN staging[u] = "tomb" ELSE uploadId[u] \notin mpu[u]

(* No two processes finalize one session. *)
Alone ==
    \A p, q \in Procs :
        pc[p] \in FinalizerSteps /\ pc[q] \in FinalizerSteps /\ job[p] = job[q] => p = q

(* What a process may rely on at its next step, though it holds no lock: the
   object it is about to commit is the one it judged, nothing is stored when it
   gives up, and nothing can be stored any more when it settles. *)
Knows(p) ==
    LET u == job[p]
    IN  /\ pc[p] \in Acting => ~Open(status[u]) /\ uid[p] = uploadId[u]
        /\ pc[p] \in Promoting => Single(u)
        /\ pc[p] \in {"headstaging", "copy", "reseal", "reject"} => Clear(u)
        /\ pc[p] = "seal" => stored[p] = final[u]
        /\ pc[p] = "commit" /\ status[u] = "FINALIZING" => final[u] = "good"
        /\ pc[p] = "assemble" /\ faults = 0 => Clear(u)
        /\ pc[p] \in {"reject", "release"} => Spent(u)
        /\ p \in Requests /\ pc[p] \in {"headfinal", "commit", "delete"} /\ ~Single(u) => Spent(u)
        /\ pc[p] \in Uploading /\ ~Single(u) => uid[p] \in 1..created[u]
        /\ pc[p] = "dropdup" => uploadId[u] # NoId
        /\ pc[p] \in {"create", "persist"} => p \in Requests
        /\ p \in Workers => then[p] # "reject"

(* What is true of a session whatever is cut off.  An upload id that is still to
   come is one that nobody has been told and that nobody has begun to close. *)
Kept(u) ==
    /\ status[u] = "COMPLETED" => final[u] = "good" /\ ~FinalizerOn(u)
    /\ IF Single(u) THEN mpu[u] = {} ELSE staging[u] = "none"
    /\ mpu[u] \subseteq 1..created[u] /\ uploadId[u] \in 0..created[u]
    /\ ~Single(u) /\ u \in announced => uploadId[u] # NoId
    /\ ~Single(u) /\ uploadId[u] = NoId /\ (due[u] \/ ~Open(status[u]))
         => ~ \E p \in Procs : pc[p] \in {"create", "persist"} /\ job[p] = u
    /\ status[u] \in Closed /\ ~Held(u) => Spent(u)
    /\ u \in denied => ~Open(status[u])

(* A denied completion is removing the objects of u. *)
Removing(u, S) == \E p \in Requests : job[p] = u /\ pc[p] \in S

(* What is true of a session as long as nothing was cut off: who leaves it
   leaves no object, each multipart upload is the session's or somebody still
   has it, and a denied completion leaves nothing to publish. *)
Undisturbed(u) ==
    /\ ~FinalizerOn(u) /\ status[u] # "COMPLETED" => Clear(u)
    /\ \A i \in mpu[u] : \/ i = uploadId[u]
                         \/ \E p \in Procs : job[p] = u /\ pc[p] \in Uploading /\ uid[p] = i
    /\ u \in denied => /\ status[u] # "COMPLETED"
                       /\ Clear(u) \/ Removing(u, {"delete"})
                       /\ Spent(u) \/ Removing(u, {"delete", "reseal"})

ObjectInv ==
    /\ UploadInv /\ Alone
    /\ \A p \in Procs : Knows(p)
    /\ \A u \in Uploads : Kept(u)
    /\ faults = 0 => \A u \in Uploads : Undisturbed(u)

(* A step of process p on session u. *)
Frame(p, u) ==
    /\ \A q \in Procs \ {p} : /\ pc'[q] = pc[q] /\ job'[q] = job[q] /\ uid'[q] = uid[q]
                              /\ stored'[q] = stored[q] /\ then'[q] = then[q]
    /\ \A v \in Uploads \ {u} :
          /\ status'[v] = status[v] /\ due'[v] = due[v] /\ uploadId'[v] = uploadId[v]
          /\ staging'[v] = staging[v] /\ final'[v] = final[v]
          /\ mpu'[v] = mpu[v] /\ created'[v] = created[v]
          /\ \A k \in UploadKeys : resv'[v][k] = resv[v][k]
          /\ v \in announced' <=> v \in announced
          /\ v \in denied' <=> v \in denied
    /\ job'[p] = u /\ (pc[p] = "idle" \/ job[p] = u)
    /\ faults' = 0 => faults = 0

(* The other sessions do not notice it. *)
LEMMA OtherSessions ==
    ASSUME ObjectInv, NEW p \in Procs, NEW u \in Uploads, Frame(p, u),
           NEW v \in Uploads, v # u
    PROVE  Kept(v)' /\ (faults' = 0 => Undisturbed(v)')
<1>1. /\ status'[v] = status[v] /\ due'[v] = due[v] /\ uploadId'[v] = uploadId[v]
      /\ staging'[v] = staging[v] /\ final'[v] = final[v]
      /\ mpu'[v] = mpu[v] /\ created'[v] = created[v]
      /\ v \in announced' <=> v \in announced
      /\ v \in denied' <=> v \in denied
      /\ Held(v)' <=> Held(v)
      /\ Clear(v)' <=> Clear(v)
      /\ Spent(v)' <=> Spent(v)
  BY DEF Frame, Held, Clear, Spent
<1>2. /\ pc[p] = "idle" \/ job[p] # v
      /\ job'[p] # v
      /\ \A q \in Procs : q # p => pc'[q] = pc[q] /\ job'[q] = job[q] /\ uid'[q] = uid[q]
  BY DEF Frame
<1>3. FinalizerOn(v)' <=> FinalizerOn(v)
  BY <1>2 DEF FinalizerOn, FinalizerSteps
<1>4. (\E q \in Procs : pc[q] \in {"create", "persist"} /\ job[q] = v)'
      <=> (\E q \in Procs : pc[q] \in {"create", "persist"} /\ job[q] = v)
  BY <1>2
<1>5. Kept(v) /\ (faults = 0 => Undisturbed(v)) /\ (faults' = 0 => faults = 0)
  BY DEF ObjectInv, Frame
<1>6. Kept(v)'
  BY <1>1, <1>3, <1>4, <1>5 DEF Kept
<1>7. ASSUME NEW S, "idle" \notin S PROVE Removing(v, S)' <=> Removing(v, S)
  BY <1>2, <1>7 DEF Removing, Procs
<1>8. ASSUME Undisturbed(v) PROVE Undisturbed(v)'
  <2>1. \A i \in mpu'[v] : \/ i = uploadId'[v]
                           \/ \E q \in Procs : job'[q] = v /\ pc'[q] \in Uploading /\ uid'[q] = i
    BY <1>1, <1>2, <1>8 DEF Undisturbed, Uploading
  <2>2. Removing(v, {"delete"})' <=> Removing(v, {"delete"})
    BY <1>7
  <2>3. Removing(v, {"delete", "reseal"})' <=> Removing(v, {"delete", "reseal"})
    BY <1>7
  <2> QED
    BY <1>1, <1>3, <1>8, <2>1, <2>2, <2>3 DEF Undisturbed
<1> QED
  BY <1>5, <1>6, <1>8

(* What any step may do to a session that others work on: one that is no longer
   open stays so and keeps its upload id, what is spent stays spent, and the
   object changes only in the hands of its finalizer or under an abort. *)
Gentle(p, u) ==
    /\ ~Open(status[u]) => /\ ~Open(status'[u]) /\ uploadId'[u] = uploadId[u]
                           /\ Spent(u) => Spent(u)'
                           /\ status'[u] = "FINALIZING" => status[u] = "FINALIZING"
    /\ uploadId[u] # NoId => uploadId'[u] = uploadId[u]
    /\ 1..created[u] \subseteq 1..created'[u]
    /\ \/ final'[u] = final[u]
       \/ pc[p] \in FinalizerSteps /\ job[p] = u
       \/ final'[u] = "tomb" /\ ~Single(u) /\ status'[u] \in Closed

(* What the other processes know survives a gentle step. *)
LEMMA OthersKnow ==
    ASSUME ObjectInv, NEW p \in Procs, NEW u \in Uploads, Frame(p, u), Gentle(p, u),
           NEW q \in Procs, q # p
    PROVE  Knows(q)'
<1>1. /\ pc'[q] = pc[q] /\ job'[q] = job[q] /\ uid'[q] = uid[q]
      /\ stored'[q] = stored[q] /\ then'[q] = then[q]
      /\ faults' = 0 => faults = 0
  BY DEF Frame
<1>2. PICK v \in Uploads : v = job[q]
  BY DEF ObjectInv, UploadInv, UploadTypeOK
<1>3. Knows(q)
  BY DEF ObjectInv
<1>4. CASE v # u
  <2>1. /\ status'[v] = status[v] /\ uploadId'[v] = uploadId[v] /\ final'[v] = final[v]
        /\ staging'[v] = staging[v] /\ mpu'[v] = mpu[v] /\ created'[v] = created[v]
    BY <1>4 DEF Frame
  <2>2. (Clear(v)' <=> Clear(v)) /\ (Spent(v)' <=> Spent(v))
    BY <2>1 DEF Clear, Spent
  <2> QED
    BY <1>1, <1>2, <1>3, <2>1, <2>2 DEF Knows
<1>5. CASE v = u
  <2>1. pc[q] \in FinalizerSteps => ~(pc[p] \in FinalizerSteps /\ job[p] = u)
    BY <1>2, <1>5 DEF ObjectInv, Alone
  <2>2. pc[q] \in FinalizerSteps =>
           final'[u] = final[u] \/ (final'[u] = "tomb" /\ ~Single(u) /\ status'[u] \in Closed)
    BY <2>1 DEF Gentle
  <2>3. pc[q] \in FinalizerSteps => (Clear(u) => Clear(u)')
    BY <2>2 DEF Clear
  <2>4. pc[q] \in Acting => /\ ~Open(status[u]) /\ ~Open(status'[u]) /\ uploadId'[u] = uploadId[u]
                            /\ Spent(u) => Spent(u)'
                            /\ status'[u] = "FINALIZING" => status[u] = "FINALIZING"
    BY <1>2, <1>3, <1>5 DEF Knows, Gentle
  <2>5. 1..created[u] \subseteq 1..created'[u] /\ (uploadId[u] # NoId => uploadId'[u] = uploadId[u])
    BY DEF Gentle
  <2>6. u \in Uploads /\ job[q] = u /\ job'[q] = u
    BY <1>1, <1>2, <1>5
  <2>7. /\ pc'[q] \in Acting => ~Open(status'[u]) /\ uid'[q] = uploadId'[u]
        /\ pc'[q] \in Promoting => Single(u)
        /\ pc'[q] \in {"headstaging", "copy", "reseal", "reject"} => Clear(u)'
    BY <1>1, <1>3, <2>3, <2>4, <2>6 DEF Knows, FinalizerSteps
  <2>8. /\ pc'[q] = "seal" => stored'[q] = final'[u]
        /\ pc'[q] = "commit" /\ status'[u] = "FINALIZING" => final'[u] = "good"
        /\ pc'[q] = "assemble" /\ faults' = 0 => Clear(u)'
    BY <1>1, <1>3, <2>2, <2>3, <2>4, <2>6 DEF Knows, FinalizerSteps, Acting, Promoting, Closed
  <2>9. /\ pc'[q] \in {"reject", "release"} => Spent(u)'
        /\ q \in Requests /\ pc'[q] \in {"headfinal", "commit", "delete"} /\ ~Single(u) => Spent(u)'
        /\ pc'[q] \in Uploading /\ ~Single(u) => uid'[q] \in 1..created'[u]
        /\ pc'[q] = "dropdup" => uploadId'[u] # NoId
        /\ pc'[q] \in {"create", "persist"} => q \in Requests
        /\ q \in Workers => then'[q] # "reject"
    BY <1>1, <1>3, <2>4, <2>5, <2>6 DEF Knows, FinalizerSteps, Acting
  <2> QED
    BY <2>6, <2>7, <2>8, <2>9 DEF Knows
<1> QED
  BY <1>4, <1>5

(* A process that becomes a finalizer finds nobody else there. *)
LEMMA StillAlone ==
    ASSUME ObjectInv, NEW p \in Procs, NEW u \in Uploads, Frame(p, u),
           \/ pc'[p] \notin FinalizerSteps
           \/ pc[p] \in FinalizerSteps
           \/ ~FinalizerOn(u)
    PROVE  Alone'
<1>1. /\ \A q \in Procs : q # p => pc'[q] = pc[q] /\ job'[q] = job[q]
      /\ job'[p] = u /\ (pc[p] = "idle" \/ job[p] = u)
  BY DEF Frame
<1>2. Alone
  BY DEF ObjectInv
<1>3. "idle" \notin FinalizerSteps
  BY DEF FinalizerSteps
<1> QED
  BY <1>1, <1>2, <1>3 DEF Alone, FinalizerOn

(* The invariant again, from what the step does to its own process and session. *)
LEMMA ObjectsAgain ==
    ASSUME ObjectInv, UploadInv', NEW p \in Procs, NEW u \in Uploads, Frame(p, u), Gentle(p, u),
           \/ pc'[p] \notin FinalizerSteps
           \/ pc[p] \in FinalizerSteps
           \/ ~FinalizerOn(u),
           Knows(p)', Kept(u)', faults' = 0 => Undisturbed(u)'
    PROVE  ObjectInv'
<1>1. Alone'
  BY StillAlone
<1>2. \A q \in Procs : Knows(q)'
  BY OthersKnow
<1>3. \A v \in Uploads : Kept(v)' /\ (faults' = 0 => Undisturbed(v)')
  BY OtherSessions
<1> QED
  BY <1>1, <1>2, <1>3 DEF ObjectInv

-----------------------------------------------------------------------------
(* S3 calls *)

(* What a call does to the objects of its session and to its process. *)
Stores(p, u) ==
    /\ pc[p] \in Acting /\ pc'[p] \in Acting \cup {"idle"}
    /\ pc'[p] \in FinalizerSteps => pc[p] \in FinalizerSteps
    /\ staging'[u] \in {staging[u], "tomb"} /\ (~Single(u) => staging'[u] = staging[u])
    /\ mpu'[u] \subseteq mpu[u]
    /\ \/ final'[u] = final[u]
       \/ pc[p] \in FinalizerSteps /\ pc[p] # "reseal"
       \/ final'[u] = "tomb" /\ ~Single(u) /\ status[u] \in Closed
    /\ Knows(p)'
    /\ pc[p] \in FinalizerSteps /\ pc'[p] \notin FinalizerSteps /\ faults = 0 => Clear(u)'
    /\ Clear(u) /\ Spent(u) => Clear(u)'
    /\ pc[p] = "delete" => Clear(u)' /\ (p \in Requests => pc'[p] = "reseal" \/ Spent(u)')
    /\ pc[p] = "reseal" => Spent(u)'

(* A call that does no more than that keeps the invariant. *)
LEMMA StoresKeeps ==
    ASSUME ObjectInv, UploadInv', NEW p \in Procs, NEW u \in Uploads, job[p] = u, Frame(p, u),
           UNCHANGED <<status, due, uploadId, announced, denied, created, resv, job, uid, faults>>,
           Stores(p, u)
    PROVE  ObjectInv'
<1>1. /\ Kept(u) /\ Alone /\ (faults = 0 => Undisturbed(u))
  BY DEF ObjectInv
<1>2. \A q \in Procs : q # p => pc'[q] = pc[q]
  BY DEF Frame
<1>3. Spent(u) => Spent(u)'
  BY DEF Stores, Spent
<1>4. Gentle(p, u)
  BY <1>3 DEF Stores, Gentle
<1>5. ~FinalizerOn(u) => ~FinalizerOn(u)'
  BY <1>2 DEF FinalizerOn, Stores
<1>6. Kept(u)'
  <2>1. status'[u] = "COMPLETED" => final'[u] = "good" /\ ~FinalizerOn(u)'
    <3>1. ASSUME status[u] = "COMPLETED" PROVE final'[u] = "good" /\ ~FinalizerOn(u)'
      <4>1. final[u] = "good" /\ ~FinalizerOn(u) /\ pc[p] \notin FinalizerSteps
        BY <1>1, <3>1 DEF Kept, FinalizerOn
      <4> QED
        BY <1>5, <3>1, <4>1 DEF Stores, Closed
    <3> QED
      BY <3>1
  <2>2. IF Single(u) THEN mpu'[u] = {} ELSE staging'[u] = "none"
    BY <1>1 DEF Kept, Stores
  <2>3. mpu'[u] \subseteq 1..created'[u] /\ uploadId'[u] \in 0..created'[u]
    BY <1>1 DEF Kept, Stores
  <2>4. ~(\E q \in Procs : pc[q] \in {"create", "persist"} /\ job[q] = u)
        => ~(\E q \in Procs : pc'[q] \in {"create", "persist"} /\ job'[q] = u)
    BY <1>2 DEF Stores, Acting, FinalizerSteps
  <2>5. status'[u] \in Closed /\ ~Held(u)' => Spent(u)'
    BY <1>1, <1>3 DEF Kept, Held
  <2> QED
    BY <1>1, <2>1, <2>2, <2>3, <2>4, <2>5 DEF Kept
<1>7. ASSUME faults = 0 PROVE Undisturbed(u)'
  <2>1. Undisturbed(u)
    BY <1>1, <1>7
  <2>2. ASSUME ~FinalizerOn(u)', status'[u] # "COMPLETED" PROVE Clear(u)'
    <3>1. CASE pc[p] \in FinalizerSteps
      BY <1>7, <2>2, <3>1 DEF Stores, FinalizerOn
    <3>2. CASE pc[p] \notin FinalizerSteps
      <4>1. ~FinalizerOn(u)
        BY <1>2, <2>2, <3>2 DEF FinalizerOn
      <4> QED
        BY <2>1, <2>2, <3>2, <4>1 DEF Undisturbed, Stores, Clear
    <3> QED
      BY <3>1, <3>2
  <2>3. \A i \in mpu'[u] : \/ i = uploadId'[u]
                           \/ \E q \in Procs : job'[q] = u /\ pc'[q] \in Uploading /\ uid'[q] = i
    <3>1. pc[p] \notin Uploading
      BY DEF Stores, Acting, FinalizerSteps, Uploading
    <3> QED
      BY <1>2, <2>1, <3>1 DEF Undisturbed, Stores
  <2>4. ASSUME u \in denied PROVE Clear(u)' \/ Removing(u, {"delete"})'
    <3>1. CASE Removing(u, {"delete"})
      <4>1. PICK r \in Requests : job[r] = u /\ pc[r] = "delete"
        BY <3>1 DEF Removing
      <4>2. r = p => Clear(u)'
        BY <4>1 DEF Stores
      <4>3. r # p => Removing(u, {"delete"})'
        BY <1>2, <4>1 DEF Removing, Procs
      <4> QED
        BY <4>2, <4>3
    <3>2. CASE Clear(u) /\ Spent(u)
      BY <3>2 DEF Stores
    <3>3. CASE Clear(u) /\ Removing(u, {"delete", "reseal"}) /\ ~Removing(u, {"delete"})
      <4>1. PICK r \in Requests : job[r] = u /\ pc[r] = "reseal"
        BY <3>3 DEF Removing
      <4>2. r = p \/ pc[p] \notin FinalizerSteps
        BY <1>1, <4>1 DEF Alone, Procs, FinalizerSteps
      <4>3. final'[u] \in {final[u], "tomb"}
        BY <4>1, <4>2 DEF Stores
      <4> QED
        BY <3>3, <4>3 DEF Clear
    <3> QED
      BY <2>1, <2>4, <3>1, <3>2, <3>3 DEF Undisturbed
  <2>5. ASSUME u \in denied PROVE Spent(u)' \/ Removing(u, {"delete", "reseal"})'
    <3>1. CASE Spent(u)
      BY <1>3, <3>1
    <3>2. CASE Removing(u, {"delete", "reseal"})
      <4>1. PICK r \in Requests : job[r] = u /\ pc[r] \in {"delete", "reseal"}
        BY <3>2 DEF Removing
      <4>2. CASE r # p
        BY <1>2, <4>1, <4>2 DEF Removing, Procs
      <4>3. CASE r = p
        BY <4>1, <4>3 DEF Stores, Removing
      <4> QED
        BY <4>2, <4>3
    <3> QED
      BY <2>1, <2>5, <3>1, <3>2 DEF Undisturbed
  <2> QED
    BY <2>1, <2>2, <2>3, <2>4, <2>5 DEF Undisturbed
<1>8. pc'[p] \notin FinalizerSteps \/ pc[p] \in FinalizerSteps
  BY DEF Stores
<1>9. Knows(p)'
  BY DEF Stores
<1> QED
  BY <1>4, <1>6, <1>7, <1>8, <1>9, ObjectsAgain

(* Only the process of the call and the objects of its session. *)
Within(p, u) ==
    /\ \A q \in Procs \ {p} : pc'[q] = pc[q] /\ then'[q] = then[q] /\ stored'[q] = stored[q]
    /\ \A v \in Uploads \ {u} : /\ staging'[v] = staging[v] /\ final'[v] = final[v]
                                /\ mpu'[v] = mpu[v]

(* What the process sees afterwards, spelled out for its session. *)
LEMMA KnowsNext ==
    ASSUME ObjectInv, NEW p \in Procs, NEW u \in Uploads, job[p] = u, pc[p] \in Acting,
           UNCHANGED <<status, uploadId, job, uid, created, faults>>,
           pc'[p] \in Acting \cup {"idle"},
           pc'[p] \in Promoting => Single(u),
           pc'[p] \in {"headstaging", "copy", "reseal", "reject"} => Clear(u)',
           pc'[p] = "seal" => stored'[p] = final'[u],
           pc'[p] = "commit" => final'[u] = "good",
           pc'[p] # "assemble",
           pc'[p] \in {"reject", "release"} => Spent(u)',
           p \in Requests /\ pc'[p] \in {"headfinal", "commit", "delete"} /\ ~Single(u) => Spent(u)',
           p \in Workers => then'[p] # "reject"
    PROVE  Knows(p)'
<1>1. ~Open(status[u]) /\ uid[p] = uploadId[u]
  BY DEF ObjectInv, Knows
<1>2. pc'[p] \notin Uploading \cup {"create", "persist", "dropdup"}
  BY DEF Acting, FinalizerSteps, Uploading
<1>3. job'[p] = u /\ ~Open(status'[u]) /\ uid'[p] = uploadId'[u]
  BY <1>1
<1> QED
  BY <1>2, <1>3 DEF Knows

(* What is known of a process and its session before a call. *)
Before(p, u) ==
    /\ p \in Procs /\ u \in Uploads /\ u = job[p]
    /\ p \in Requests => p \notin Workers
    /\ p \notin Requests => p \in Workers
    /\ UploadTypeOK /\ Knows(p) /\ Kept(u) /\ Placed(p)
    /\ staging \in [Uploads -> Content] /\ final \in [Uploads -> Content]
    /\ mpu \in [Uploads -> SUBSET Nat]
    /\ then[p] \in {"idle", "reject", "abortstorage"} /\ stored[p] \in Content
    /\ p \in Requests => then[p] # "abortstorage"
    /\ p \in Workers => then[p] # "reject"

(* The invariant provides all of it. *)
LEMMA IsBefore ==
    ASSUME ObjectInv, NEW p \in Procs
    PROVE  \E u \in Uploads : Before(p, u)
<1>1. UploadTypeOK /\ Knows(p) /\ (\A u \in Uploads : Kept(u)) /\ Placed(p)
      /\ (p \in Requests => then[p] # "abortstorage")
  BY DEF ObjectInv, UploadInv
<1>2. /\ staging \in [Uploads -> Content] /\ final \in [Uploads -> Content]
      /\ mpu \in [Uploads -> SUBSET Nat] /\ job[p] \in Uploads
      /\ then[p] \in {"idle", "reject", "abortstorage"} /\ stored[p] \in Content
  BY <1>1 DEF UploadTypeOK
<1>3. p \in Workers => then[p] # "reject"
  BY <1>1 DEF Knows
<1>4. (p \in Requests => p \notin Workers) /\ (p \notin Requests => p \in Workers)
  BY UploadAssumption DEF Procs
<1> QED
  BY <1>1, <1>2, <1>3, <1>4 DEF Before

(* complete_multipart: from then on the upload id is gone. *)
LEMMA AssembleStores ==
    ASSUME ObjectInv, NEW p, NEW u, Before(p, u), AssembleParts(p), p \in Requests
    PROVE  Within(p, u) /\ Stores(p, u)
<1>0. /\ UNCHANGED <<status, uploadId, job, uid, created, faults, staging, then, stored>>
      /\ pc[p] = "assemble" /\ p \in Procs /\ u \in Uploads /\ job[p] = u /\ UploadTypeOK
      /\ ~Single(u) /\ uid[p] = uploadId[u] /\ p \notin Workers
  BY DEF AssembleParts, sessionVars, budgetVars, Before, Placed, Knows, Acting, FinalizerSteps
<1>1. faults = 0 => Clear(u)
  BY <1>0 DEF Before, Knows
<1>2. \/ /\ uid[p] \in mpu[u] /\ Goto(p, "headfinal") /\ mpu' = [mpu EXCEPT ![u] = @ \ {uid[p]}]
         /\ \E c \in {"good", "bad"} : final' = [final EXCEPT ![u] = c]
      \/ uid[p] \in mpu[u] /\ Goto(p, "idle") /\ UNCHANGED <<final, mpu>>
      \/ /\ uid[p] \notin mpu[u] /\ UNCHANGED <<final, mpu>>
         /\ Goto(p, IF final[u] # "none" THEN "headfinal" ELSE "idle")
  BY <1>0 DEF AssembleParts
<1>3. Within(p, u) /\ pc'[p] \in {"headfinal", "idle"} /\ mpu'[u] \subseteq mpu[u]
  BY <1>0, <1>2, GotoMeans DEF Within, Before
<1>4. /\ uid[p] \in mpu[u] \/ final'[u] = final[u]
      /\ pc'[p] = "idle" => final'[u] = final[u]
      /\ pc'[p] = "headfinal" => uid[p] \notin mpu'[u]
  BY <1>0, <1>2, GotoMeans DEF Before
<1>5. pc'[p] = "headfinal" => Spent(u)'
  BY <1>0, <1>4 DEF Spent
<1>6. Knows(p)'
  BY <1>0, <1>3, <1>5, KnowsNext DEF Acting, FinalizerSteps, Promoting
<1>7. /\ faults = 0 /\ pc'[p] \notin FinalizerSteps => Clear(u)'
      /\ Clear(u) /\ Spent(u) => Clear(u)'
  BY <1>0, <1>1, <1>3, <1>4 DEF Clear, Spent, FinalizerSteps
<1> QED
  BY <1>0, <1>3, <1>6, <1>7 DEF Stores, Acting, FinalizerSteps

(* try_head(final_key): whoever gives up here has seen no object. *)
LEMMA HeadFinalStores ==
    ASSUME ObjectInv, NEW p, NEW u, Before(p, u), HeadFinal(p)
    PROVE  Within(p, u) /\ Stores(p, u)
<1>0. /\ UNCHANGED <<status, uploadId, job, uid, created, faults, staging, final, mpu>>
      /\ pc[p] = "headfinal" /\ p \in Procs /\ u \in Uploads /\ job[p] = u /\ UploadTypeOK
  BY DEF HeadFinal, sessionVars, storeVars, budgetVars, Before
<1>1. \/ final[u] # "none" /\ Judge(p, final[u])
      \/ /\ final[u] = "none" /\ UNCHANGED <<stored, then>>
         /\ Goto(p, IF Single(u) THEN "headstaging" ELSE IF p \in Workers THEN "abortstorage" ELSE "idle")
  BY <1>0 DEF HeadFinal
<1>2. Within(p, u)
  BY <1>0, <1>1, GotoMeans, JudgeMeans DEF Within
<1>3. /\ pc'[p] \in {"commit", "delete", "headstaging", "abortstorage", "idle"}
      /\ pc'[p] = "commit" => final[u] = "good"
      /\ pc'[p] = "headstaging" => Single(u)
      /\ pc'[p] \in {"headstaging", "abortstorage", "idle"} => final[u] = "none"
  BY <1>0, <1>1, GotoMeans, JudgeMeans
<1>4. p \in Workers => then'[p] # "reject"
  BY <1>0, <1>1, JudgeMeans DEF Before
<1>5. p \in Requests /\ ~Single(u) => Spent(u)
  BY <1>0 DEF Before, Knows
<1>6. (Clear(u)' <=> Clear(u)) /\ (Spent(u)' <=> Spent(u))
  BY <1>0 DEF Clear, Spent
<1>7. Knows(p)'
  BY <1>0, <1>3, <1>4, <1>5, <1>6, KnowsNext DEF Acting, FinalizerSteps, Promoting, Clear
<1> QED
  BY <1>0, <1>2, <1>3, <1>6, <1>7 DEF Stores, Acting, FinalizerSteps, Clear

(* try_head(source_key) promotes, or finds that there is nothing to promote. *)
LEMMA HeadStagingStores ==
    ASSUME ObjectInv, NEW p, NEW u, Before(p, u), HeadStaging(p)
    PROVE  Within(p, u) /\ Stores(p, u)
<1>0. /\ UNCHANGED <<status, uploadId, job, uid, created, faults, staging, final, mpu>>
      /\ pc[p] = "headstaging" /\ p \in Procs /\ u \in Uploads /\ job[p] = u /\ UploadTypeOK
  BY DEF HeadStaging, sessionVars, storeVars, budgetVars, Before
<1>1. \/ Goto(p, "copy") /\ UNCHANGED <<stored, then>>
      \/ Goto(p, IF p \in Workers THEN "abortstorage" ELSE "idle") /\ UNCHANGED <<stored, then>>
      \/ \E o \in {"bad", "tomb"} : Judge(p, o)
  BY <1>0 DEF HeadStaging
<1>2. Within(p, u)
  BY <1>0, <1>1, GotoMeans, JudgeMeans DEF Within
<1>3. pc'[p] \in {"delete", "copy", "abortstorage", "idle"}
  BY <1>0, <1>1, GotoMeans, JudgeMeans
<1>4. p \in Workers => then'[p] # "reject"
  BY <1>0, <1>1, JudgeMeans DEF Before
<1>5. Single(u) /\ Clear(u)
  BY <1>0 DEF Before, Knows, Promoting
<1>6. (Clear(u)' <=> Clear(u)) /\ (Spent(u)' <=> Spent(u))
  BY <1>0 DEF Clear, Spent
<1>7. Knows(p)'
  BY <1>0, <1>3, <1>4, <1>5, <1>6, KnowsNext DEF Acting, FinalizerSteps, Promoting
<1> QED
  BY <1>0, <1>2, <1>3, <1>5, <1>6, <1>7 DEF Stores, Acting, FinalizerSteps

(* copy_object and head, then the seal. *)
LEMMA PromoteStores ==
    ASSUME ObjectInv, NEW p, NEW u, Before(p, u),
           CopyObject(p) \/ HeadPromoted(p) \/ SealPromoted(p)
    PROVE  Within(p, u) /\ Stores(p, u)
<1>0. /\ UNCHANGED <<status, uploadId, job, uid, created, faults, mpu>>
      /\ pc[p] \in {"copy", "headcopy", "seal"}
      /\ p \in Procs /\ u \in Uploads /\ job[p] = u /\ UploadTypeOK
  BY DEF CopyObject, HeadPromoted, SealPromoted, sessionVars, storeVars, budgetVars, Before
<1>1. Single(u) /\ (p \in Workers => then[p] # "reject")
  BY <1>0 DEF Before, Knows, Promoting
<1>2. CASE CopyObject(p)
  <2>1. /\ pc[p] = "copy" /\ pc'[p] = "headcopy" /\ UNCHANGED <<staging, stored, then>>
        /\ \A q \in Procs \ {p} : pc'[q] = pc[q]
        /\ final' = [final EXCEPT ![u] = staging[u]]
    BY <1>0, <1>2, GotoMeans DEF CopyObject
  <2>2. Within(p, u) /\ final'[u] = staging[u]
    BY <1>0, <2>1 DEF Within, Before
  <2>3. Knows(p)'
    BY <1>0, <1>1, <2>1, KnowsNext DEF Acting, FinalizerSteps, Promoting
  <2>4. Clear(u) /\ Spent(u) => Clear(u)'
    BY <1>1, <2>2 DEF Clear, Spent
  <2> QED
    BY <1>0, <2>1, <2>2, <2>3, <2>4 DEF Stores, Acting, FinalizerSteps
<1>3. CASE HeadPromoted(p)
  <2>1. /\ pc[p] = "headcopy" /\ UNCHANGED <<staging, final, then>>
        /\ \/ final[u] = "none" /\ Goto(p, "idle") /\ UNCHANGED stored
           \/ Goto(p, "seal") /\ stored' = [stored EXCEPT ![p] = final[u]]
    BY <1>0, <1>3 DEF HeadPromoted, storeVars
  <2>2. Within(p, u) /\ pc'[p] \in {"seal", "idle"} /\ (pc'[p] = "seal" => stored'[p] = final[u])
    BY <1>0, <2>1, GotoMeans DEF Within, UploadTypeOK
  <2>3. pc'[p] = "idle" => final[u] = "none"
    BY <1>0, <2>1, GotoMeans
  <2>4. (Clear(u)' <=> Clear(u)) /\ (Spent(u)' <=> Spent(u))
    BY <1>0, <2>1 DEF Clear, Spent
  <2>5. Knows(p)'
    BY <1>0, <1>1, <2>1, <2>2, KnowsNext DEF Acting, FinalizerSteps, Promoting
  <2> QED
    BY <1>0, <2>1, <2>2, <2>3, <2>4, <2>5 DEF Stores, Acting, FinalizerSteps, Clear
<1>4. CASE SealPromoted(p)
  <2>1. /\ pc[p] = "seal" /\ UNCHANGED final /\ Judge(p, stored[p])
        /\ staging' = [staging EXCEPT ![u] = "tomb"]
    BY <1>0, <1>4 DEF SealPromoted
  <2>2. stored[p] = final[u]
    BY <1>0, <2>1 DEF Before, Knows
  <2>3. Within(p, u) /\ staging'[u] = "tomb"
    BY <1>0, <2>1, JudgeMeans DEF Within, Before
  <2>4. pc'[p] \in {"commit", "delete"} /\ (pc'[p] = "commit" => final[u] = "good")
    BY <1>0, <2>1, <2>2, JudgeMeans
  <2>5. p \in Workers => then'[p] # "reject"
    BY <1>0, <2>1, JudgeMeans
  <2>6. Clear(u)' <=> Clear(u)
    BY <2>1 DEF Clear
  <2>7. Knows(p)'
    BY <1>0, <1>1, <2>1, <2>4, <2>5, KnowsNext DEF Acting, FinalizerSteps, Promoting
  <2> QED
    BY <1>0, <1>1, <2>1, <2>3, <2>4, <2>6, <2>7 DEF Stores, Acting, FinalizerSteps
<1> QED
  BY <1>2, <1>3, <1>4

(* Cleanup: the object goes, the staging key is sealed again. *)
LEMMA RemoveStores ==
    ASSUME ObjectInv, NEW p, NEW u, Before(p, u), DeleteFinal(p) \/ ResealStaging(p)
    PROVE  Within(p, u) /\ Stores(p, u)
<1>0. /\ UNCHANGED <<status, uploadId, job, uid, created, faults, mpu, then, stored>>
      /\ p \in Procs /\ u \in Uploads /\ job[p] = u /\ UploadTypeOK
      /\ pc[p] \in {"delete", "reseal"}
      /\ then[p] \in {"idle", "reject", "abortstorage"}
      /\ p \in Workers => then[p] # "reject"
      /\ p \in Requests => then[p] # "abortstorage"
      /\ p \notin Requests => p \in Workers
  BY DEF DeleteFinal, ResealStaging, sessionVars, budgetVars, Before
<1>1. CASE DeleteFinal(p)
  <2>1. /\ pc[p] = "delete" /\ UNCHANGED staging /\ final' = [final EXCEPT ![u] = "none"]
        /\ pc'[p] = (IF Single(u) THEN "reseal" ELSE then[p])
        /\ \A q \in Procs \ {p} : pc'[q] = pc[q]
    BY <1>0, <1>1, GotoMeans DEF DeleteFinal
  <2>2. Within(p, u) /\ final'[u] = "none"
    BY <1>0, <2>1 DEF Within, Before
  <2>3. Clear(u)' /\ (Spent(u)' <=> Spent(u))
    BY <1>0, <2>1, <2>2 DEF Clear, Spent
  <2>4. p \in Requests /\ ~Single(u) => Spent(u)
    BY <1>0, <2>1 DEF Before, Knows
  <2>5. pc'[p] \in {"reseal", "idle", "reject", "abortstorage"} /\ (pc'[p] = "reseal" => Single(u))
    BY <1>0, <2>1
  <2>6. pc'[p] = "reject" => Spent(u)
    BY <1>0, <2>1, <2>4
  <2>7. Knows(p)'
    BY <1>0, <2>1, <2>3, <2>4, <2>5, <2>6, KnowsNext DEF Acting, FinalizerSteps, Promoting
  <2> QED
    BY <1>0, <2>1, <2>2, <2>3, <2>4, <2>5, <2>7 DEF Stores, Acting, FinalizerSteps
<1>2. CASE ResealStaging(p)
  <2>1. /\ pc[p] = "reseal" /\ UNCHANGED final /\ staging' = [staging EXCEPT ![u] = "tomb"]
        /\ pc'[p] = then[p] /\ \A q \in Procs \ {p} : pc'[q] = pc[q]
    BY <1>0, <1>2, GotoMeans DEF ResealStaging
  <2>2. Within(p, u) /\ staging'[u] = "tomb"
    BY <1>0, <2>1 DEF Within, Before
  <2>3. Single(u) /\ Clear(u)
    BY <1>0, <2>1 DEF Before, Knows, Promoting
  <2>4. Clear(u)' /\ Spent(u)'
    BY <2>1, <2>2, <2>3 DEF Clear, Spent
  <2>5. Knows(p)'
    BY <1>0, <2>1, <2>3, <2>4, KnowsNext DEF Acting, FinalizerSteps, Promoting
  <2> QED
    BY <1>0, <2>1, <2>2, <2>3, <2>4, <2>5 DEF Stores, Acting, FinalizerSteps
<1> QED
  BY <1>1, <1>2

(* abort_multipart or the seal: nothing can be stored afterwards. *)
LEMMA AbortStores ==
    ASSUME ObjectInv, NEW p, NEW u, Before(p, u), AbortStorage(p)
    PROVE  Within(p, u) /\ Stores(p, u)
<1>0. /\ UNCHANGED <<status, uploadId, job, uid, created, faults, then, stored>>
      /\ p \in Procs /\ u \in Uploads /\ job[p] = u /\ UploadTypeOK
      /\ pc[p] = "abortstorage" /\ Goto(p, "release")
      /\ p \in Workers => then[p] # "reject"
      /\ p \notin Requests => p \in Workers
  BY DEF AbortStorage, sessionVars, budgetVars, Before
<1>1. /\ pc'[p] = "release" /\ \A q \in Procs \ {p} : pc'[q] = pc[q]
  BY <1>0, GotoMeans
<1>2. /\ uid[p] = uploadId[u]
      /\ Single(u) => uid[p] = NoId
      /\ p \in Requests => status[u] \in Closed
      /\ mpu[u] \subseteq 1..created[u]
  BY <1>0 DEF Before, Knows, Acting, Placed, Kept
<1>3. \/ /\ uid[p] # NoId /\ mpu' = [mpu EXCEPT ![u] = @ \ {uid[p]}] /\ UNCHANGED <<staging, final>>
      \/ /\ uid[p] = NoId /\ Single(u) /\ staging' = [staging EXCEPT ![u] = "tomb"]
         /\ UNCHANGED <<final, mpu>>
      \/ /\ uid[p] = NoId /\ ~Single(u) /\ UNCHANGED <<staging, mpu>>
         /\ \/ UNCHANGED final
            \/ p \in Requests /\ final' = [final EXCEPT ![u] = "tomb"]
  <2>1. p \in Workers => [final EXCEPT ![u] = IF p \in Workers THEN final[u] ELSE "tomb"] = final
    BY <1>0 DEF Before
  <2> QED
    BY <1>0, <2>1 DEF AbortStorage, Single
<1>4. /\ Within(p, u) /\ mpu'[u] \subseteq mpu[u]
      /\ staging'[u] \in {staging[u], "tomb"} /\ (~Single(u) => staging'[u] = staging[u])
      /\ final'[u] = final[u] \/ (final'[u] = "tomb" /\ ~Single(u) /\ status[u] \in Closed)
  BY <1>0, <1>1, <1>2, <1>3 DEF Within, Before
<1>5. Spent(u)'
  <2>1. CASE Single(u)
    BY <1>0, <1>2, <1>3, <2>1 DEF Spent, Before
  <2>2. CASE ~Single(u) /\ uid[p] # NoId
    BY <1>0, <1>2, <1>3, <2>2 DEF Spent, Before
  <2>3. CASE ~Single(u) /\ uid[p] = NoId
    <3>1. NoId \notin mpu[u]
      <4>1. created[u] \in Nat
        BY <1>0 DEF UploadTypeOK
      <4> QED
        BY <1>2, <4>1 DEF NoId
    <3> QED
      BY <1>0, <1>2, <1>3, <2>3, <3>1 DEF Spent
  <2> QED
    BY <2>1, <2>2, <2>3
<1>6. Clear(u) => Clear(u)'
  BY <1>4 DEF Clear
<1>7. Knows(p)'
  BY <1>0, <1>1, <1>5, KnowsNext DEF Acting, FinalizerSteps, Promoting
<1> QED
  BY <1>0, <1>1, <1>4, <1>6, <1>7 DEF Stores, Acting, FinalizerSteps

(* Every S3 call keeps the invariant. *)
LEMMA ObjectsKeep ==
    ASSUME ObjectInv, UploadInv', NEW p \in Procs, ObjectStep(p),
           p \in Workers => ~AssembleParts(p)
    PROVE  ObjectInv'
<1>1. PICK u \in Uploads : Before(p, u)
  BY IsBefore
<1>2. Within(p, u) /\ Stores(p, u)
  <2>1. AssembleParts(p) => p \in Requests
    BY <1>1 DEF Before
  <2> QED
    BY <1>1, <2>1, AssembleStores, HeadFinalStores, HeadStagingStores, PromoteStores, RemoveStores,
       AbortStores DEF ObjectStep
<1>3. UNCHANGED <<status, due, uploadId, announced, denied, created, resv, job, uid, faults>>
  BY ObjectsOnly DEF quotaVars, sessionVars, budgetVars
<1>4. Frame(p, u) /\ job[p] = u
  BY <1>1, <1>2, <1>3 DEF Frame, Within, Before
<1> QED
  BY <1>2, <1>3, <1>4, StoresKeeps

-----------------------------------------------------------------------------
(* The transactions after the S3 calls *)

(* One of four ends: publish, clean up, leave the session alone, close it. *)
Ends(p, u) ==
    \/ /\ pc[p] = "commit" /\ pc'[p] = "idle" /\ then'[p] = then[p]
       /\ status[u] = "FINALIZING" /\ status'[u] = "COMPLETED" /\ denied' = denied
    \/ /\ pc[p] = "commit" /\ pc'[p] = "delete" /\ then'[p] = "idle"
       /\ status'[u] = status[u] /\ (\A k \in UploadKeys : resv'[u][k] = resv[u][k])
       /\ denied' = denied \/ (p \in Requests /\ denied' = denied \cup {u})
    \/ /\ pc'[p] = "idle" /\ then'[p] = then[p]
       /\ pc[p] \in {"reject", "release"} \/ (pc[p] = "commit" /\ status[u] = "COMPLETED")
       /\ status'[u] = status[u] /\ (\A k \in UploadKeys : resv'[u][k] = resv[u][k])
       /\ denied' = denied
    \/ /\ pc[p] \in {"reject", "release"} /\ pc'[p] = "idle" /\ then'[p] = then[p]
       /\ status[u] # "COMPLETED" /\ status'[u] \in Closed /\ denied' = denied

Settled(p, u) ==
    /\ Frame(p, u) /\ Ends(p, u)
    /\ UNCHANGED <<due, uploadId, announced, staging, final, mpu, created, job, uid, faults>>

(* Each transaction has one of these ends. *)
LEMMA SettledMeans ==
    ASSUME ObjectInv, NEW p, NEW u, Before(p, u),
           \/ p \in Requests /\ (\/ CommitUpload(p) \/ ReauthorizationFails(p)
                                 \/ RecordRejection(p) \/ AbortRelease(p))
           \/ p \in Workers /\ (ReconcileFinalization(p) \/ FinishCleanup(p))
    PROVE  Settled(p, u)
<1>0. /\ p \in Procs /\ u \in Uploads /\ u = job[p] /\ UploadTypeOK /\ QuotaTypeOK
      /\ status \in [Uploads -> SessionStatus \cup {"none"}]
  BY DEF Before, UploadTypeOK
<1>1. UNCHANGED <<due, uploadId, announced, staging, final, mpu, created, job, uid, faults, stored>>
  <2>1. CASE CommitUpload(p)
    BY <2>1, Zenon DEF CommitUpload, storeVars, budgetVars
  <2>2. CASE ReauthorizationFails(p)
    BY <2>2, Zenon DEF ReauthorizationFails, storeVars, budgetVars
  <2>3. CASE RecordRejection(p)
    BY <2>3, Zenon DEF RecordRejection, storeVars, budgetVars
  <2>4. CASE AbortRelease(p)
    BY <2>4, Zenon DEF AbortRelease, sessionVars, storeVars, budgetVars
  <2>5. CASE ReconcileFinalization(p)
    BY <2>5, Zenon DEF ReconcileFinalization, storeVars, budgetVars
  <2>6. CASE FinishCleanup(p)
    BY <2>6, Zenon DEF FinishCleanup, storeVars, budgetVars
  <2> QED
    BY <2>1, <2>2, <2>3, <2>4, <2>5, <2>6
<1>2. ASSUME Goto(p, "idle"), UNCHANGED then
      PROVE  /\ pc'[p] = "idle" /\ then'[p] = then[p]
             /\ \A q \in Procs \ {p} : pc'[q] = pc[q] /\ then'[q] = then[q]
  BY <1>0, <1>2, GotoMeans
<1>3. ASSUME CleanUp(p)
      PROVE  /\ pc'[p] = "delete" /\ then'[p] = "idle"
             /\ \A q \in Procs \ {p} : pc'[q] = pc[q] /\ then'[q] = then[q]
  BY <1>0, <1>3, GotoMeans DEF CleanUp, UploadTypeOK
<1>4. ASSUME NEW s, \/ s = "CONSUMED" /\ ConsumeUploadReservations(u)
                    \/ ReleaseUploadReservations(u, s)
      PROVE  \A v \in Uploads \ {u}, k \in UploadKeys : resv'[v][k] = resv[v][k]
  BY <1>0, <1>4, SettlementRows
<1>5. ASSUME UNCHANGED <<quotaVars, status>>
      PROVE  /\ \A v \in Uploads : status'[v] = status[v]
             /\ \A v \in Uploads, k \in UploadKeys : resv'[v][k] = resv[v][k]
  BY <1>5 DEF quotaVars
<1>6. ASSUME Publish(u)
      PROVE  /\ status'[u] = "COMPLETED" /\ \A v \in Uploads \ {u} : status'[v] = status[v]
             /\ \A v \in Uploads \ {u}, k \in UploadKeys : resv'[v][k] = resv[v][k]
  BY <1>0, <1>4, <1>6 DEF Publish
<1> DEFINE Others == /\ \A q \in Procs \ {p} : pc'[q] = pc[q] /\ then'[q] = then[q]
                     /\ \A v \in Uploads \ {u} : status'[v] = status[v]
                     /\ \A v \in Uploads \ {u}, k \in UploadKeys : resv'[v][k] = resv[v][k]
                     /\ denied' = denied \/ denied' = denied \cup {u}
<1>7. ASSUME p \in Requests /\ CommitUpload(p) PROVE Others /\ Ends(p, u)
  <2>1. /\ pc[p] = "commit" /\ denied' = denied
        /\ \/ status[u] = "COMPLETED" /\ Goto(p, "idle") /\ UNCHANGED <<quotaVars, status>> /\ UNCHANGED then
           \/ status[u] = "FINALIZING" /\ Publish(u) /\ Goto(p, "idle") /\ UNCHANGED then
           \/ CleanUp(p) /\ UNCHANGED <<quotaVars, status>>
    BY <1>0, <1>7 DEF CommitUpload
  <2> QED
    BY <1>0, <1>2, <1>3, <1>5, <1>6, <2>1 DEF Ends
<1>8. ASSUME p \in Requests /\ ReauthorizationFails(p) PROVE Others /\ Ends(p, u)
  <2>1. /\ pc[p] = "commit" /\ denied' = denied \cup {u} /\ CleanUp(p)
        /\ UNCHANGED <<quotaVars, status>>
    BY <1>0, <1>8 DEF ReauthorizationFails
  <2> QED
    BY <1>0, <1>3, <1>5, <1>8, <2>1 DEF Ends
<1>9. ASSUME p \in Requests /\ RecordRejection(p) PROVE Others /\ Ends(p, u)
  <2>1. /\ pc[p] = "reject" /\ denied' = denied /\ Goto(p, "idle") /\ UNCHANGED then
        /\ \/ /\ status[u] = "FINALIZING" /\ status' = [status EXCEPT ![u] = "FAILED"]
              /\ ReleaseUploadReservations(u, "RELEASED")
           \/ UNCHANGED <<quotaVars, status>>
    BY <1>0, <1>9 DEF RecordRejection
  <2> QED
    BY <1>0, <1>2, <1>4, <1>5, <2>1 DEF Ends, Closed
<1>10. ASSUME p \in Requests /\ AbortRelease(p) PROVE Others /\ Ends(p, u)
  <2>1. /\ pc[p] = "release" /\ denied' = denied /\ Goto(p, "idle") /\ UNCHANGED then
        /\ UNCHANGED status /\ ReleaseUploadReservations(u, "RELEASED")
    BY <1>0, <1>10 DEF AbortRelease, sessionVars
  <2>2. status[u] \in Closed
    BY <1>10, <2>1 DEF Before, Placed
  <2> QED
    BY <1>0, <1>2, <1>4, <2>1, <2>2 DEF Ends, Closed
<1>11. ASSUME p \in Workers /\ ReconcileFinalization(p) PROVE Others /\ Ends(p, u)
  <2>1. /\ pc[p] = "commit" /\ denied' = denied
        /\ \/ status[u] = "FINALIZING" /\ Publish(u) /\ Goto(p, "idle") /\ UNCHANGED then
           \/ CleanUp(p) /\ UNCHANGED <<quotaVars, status>>
    BY <1>0, <1>11 DEF ReconcileFinalization
  <2> QED
    BY <1>0, <1>2, <1>3, <1>5, <1>6, <2>1 DEF Ends
<1>12. ASSUME p \in Workers /\ FinishCleanup(p) PROVE Others /\ Ends(p, u)
  <2>1. /\ pc[p] = "release" /\ denied' = denied /\ Goto(p, "idle") /\ UNCHANGED then
        /\ \/ UNCHANGED <<quotaVars, status>>
           \/ /\ status[u] # "COMPLETED"
              /\ \E s \in {"RELEASED", "EXPIRED"} : ReleaseUploadReservations(u, s)
              /\ \E c \in Closed : status' = [status EXCEPT ![u] = c]
    BY <1>0, <1>12 DEF FinishCleanup, Closed
  <2> QED
    BY <1>0, <1>2, <1>4, <1>5, <2>1 DEF Ends
<1>13. Others /\ Ends(p, u)
  BY <1>7, <1>8, <1>9, <1>10, <1>11, <1>12
<1>14. Frame(p, u)
  BY <1>0, <1>1, <1>13 DEF Frame
<1> QED
  BY <1>1, <1>13, <1>14 DEF Settled

(* The invariant survives them: only the judged object is published, and a session
   is closed only once it is spent. *)
LEMMA TransactionsKeep ==
    ASSUME ObjectInv, UploadInv', NEW p \in Procs,
           \/ p \in Requests /\ (\/ CommitUpload(p) \/ ReauthorizationFails(p)
                                 \/ RecordRejection(p) \/ AbortRelease(p))
           \/ p \in Workers /\ (ReconcileFinalization(p) \/ FinishCleanup(p))
    PROVE  ObjectInv'
<1>1. PICK u \in Uploads : Before(p, u)
  BY IsBefore
<1>2. Settled(p, u)
  BY <1>1, SettledMeans
<1>3. /\ Kept(u) /\ Alone /\ (faults = 0 => Undisturbed(u)) /\ Knows(p) /\ job[p] = u
      /\ p \in Workers => then[p] # "reject"
  BY <1>1 DEF ObjectInv, Before
<1>4. \A q \in Procs : q # p => pc'[q] = pc[q]
  BY <1>2 DEF Settled, Frame
<1>5. /\ pc[p] \in {"commit", "reject", "release"} /\ pc'[p] \in {"idle", "delete"}
      /\ pc'[p] = "delete" => pc[p] = "commit" /\ status'[u] = status[u]
      /\ status'[u] \in {status[u], "COMPLETED"} \cup Closed
      /\ p \in Workers => then'[p] # "reject"
  BY <1>2, <1>3 DEF Settled, Ends
<1>6. /\ ~Open(status[u]) /\ uid[p] = uploadId[u] /\ ~Open(status'[u])
      /\ pc[p] \in {"reject", "release"} => Spent(u)
      /\ pc[p] = "reject" => Clear(u)
      /\ p \in Requests /\ pc[p] = "commit" /\ ~Single(u) => Spent(u)
      /\ pc[p] = "commit" /\ status[u] = "FINALIZING" => final[u] = "good"
  <2>1. pc[p] \in Acting
    BY <1>5 DEF Acting, FinalizerSteps
  <2> QED
    BY <1>3, <1>5, <2>1 DEF Knows, Open, Closed
<1>7. (Clear(u)' <=> Clear(u)) /\ (Spent(u)' <=> Spent(u)) /\ UNCHANGED <<final, uid, uploadId>>
      /\ job'[p] = u
  BY <1>2, <1>3 DEF Settled, Clear, Spent
<1>8. Gentle(p, u)
  BY <1>2, <1>5, <1>6, <1>7 DEF Gentle, Settled, Closed
<1>9. Knows(p)'
  BY <1>5, <1>6, <1>7 DEF Knows, Acting, FinalizerSteps, Promoting, Uploading
<1>10. /\ pc[p] \in FinalizerSteps \/ pc'[p] \notin FinalizerSteps
       /\ FinalizerOn(u)' => FinalizerOn(u)
       /\ pc[p] \in {"commit", "reject"} => FinalizerOn(u)
       /\ pc[p] \in {"commit", "reject"} /\ pc'[p] = "idle" => ~FinalizerOn(u)'
       /\ pc[p] = "release" => (FinalizerOn(u)' <=> FinalizerOn(u))
       /\ pc'[p] = "delete" => FinalizerOn(u)'
  <2>1. {"commit", "reject", "delete"} \subseteq FinalizerSteps /\ "idle" \notin FinalizerSteps
        /\ "release" \notin FinalizerSteps
    BY DEF FinalizerSteps
  <2>2. UNCHANGED job
    BY <1>2 DEF Settled
  <2> QED
    BY <1>3, <1>4, <1>5, <2>1, <2>2 DEF FinalizerOn, Alone
<1>11. Kept(u)'
  <2>1. status'[u] = "COMPLETED" => final'[u] = "good" /\ ~FinalizerOn(u)'
    BY <1>2, <1>3, <1>6, <1>7, <1>10 DEF Settled, Ends, Kept, Closed
  <2>2. ~(\E q \in Procs : pc[q] \in {"create", "persist"} /\ job[q] = u)
        => ~(\E q \in Procs : pc'[q] \in {"create", "persist"} /\ job'[q] = u)
    BY <1>2, <1>4, <1>5 DEF Settled
  <2>3. ASSUME status'[u] \in Closed, ~Held(u)' PROVE Spent(u)'
    <3>1. CASE status'[u] = status[u] /\ (\A k \in UploadKeys : resv'[u][k] = resv[u][k])
      BY <1>3, <1>7, <2>3, <3>1 DEF Kept, Held
    <3>2. CASE pc[p] \in {"reject", "release"}
      BY <1>6, <1>7, <3>2
    <3> QED
      BY <1>2, <2>3, <3>1, <3>2 DEF Settled, Ends, Closed
  <2>4. u \in denied' => ~Open(status'[u])
    BY <1>6
  <2>5. UNCHANGED <<due, uploadId, announced, staging, mpu, created>>
    BY <1>2 DEF Settled
  <2> QED
    BY <1>3, <1>6, <2>1, <2>2, <2>3, <2>4, <2>5 DEF Kept
<1>12. ASSUME faults' = 0 PROVE Undisturbed(u)'
  <2>0. Undisturbed(u)
    BY <1>2, <1>3, <1>12 DEF Settled
  <2>1. ASSUME ~FinalizerOn(u)', status'[u] # "COMPLETED" PROVE Clear(u)'
    <3>1. pc[p] \in {"reject", "release"} /\ status[u] # "COMPLETED"
      BY <1>2, <1>10, <2>1 DEF Settled, Ends
    <3> QED
      BY <1>6, <1>7, <1>10, <2>0, <2>1, <3>1 DEF Undisturbed
  <2>2. \A i \in mpu'[u] : \/ i = uploadId'[u]
                           \/ \E q \in Procs : job'[q] = u /\ pc'[q] \in Uploading /\ uid'[q] = i
    <3>1. pc[p] \notin Uploading
      BY <1>5 DEF Uploading
    <3>2. UNCHANGED <<mpu, job, uid, uploadId>>
      BY <1>2 DEF Settled
    <3> QED
      BY <1>4, <2>0, <3>1, <3>2 DEF Undisturbed
  <2>3. ASSUME NEW S \in {{"delete"}, {"delete", "reseal"}}, Removing(u, S) PROVE Removing(u, S)'
    <3>1. PICK r \in Requests : job[r] = u /\ pc[r] \in S
      BY <2>3 DEF Removing
    <3>2. r # p /\ r \in Procs /\ UNCHANGED job
      BY <1>2, <1>5, <3>1 DEF Settled, Procs
    <3> QED
      BY <1>4, <3>1, <3>2 DEF Removing
  <2>4. CASE u \in denied
    <3>1. /\ status[u] # "COMPLETED"
          /\ Clear(u) \/ Removing(u, {"delete"})
          /\ Spent(u) \/ Removing(u, {"delete", "reseal"})
      BY <2>0, <2>4 DEF Undisturbed
    <3>2. ~(pc[p] = "commit" /\ status[u] = "FINALIZING")
      <4>1. SUFFICES ASSUME pc[p] = "commit", final[u] = "good" PROVE FALSE
        BY <1>6
      <4>2. PICK r \in Requests : job[r] = u /\ pc[r] = "delete"
        BY <3>1, <4>1 DEF Clear, Removing
      <4>3. pc[p] \in FinalizerSteps /\ pc[r] \in FinalizerSteps /\ r \in Procs
        BY <4>1, <4>2 DEF FinalizerSteps, Procs
      <4> QED
        BY <1>3, <4>1, <4>2, <4>3 DEF Alone
    <3>3. status'[u] # "COMPLETED"
      BY <1>2, <3>1, <3>2 DEF Settled, Ends, Closed
    <3> QED
      BY <1>7, <2>1, <2>2, <2>3, <3>1, <3>3 DEF Undisturbed
  <2>5. CASE u \notin denied /\ u \in denied'
    <3>1. p \in Requests /\ pc[p] = "commit" /\ pc'[p] = "delete" /\ status'[u] = status[u]
      BY <1>2, <2>5 DEF Settled, Ends
    <3>2. status[u] # "COMPLETED"
      BY <1>3, <1>10, <3>1 DEF Kept
    <3>3. Removing(u, {"delete"})' /\ Removing(u, {"delete", "reseal"})'
      BY <1>7, <3>1 DEF Removing
    <3> QED
      BY <2>1, <2>2, <3>1, <3>2, <3>3 DEF Undisturbed
  <2>6. CASE u \notin denied'
    BY <2>1, <2>2, <2>6 DEF Undisturbed
  <2> QED
    BY <2>4, <2>5, <2>6
<1>13. Frame(p, u)
  BY <1>2 DEF Settled
<1> QED
  BY <1>8, <1>9, <1>10, <1>11, <1>12, <1>13, ObjectsAgain

-----------------------------------------------------------------------------
(* The transactions before the S3 calls *)

(* A completion, an abort or a claim takes the session over: it is no longer
   open, and its upload id, if it has none, will never come. *)
Opens(p, u) ==
    /\ pc[p] = "idle" /\ pc'[p] \in {"headfinal", "assemble", "abortstorage"}
    /\ uid'[p] = uploadId[u]
    /\ ~Open(status'[u]) /\ {status[u], status'[u]} \cap {"none", "COMPLETED"} = {}
    /\ pc'[p] \in {"headfinal", "assemble"} => ~FinalizerOn(u)
    /\ pc'[p] = "assemble" => ~Single(u)
    /\ p \in Requests /\ pc'[p] = "headfinal" => Single(u)
    /\ ~Single(u) /\ uploadId[u] = NoId => due[u]
    /\ status'[u] = "FINALIZING" => status[u] \in {"INITIATED", "FINALIZING"}
    /\ status'[u] \in Closed /\ ~Held(u) => status[u] \in Closed

(* The three of them are such openings. *)
LEMMA OpensMeans ==
    ASSUME ObjectInv, OneFinalizer, NEW p \in Procs, NEW u \in Uploads,
           \/ p \in Requests /\ (CompleteUpload(p, u) \/ AbortUpload(p, u))
           \/ p \in Workers /\ ClaimExpired(p, u)
    PROVE  /\ Frame(p, u) /\ Opens(p, u)
           /\ UNCHANGED <<resv, uploadId, announced, denied, staging, final, mpu, created, then, faults>>
<1>0. /\ UploadTypeOK /\ SessionAgreesWithQuota /\ Kept(u)
      /\ p \in Requests => p \notin Workers
  BY UploadAssumption DEF ObjectInv, UploadInv
<1>1. status \in [Uploads -> SessionStatus \cup {"none"}] /\ due \in [Uploads -> BOOLEAN]
  BY <1>0 DEF UploadTypeOK
<1>2. /\ UNCHANGED <<resv, uploadId, announced, denied, staging, final, mpu, created, then, faults>>
      /\ pc[p] = "idle"
      /\ job' = [job EXCEPT ![p] = u] /\ uid' = [uid EXCEPT ![p] = uploadId[u]]
  <2>1. CASE CompleteUpload(p, u)
    BY <2>1, Zenon DEF CompleteUpload, Call, quotaVars, storeVars
  <2>2. CASE AbortUpload(p, u)
    BY <2>2, Zenon DEF AbortUpload, Call, quotaVars, storeVars
  <2>3. CASE ClaimExpired(p, u)
    BY <2>3, Zenon DEF ClaimExpired, quotaVars, storeVars, budgetVars
  <2> QED
    BY <2>1, <2>2, <2>3
<1>3. /\ job'[p] = u /\ uid'[p] = uploadId[u]
      /\ \A q \in Procs \ {p} : job'[q] = job[q] /\ uid'[q] = uid[q]
  BY <1>0, <1>2 DEF UploadTypeOK
<1>4. status[u] \in {"INITIATED", "FINALIZING"} => Held(u)
  BY <1>0, UploadAssumption DEF SessionAgreesWithQuota, Held
<1>5. u \in announced /\ ~Single(u) => uploadId[u] # NoId
  BY <1>0 DEF Kept
<1> DEFINE Rest == /\ \A q \in Procs \ {p} : pc'[q] = pc[q] /\ stored'[q] = stored[q]
                   /\ \A v \in Uploads \ {u} : status'[v] = status[v] /\ due'[v] = due[v]
<1>6. ASSUME p \in Requests, CompleteUpload(p, u) PROVE Rest /\ Opens(p, u)
  <2>1. /\ u \in announced /\ status[u] \in {"INITIATED", "FINALIZING"}
        /\ FinalizerFree(u) /\ Goto(p, IF Single(u) THEN "headfinal" ELSE "assemble")
        /\ status' = [status EXCEPT ![u] = "FINALIZING"] /\ due' = [due EXCEPT ![u] = FALSE]
        /\ stored' = [stored EXCEPT ![p] = "none"]
    BY <1>6, Zenon DEF CompleteUpload, Call
  <2>2. ~FinalizerOn(u)
    BY <2>1 DEF FinalizerFree
  <2>3. Rest /\ pc'[p] = (IF Single(u) THEN "headfinal" ELSE "assemble") /\ status'[u] = "FINALIZING"
    BY <1>0, <1>1, <2>1, GotoMeans DEF UploadTypeOK
  <2> QED
    BY <1>2, <1>3, <1>5, <2>1, <2>2, <2>3 DEF Opens, Open, Closed
<1>7. ASSUME p \in Requests, AbortUpload(p, u) PROVE Rest /\ Opens(p, u)
  <2>1. /\ u \in announced /\ status[u] \notin {"none", "COMPLETED", "EXPIRED"}
        /\ Goto(p, "abortstorage") /\ UNCHANGED stored
        /\ \/ status[u] = "ABORTED" /\ UNCHANGED <<status, due>>
           \/ /\ status' = [status EXCEPT ![u] = "ABORTED"]
              /\ due' = [due EXCEPT ![u] = TRUE]
    BY <1>7, Zenon DEF AbortUpload, Call
  <2>2. Rest /\ pc'[p] = "abortstorage" /\ status'[u] = "ABORTED"
    BY <1>0, <1>1, <2>1, GotoMeans
  <2>3. status[u] \in {"INITIATED", "FINALIZING"} \cup Closed
    BY <1>1, <2>1 DEF SessionStatus, Closed
  <2> QED
    BY <1>2, <1>3, <1>4, <1>5, <2>1, <2>2, <2>3 DEF Opens, Open, Closed
<1>8. ASSUME p \in Workers, ClaimExpired(p, u) PROVE Rest /\ Opens(p, u)
  <2>1. /\ due[u] /\ status[u] \in {"INITIATED", "FINALIZING", "ABORTED", "EXPIRED"}
        /\ status[u] = "FINALIZING" => FinalizerFree(u)
        /\ Goto(p, IF status[u] = "FINALIZING" THEN "headfinal" ELSE "abortstorage")
        /\ status' = [status EXCEPT ![u] = IF @ = "INITIATED" THEN "EXPIRED" ELSE @]
        /\ due' = [due EXCEPT ![u] = FALSE]
        /\ stored' = [stored EXCEPT ![p] = "none"]
    BY <1>8, Zenon DEF ClaimExpired, Claimable
  <2>2. status[u] = "FINALIZING" => ~FinalizerOn(u)
    BY <2>1 DEF FinalizerFree
  <2>3. /\ Rest /\ pc'[p] = (IF status[u] = "FINALIZING" THEN "headfinal" ELSE "abortstorage")
        /\ status'[u] = (IF status[u] = "INITIATED" THEN "EXPIRED" ELSE status[u])
    BY <1>0, <1>1, <2>1, GotoMeans DEF UploadTypeOK
  <2>4. p \notin Requests
    BY <1>0, <1>8
  <2> QED
    BY <1>2, <1>3, <1>4, <2>1, <2>2, <2>3, <2>4 DEF Opens, Open, Closed
<1>9. Rest /\ Opens(p, u)
  BY <1>6, <1>7, <1>8
<1>10. Frame(p, u)
  BY <1>2, <1>3, <1>9 DEF Frame
<1> QED
  BY <1>2, <1>9, <1>10

(* The invariant survives them: who starts to finalize finds nobody else. *)
LEMMA OpeningsKeep ==
    ASSUME ObjectInv, UploadInv', OneFinalizer, NEW p \in Procs, NEW u \in Uploads,
           \/ p \in Requests /\ (CompleteUpload(p, u) \/ AbortUpload(p, u))
           \/ p \in Workers /\ ClaimExpired(p, u)
    PROVE  ObjectInv'
<1>1. /\ Frame(p, u) /\ Opens(p, u)
      /\ UNCHANGED <<resv, uploadId, announced, denied, staging, final, mpu, created, then, faults>>
  BY OpensMeans
<1>2. /\ Kept(u) /\ Knows(p) /\ (faults = 0 => Undisturbed(u))
  BY DEF ObjectInv
<1>3. /\ \A q \in Procs : q # p => pc'[q] = pc[q] /\ job'[q] = job[q] /\ uid'[q] = uid[q]
      /\ job'[p] = u
  BY <1>1 DEF Frame
<1>4. (Clear(u)' <=> Clear(u)) /\ (Spent(u)' <=> Spent(u)) /\ (Held(u)' <=> Held(u))
  BY <1>1 DEF Clear, Spent, Held
<1>5. Gentle(p, u)
  BY <1>1, <1>4 DEF Gentle, Opens, Open
<1>6. FinalizerOn(u) => FinalizerOn(u)'
  BY <1>1, <1>3 DEF Opens, FinalizerOn, FinalizerSteps
<1>7. Knows(p)'
  <2>1. pc'[p] = "assemble" /\ faults' = 0 => Clear(u)
    BY <1>1, <1>2 DEF Opens, Undisturbed
  <2>2. p \in Workers => then'[p] # "reject"
    BY <1>1, <1>2 DEF Knows
  <2>3. uid'[p] = uploadId'[u] /\ ~Open(status'[u]) /\ pc'[p] \in {"headfinal", "assemble", "abortstorage"}
        /\ (p \in Requests /\ pc'[p] = "headfinal" => Single(u))
    BY <1>1 DEF Opens
  <2> QED
    BY <1>3, <1>4, <2>1, <2>2, <2>3 DEF Knows, Promoting, Uploading
<1>8. Kept(u)'
  <2>1. ~(\E q \in Procs : pc[q] \in {"create", "persist"} /\ job[q] = u)
        => ~(\E q \in Procs : pc'[q] \in {"create", "persist"} /\ job'[q] = u)
    BY <1>1, <1>3 DEF Opens
  <2>2. ~Single(u) /\ uploadId'[u] = NoId
        => ~(\E q \in Procs : pc[q] \in {"create", "persist"} /\ job[q] = u)
    BY <1>1, <1>2 DEF Opens, Kept
  <2>3. status'[u] # "COMPLETED" /\ ~Open(status'[u])
    BY <1>1 DEF Opens
  <2>4. status'[u] \in Closed /\ ~Held(u)' => Spent(u)'
    BY <1>1, <1>2, <1>4 DEF Opens, Kept
  <2> QED
    BY <1>1, <1>2, <2>1, <2>2, <2>3, <2>4 DEF Kept
<1>9. ASSUME faults' = 0 PROVE Undisturbed(u)'
  <2>1. Undisturbed(u)
    BY <1>1, <1>2, <1>9
  <2>2. pc[p] = "idle" /\ status[u] # "COMPLETED" /\ status'[u] # "COMPLETED"
    BY <1>1 DEF Opens
  <2>3. \A i \in mpu'[u] : \/ i = uploadId'[u]
                           \/ \E q \in Procs : job'[q] = u /\ pc'[q] \in Uploading /\ uid'[q] = i
    BY <1>1, <1>3, <2>1, <2>2 DEF Undisturbed, Uploading
  <2>4. ASSUME NEW S \in {{"delete"}, {"delete", "reseal"}}, Removing(u, S) PROVE Removing(u, S)'
    <3>1. PICK r \in Requests : job[r] = u /\ pc[r] \in S
      BY <2>4 DEF Removing
    <3>2. r # p /\ r \in Procs
      BY <2>2, <3>1 DEF Procs
    <3> QED
      BY <1>3, <3>1, <3>2 DEF Removing
  <2> QED
    BY <1>1, <1>4, <1>6, <2>1, <2>2, <2>3, <2>4 DEF Undisturbed
<1>10. pc'[p] \notin FinalizerSteps \/ ~FinalizerOn(u)
  BY <1>1 DEF Opens, FinalizerSteps
<1> QED
  BY <1>1, <1>5, <1>7, <1>8, <1>9, <1>10, ObjectsAgain

-----------------------------------------------------------------------------
(* The request that opens a session, its retries and a cut-off step *)

(* What a step that touches no object has to respect. *)
LEMMA InitiationKeeps ==
    ASSUME ObjectInv, UploadInv', NEW p \in Procs, NEW u \in Uploads, Frame(p, u),
           UNCHANGED <<staging, final, denied>>,
           pc'[p] \notin Acting, faults' = 0 => pc[p] \notin FinalizerSteps,
           status'[u] = status[u] \/ (status[u] = "none" /\ status'[u] = "INITIATED"),
           ~Open(status[u]) => /\ uploadId'[u] = uploadId[u] /\ (Spent(u) => Spent(u)')
                               /\ (Held(u)' <=> Held(u)),
           uploadId[u] # NoId => uploadId'[u] = uploadId[u],
           1..created[u] \subseteq 1..created'[u],
           mpu'[u] \subseteq 1..created'[u], uploadId'[u] \in 0..created'[u],
           Single(u) => mpu'[u] = {},
           ~Single(u) /\ u \in announced' => uploadId'[u] # NoId,
           ~Single(u) /\ uploadId'[u] = NoId /\ (due'[u] \/ ~Open(status'[u]))
             => ~ \E q \in Procs : pc'[q] \in {"create", "persist"} /\ job'[q] = u,
           faults' = 0 => \A i \in mpu'[u] :
              \/ i = uploadId'[u]
              \/ \E q \in Procs : job'[q] = u /\ pc'[q] \in Uploading /\ uid'[q] = i,
           pc'[p] \in Uploading /\ ~Single(u) => uid'[p] \in 1..created'[u],
           pc'[p] = "dropdup" => uploadId'[u] # NoId,
           pc'[p] \in {"create", "persist"} => p \in Requests,
           p \in Workers => then'[p] # "reject"
    PROVE  ObjectInv'
<1>1. Kept(u) /\ (faults = 0 => Undisturbed(u)) /\ (faults' = 0 => faults = 0)
  BY DEF ObjectInv, Frame
<1>2. /\ \A q \in Procs : q # p => pc'[q] = pc[q] /\ job'[q] = job[q]
      /\ job'[p] = u /\ (pc[p] = "idle" \/ job[p] = u)
  BY DEF Frame
<1>3. Clear(u)' <=> Clear(u)
  BY DEF Clear
<1>4. Gentle(p, u)
  BY DEF Gentle, Open
<1>5. pc'[p] \notin FinalizerSteps
  BY DEF Acting
<1>6. /\ FinalizerOn(u)' => FinalizerOn(u)
      /\ faults' = 0 /\ ~FinalizerOn(u)' => ~FinalizerOn(u)
  BY <1>2, <1>5 DEF FinalizerOn
<1>7. Knows(p)'
  BY <1>2 DEF Knows, Acting, FinalizerSteps, Promoting
<1>8. Kept(u)'
  <2>1. status'[u] = "COMPLETED" => final'[u] = "good" /\ ~FinalizerOn(u)'
    BY <1>1, <1>6 DEF Kept
  <2>2. status'[u] \in Closed /\ ~Held(u)' => Spent(u)'
    BY <1>1 DEF Kept, Closed, Open
  <2>3. u \in denied' => ~Open(status'[u])
    BY <1>1 DEF Kept, Open
  <2>4. IF Single(u) THEN mpu'[u] = {} ELSE staging'[u] = "none"
    BY <1>1 DEF Kept
  <2> QED
    BY <2>1, <2>2, <2>3, <2>4 DEF Kept
<1>9. ASSUME faults' = 0 PROVE Undisturbed(u)'
  <2>1. Undisturbed(u) /\ pc[p] \notin FinalizerSteps
    BY <1>1, <1>9
  <2>2. ~FinalizerOn(u)' /\ status'[u] # "COMPLETED" => Clear(u)'
    BY <1>3, <1>6, <1>9, <2>1 DEF Undisturbed
  <2>3. ASSUME NEW S \in {{"delete"}, {"delete", "reseal"}}, Removing(u, S) PROVE Removing(u, S)'
    <3>1. PICK r \in Requests : job[r] = u /\ pc[r] \in S
      BY <2>3 DEF Removing
    <3>2. r # p /\ r \in Procs
      BY <2>1, <3>1 DEF Procs, FinalizerSteps
    <3> QED
      BY <1>2, <3>1, <3>2 DEF Removing
  <2>4. u \in denied' => /\ status'[u] # "COMPLETED"
                         /\ Clear(u)' \/ Removing(u, {"delete"})'
                         /\ Spent(u)' \/ Removing(u, {"delete", "reseal"})'
    BY <1>1, <1>3, <2>1, <2>3 DEF Undisturbed, Kept
  <2> QED
    BY <1>9, <2>2, <2>4 DEF Undisturbed
<1> QED
  BY <1>4, <1>5, <1>7, <1>8, <1>9, ObjectsAgain

(* The first request. *)
LEMMA InitiateKeepsObjects ==
    ASSUME ObjectInv, UploadInv', NEW p \in Requests, NEW u \in Uploads, InitiateUpload(p, u)
    PROVE  ObjectInv'
<1>0. p \in Procs /\ p \notin Workers /\ UploadTypeOK /\ QuotaTypeOK /\ Kept(u) /\ (faults = 0 => Undisturbed(u))
  BY UploadAssumption DEF Procs, ObjectInv, UploadInv, UploadTypeOK
<1>1. /\ status[u] = "none" /\ pc[p] = "idle" /\ Goto(p, "create") /\ job' = [job EXCEPT ![p] = u]
      /\ resv' = [resv EXCEPT ![u] = [k \in UploadKeys |-> "HELD"]]
      /\ status' = [status EXCEPT ![u] = "INITIATED"]
      /\ due' = [due EXCEPT ![u] = FALSE]
      /\ UNCHANGED <<uploadId, announced, denied, staging, final, mpu, created, uid, stored, then, faults>>
  BY Zenon DEF InitiateUpload, Call, ReserveMany, storeVars
<1>2. /\ status'[u] = "INITIATED" /\ due'[u] = FALSE
      /\ \A v \in Uploads \ {u} : status'[v] = status[v] /\ due'[v] = due[v]
      /\ \A v \in Uploads \ {u}, k \in UploadKeys : resv'[v][k] = resv[v][k]
  BY <1>0, <1>1 DEF UploadTypeOK, QuotaTypeOK
<1>3. /\ pc'[p] = "create" /\ job'[p] = u
      /\ \A q \in Procs \ {p} : pc'[q] = pc[q] /\ job'[q] = job[q]
  BY <1>0, <1>1, GotoMeans DEF UploadTypeOK
<1>4. Frame(p, u)
  BY <1>1, <1>2, <1>3 DEF Frame
<1>5. /\ mpu'[u] \subseteq 1..created'[u] /\ uploadId'[u] \in 0..created'[u]
      /\ Single(u) => mpu'[u] = {}
      /\ ~Single(u) /\ u \in announced' => uploadId'[u] # NoId
  BY <1>0, <1>1 DEF Kept
<1>6. faults' = 0 => \A i \in mpu'[u] :
         \/ i = uploadId'[u]
         \/ \E q \in Procs : job'[q] = u /\ pc'[q] \in Uploading /\ uid'[q] = i
  BY <1>0, <1>1, <1>3 DEF Undisturbed, Uploading
<1>7. pc'[p] \notin Acting /\ pc[p] \notin FinalizerSteps /\ pc'[p] \notin Uploading /\ Open(status[u])
      /\ Open(status'[u])
  BY <1>1, <1>2, <1>3 DEF Acting, FinalizerSteps, Uploading, Open
<1> QED
  BY <1>0, <1>1, <1>2, <1>3, <1>4, <1>5, <1>6, <1>7, InitiationKeeps

(* The same key again. *)
LEMMA ReplayKeepsObjects ==
    ASSUME ObjectInv, UploadInv', NEW p \in Requests, NEW u \in Uploads, ReplayInitiate(p, u)
    PROVE  ObjectInv'
<1>0. p \in Procs /\ p \notin Workers /\ UploadTypeOK /\ Kept(u) /\ (faults = 0 => Undisturbed(u))
  BY UploadAssumption DEF Procs, ObjectInv, UploadInv
<1>1. /\ pc[p] = "idle" /\ job' = [job EXCEPT ![p] = u]
      /\ UNCHANGED <<resv, status, due, uploadId, denied, staging, final, mpu, created, uid, stored, then,
                     faults>>
  BY Zenon DEF ReplayInitiate, Call, storeVars, quotaVars
<1>2. \/ Goto(p, "create") /\ UNCHANGED announced /\ status[u] = "INITIATED" /\ ~due[u]
      \/ Goto(p, "idle") /\ UNCHANGED announced
      \/ /\ Goto(p, "idle") /\ announced' = announced \cup {u}
         /\ ~(u \in Multipart /\ uploadId[u] = NoId)
  BY DEF ReplayInitiate, Call
<1>3. /\ pc'[p] \in {"create", "idle"} /\ job'[p] = u
      /\ \A q \in Procs \ {p} : pc'[q] = pc[q] /\ job'[q] = job[q]
      /\ pc'[p] = "create" => status[u] = "INITIATED" /\ ~due[u]
  BY <1>0, <1>1, <1>2, GotoMeans DEF UploadTypeOK
<1>4. Frame(p, u)
  BY <1>1, <1>2, <1>3 DEF Frame
<1>5. /\ mpu'[u] \subseteq 1..created'[u] /\ uploadId'[u] \in 0..created'[u]
      /\ Single(u) => mpu'[u] = {}
      /\ ~Single(u) /\ u \in announced' => uploadId'[u] # NoId
  BY <1>0, <1>1, <1>2 DEF Kept, Single
<1>6. faults' = 0 => \A i \in mpu'[u] :
         \/ i = uploadId'[u]
         \/ \E q \in Procs : job'[q] = u /\ pc'[q] \in Uploading /\ uid'[q] = i
  BY <1>0, <1>1, <1>3 DEF Undisturbed, Uploading
<1>7. ~Single(u) /\ uploadId'[u] = NoId /\ (due'[u] \/ ~Open(status'[u]))
             => ~ \E q \in Procs : pc'[q] \in {"create", "persist"} /\ job'[q] = u
  BY <1>0, <1>1, <1>3 DEF Kept, Open
<1>8. pc'[p] \notin Acting /\ pc[p] \notin FinalizerSteps /\ pc'[p] \notin Uploading
      /\ (Spent(u)' <=> Spent(u)) /\ (Held(u)' <=> Held(u))
  BY <1>1, <1>3 DEF Acting, FinalizerSteps, Uploading, Spent, Held
<1> QED
  BY <1>0, <1>1, <1>3, <1>4, <1>5, <1>6, <1>7, <1>8, InitiationKeeps

(* CreateMultipartUpload hands out an id that nobody has. *)
LEMMA CreateKeepsObjects ==
    ASSUME ObjectInv, UploadInv', NEW p \in Requests, CreateStorageUpload(p)
    PROVE  ObjectInv'
<1>0. PICK u \in Uploads : /\ Before(p, u) /\ (faults = 0 => Undisturbed(u))
                           /\ p \in Procs /\ p \notin Workers
  BY IsBefore DEF Procs, ObjectInv, Before
<1>1. /\ pc[p] = "create" /\ Goto(p, "persist") /\ u = job[p] /\ UploadTypeOK /\ Kept(u)
      /\ UNCHANGED <<resv, status, due, uploadId, announced, denied, staging, final, job, stored, then,
                     faults>>
  BY <1>0, Zenon DEF CreateStorageUpload, quotaVars, sessionVars, budgetVars, Before
<1>2. /\ pc'[p] = "persist" /\ job'[p] = u
      /\ \A q \in Procs \ {p} : pc'[q] = pc[q]
  BY <1>0, <1>1, GotoMeans
<1>3. /\ created \in [Uploads -> Nat] /\ uid \in [Procs -> Nat] /\ mpu \in [Uploads -> SUBSET Nat]
      /\ created[u] \in Nat
  BY <1>1 DEF UploadTypeOK
<1>4. PICK n \in Nat : n = created[u]
  BY <1>3
<1>5. /\ 1..n \subseteq 1..(n + 1) /\ 0..n \subseteq 0..(n + 1)
      /\ n + 1 \in 1..(n + 1) /\ n + 1 \notin 0..n
  OBVIOUS
<1>6. /\ mpu[u] \subseteq 1..n /\ uploadId[u] \in 0..n
      /\ IF Single(u) THEN mpu[u] = {} ELSE staging[u] = "none"
      /\ ~Single(u) /\ u \in announced => uploadId[u] # NoId
      /\ ~(~Single(u) /\ uploadId[u] = NoId /\ (due[u] \/ ~Open(status[u])))
  BY <1>0, <1>1, <1>4 DEF Kept
<1>7. CASE ~Single(u)
  <2>1. /\ created' = [created EXCEPT ![u] = n + 1] /\ mpu' = [mpu EXCEPT ![u] = mpu[u] \cup {n + 1}]
        /\ uid' = [uid EXCEPT ![p] = n + 1]
    BY <1>1, <1>4, <1>7 DEF CreateStorageUpload, Single
  <2>2. /\ created'[u] = n + 1 /\ mpu'[u] = mpu[u] \cup {n + 1} /\ uid'[p] = n + 1
        /\ \A q \in Procs \ {p} : uid'[q] = uid[q]
        /\ \A v \in Uploads \ {u} : created'[v] = created[v] /\ mpu'[v] = mpu[v]
    BY <1>0, <1>3, <2>1
  <2>3. Frame(p, u)
    BY <1>1, <1>2, <2>2 DEF Frame
  <2>4. Spent(u) => Spent(u)'
    BY <1>1, <1>5, <1>6, <1>7, <2>2 DEF Spent
  <2>5. /\ 1..created[u] \subseteq 1..created'[u] /\ mpu'[u] \subseteq 1..created'[u]
        /\ uploadId'[u] \in 0..created'[u] /\ uid'[p] \in 1..created'[u]
    BY <1>1, <1>4, <1>5, <1>6, <2>2
  <2>6. faults' = 0 => \A i \in mpu'[u] :
           \/ i = uploadId'[u]
           \/ \E q \in Procs : job'[q] = u /\ pc'[q] \in Uploading /\ uid'[q] = i
    <3>1. pc[p] \notin Uploading /\ pc'[p] \in Uploading
      BY <1>1, <1>2 DEF Uploading
    <3> QED
      BY <1>0, <1>1, <1>2, <2>2, <3>1 DEF Undisturbed
  <2>7. pc'[p] \notin Acting /\ pc[p] \notin FinalizerSteps /\ pc'[p] # "dropdup" /\ (Held(u)' <=> Held(u))
    BY <1>1, <1>2 DEF Acting, FinalizerSteps, Held
  <2> QED
    BY <1>0, <1>1, <1>6, <1>7, <2>3, <2>4, <2>5, <2>6, <2>7, InitiationKeeps
<1>8. CASE Single(u)
  <2>1. UNCHANGED <<created, mpu>> /\ uid' = [uid EXCEPT ![p] = NoId]
    BY <1>1, <1>8 DEF CreateStorageUpload, Single
  <2>2. \A q \in Procs \ {p} : uid'[q] = uid[q]
    BY <1>3, <2>1
  <2>3. Frame(p, u)
    BY <1>1, <1>2, <2>1, <2>2 DEF Frame
  <2>4. mpu'[u] = {} /\ uploadId'[u] \in 0..created'[u] /\ 1..created[u] \subseteq 1..created'[u]
    BY <1>1, <1>4, <1>6, <1>8, <2>1
  <2>5. /\ pc'[p] \notin Acting /\ pc[p] \notin FinalizerSteps /\ pc'[p] # "dropdup"
        /\ (Held(u)' <=> Held(u)) /\ (Spent(u)' <=> Spent(u))
    BY <1>1, <1>2, <2>1 DEF Acting, FinalizerSteps, Held, Spent
  <2> QED
    BY <1>0, <1>1, <1>8, <2>3, <2>4, <2>5, InitiationKeeps
<1> QED
  BY <1>7, <1>8

(* The session takes the first upload id; a later one is dropped again. *)
LEMMA PersistKeepsObjects ==
    ASSUME ObjectInv, UploadInv', NEW p \in Requests, PersistStorageUpload(p) \/ DropDuplicate(p)
    PROVE  ObjectInv'
<1>0. PICK u \in Uploads : /\ Before(p, u) /\ (faults = 0 => Undisturbed(u))
                           /\ p \in Procs /\ p \notin Workers
  BY IsBefore DEF Procs, ObjectInv, Before
<1>1. /\ pc[p] \in Uploading /\ u = job[p] /\ UploadTypeOK /\ Kept(u) /\ Knows(p) /\ Placed(p)
      /\ UNCHANGED <<resv, status, due, created, denied, staging, final, job, uid, stored, then, faults>>
  <2>1. CASE PersistStorageUpload(p)
    BY <1>0, <2>1, Zenon DEF PersistStorageUpload, quotaVars, storeVars, budgetVars, Before, Uploading
  <2>2. CASE DropDuplicate(p)
    BY <1>0, <2>2, Zenon DEF DropDuplicate, quotaVars, budgetVars, Before, Uploading
  <2> QED
    BY <2>1, <2>2
<1>2. /\ mpu[u] \subseteq 1..created[u] /\ uploadId[u] \in 0..created[u]
      /\ IF Single(u) THEN mpu[u] = {} ELSE staging[u] = "none"
      /\ ~Single(u) /\ u \in announced => uploadId[u] # NoId
      /\ ~Single(u) => uid[p] \in 1..created[u]
      /\ Single(u) => uid[p] = NoId
      /\ pc[p] = "dropdup" => uploadId[u] # NoId
      /\ created[u] \in Nat
  BY <1>1 DEF Kept, Knows, Placed, Uploading, UploadTypeOK
<1>3. ~Single(u) => uid[p] # NoId /\ uid[p] \in 0..created[u]
  <2>1. PICK n \in Nat : n = created[u]
    BY <1>2
  <2>2. 0 \notin 1..n /\ 1..n \subseteq 0..n
    OBVIOUS
  <2> QED
    BY <1>2, <2>1, <2>2 DEF NoId
<1>4. Single(u) => uploadId[u] = NoId
  BY DEF ObjectInv, UploadInv, SinglePut
<1>5. /\ uploadId \in [Uploads -> Nat] /\ mpu \in [Uploads -> SUBSET Nat]
  BY <1>1 DEF UploadTypeOK
<1>6. pc[p] \notin FinalizerSteps /\ (Held(u)' <=> Held(u))
  BY <1>1 DEF FinalizerSteps, Uploading, Held
<1>7. CASE PersistStorageUpload(p) /\ uploadId[u] = NoId
  <2>1. /\ uploadId' = [uploadId EXCEPT ![u] = uid[p]] /\ Goto(p, "idle")
        /\ announced' = announced \cup {u} /\ UNCHANGED mpu /\ pc[p] = "persist"
    BY <1>1, <1>7 DEF PersistStorageUpload, storeVars
  <2>2. /\ pc'[p] = "idle" /\ \A q \in Procs \ {p} : pc'[q] = pc[q]
        /\ uploadId'[u] = uid[p] /\ \A v \in Uploads \ {u} : uploadId'[v] = uploadId[v]
    BY <1>0, <1>1, <1>5, <2>1, GotoMeans
  <2>3. Frame(p, u)
    BY <1>1, <2>1, <2>2 DEF Frame
  <2>4. ~Single(u) => Open(status[u])
    BY <1>0, <1>1, <1>7, <2>1 DEF Kept
  <2>5. /\ ~Open(status[u]) => uploadId'[u] = uploadId[u] /\ (Spent(u) => Spent(u)')
        /\ uploadId[u] # NoId => uploadId'[u] = uploadId[u]
    BY <1>1, <1>2, <1>4, <1>7, <2>1, <2>2, <2>4 DEF Spent
  <2>6. uploadId'[u] \in 0..created'[u] /\ (~Single(u) => uploadId'[u] # NoId)
    BY <1>1, <1>2, <1>3, <1>4, <2>2
  <2>7. faults' = 0 => \A i \in mpu'[u] :
           \/ i = uploadId'[u]
           \/ \E q \in Procs : job'[q] = u /\ pc'[q] \in Uploading /\ uid'[q] = i
    <3>1. NoId \notin mpu[u]
      BY <1>2 DEF NoId
    <3> QED
      BY <1>0, <1>1, <1>7, <2>1, <2>2, <3>1 DEF Undisturbed
  <2>8. pc'[p] \notin Acting /\ pc'[p] \notin Uploading /\ pc'[p] # "dropdup"
    BY <2>2 DEF Acting, FinalizerSteps, Uploading
  <2> QED
    BY <1>0, <1>1, <1>2, <1>6, <2>1, <2>3, <2>5, <2>6, <2>7, <2>8, InitiationKeeps
<1>8. CASE uploadId[u] # NoId
  <2>1. /\ UNCHANGED uploadId /\ announced' \in {announced, announced \cup {u}}
        /\ \/ Goto(p, "dropdup") /\ UNCHANGED mpu
           \/ Goto(p, "idle") /\ UNCHANGED mpu /\ uid[p] = uploadId[u]
           \/ Goto(p, "idle") /\ mpu' = [mpu EXCEPT ![u] = mpu[u] \ {uid[p]}]
    BY <1>1, <1>8 DEF PersistStorageUpload, DropDuplicate, storeVars
  <2>2. /\ pc'[p] \in {"dropdup", "idle"} /\ \A q \in Procs \ {p} : pc'[q] = pc[q]
        /\ mpu'[u] \subseteq mpu[u] /\ \A v \in Uploads \ {u} : mpu'[v] = mpu[v]
        /\ pc'[p] = "idle" => uid[p] = uploadId[u] \/ uid[p] \notin mpu'[u]
    BY <1>0, <1>1, <1>5, <2>1, GotoMeans
  <2>3. Frame(p, u)
    BY <1>1, <2>1, <2>2 DEF Frame
  <2>4. Spent(u) => Spent(u)'
    BY <1>1, <2>1, <2>2 DEF Spent
  <2>5. faults' = 0 => \A i \in mpu'[u] :
           \/ i = uploadId'[u]
           \/ \E q \in Procs : job'[q] = u /\ pc'[q] \in Uploading /\ uid'[q] = i
    BY <1>0, <1>1, <2>1, <2>2 DEF Undisturbed, Uploading
  <2>6. pc'[p] \notin Acting
    BY <2>2 DEF Acting, FinalizerSteps
  <2>7. /\ mpu'[u] \subseteq 1..created'[u] /\ uploadId'[u] \in 0..created'[u] /\ uploadId'[u] # NoId
        /\ 1..created[u] \subseteq 1..created'[u] /\ (Single(u) => mpu'[u] = {})
        /\ ~Single(u) => uid'[p] \in 1..created'[u]
    BY <1>1, <1>2, <1>8, <2>1, <2>2
  <2> QED
    BY <1>0, <1>1, <1>6, <2>1, <2>3, <2>4, <2>5, <2>6, <2>7, InitiationKeeps
<1>9. DropDuplicate(p) => uploadId[u] # NoId
  BY <1>2 DEF DropDuplicate
<1> QED
  BY <1>7, <1>8, <1>9

(* A step that is cut off: from then on nothing is promised that needs the
   cleanup, and the rest still holds. *)
LEMMA FaultKeepsObjects ==
    ASSUME ObjectInv, UploadInv', NEW p \in Procs, Fault(p)
    PROVE  ObjectInv'
<1>0. PICK u \in Uploads : Before(p, u)
  BY IsBefore
<1>1. /\ u = job[p] /\ UploadTypeOK /\ Kept(u) /\ pc[p] # "idle" /\ faults' = faults + 1 /\ Goto(p, "idle")
      /\ UNCHANGED <<resv, status, due, uploadId, announced, denied, staging, final, mpu, created, job, uid,
                     stored, then>>
      /\ p \in Workers => then[p] # "reject"
  BY <1>0, Zenon DEF Fault, quotaVars, sessionVars, storeVars, Before
<1>2. faults' # 0
  BY <1>1 DEF UploadTypeOK
<1>3. pc'[p] = "idle" /\ \A q \in Procs \ {p} : pc'[q] = pc[q]
  BY <1>1, GotoMeans
<1>4. Frame(p, u)
  BY <1>1, <1>2, <1>3 DEF Frame
<1>5. /\ mpu'[u] \subseteq 1..created'[u] /\ uploadId'[u] \in 0..created'[u]
      /\ Single(u) => mpu'[u] = {}
      /\ ~Single(u) /\ u \in announced' => uploadId'[u] # NoId
  BY <1>1 DEF Kept
<1>6. ~Single(u) /\ uploadId'[u] = NoId /\ (due'[u] \/ ~Open(status'[u]))
             => ~ \E q \in Procs : pc'[q] \in {"create", "persist"} /\ job'[q] = u
  BY <1>1, <1>3 DEF Kept
<1>7. /\ pc'[p] \notin Acting /\ pc'[p] \notin Uploading \cup {"create", "persist", "dropdup"}
      /\ (Spent(u)' <=> Spent(u)) /\ (Held(u)' <=> Held(u))
  BY <1>1, <1>3 DEF Acting, FinalizerSteps, Uploading, Spent, Held
<1> QED
  BY <1>1, <1>2, <1>4, <1>5, <1>6, <1>7, InitiationKeeps

-----------------------------------------------------------------------------
(* The environment, and the theorems *)

(* The clock, the client with its URL, direct charges and midnight: a PUT does not
   replace a seal, and a session in creation does not expire. *)
LEMMA EnvironmentKeepsObjects ==
    ASSUME ObjectInv, UploadInv',
           \/ \E u \in Uploads : Expire(u) \/ \E c \in {"good", "bad"} : ClientPut(u, c)
           \/ Meter \/ Midnight \/ UNCHANGED uploadVars
    PROVE  ObjectInv'
<1>0. UploadTypeOK /\ Alone /\ (\A v \in Uploads : Kept(v))
  BY DEF ObjectInv, UploadInv
<1>1. UNCHANGED <<resv, status, uploadId, announced, denied, final, mpu, created, pc, job, uid, stored,
                  then, faults>>
  <2>1. ASSUME NEW u \in Uploads, Expire(u)
        PROVE  UNCHANGED <<resv, status, uploadId, announced, denied, final, mpu, created, pc, job, uid,
                           stored, then, faults>>
    BY <2>1, Zenon DEF Expire, quotaVars, storeVars, procVars, budgetVars
  <2>2. ASSUME NEW u \in Uploads, NEW c \in {"good", "bad"}, ClientPut(u, c)
        PROVE  UNCHANGED <<resv, status, uploadId, announced, denied, final, mpu, created, pc, job, uid,
                           stored, then, faults>>
    BY <2>2, Zenon DEF ClientPut, quotaVars, sessionVars, procVars, budgetVars
  <2>3. CASE Meter
    <3>1. \E k, a : Consume(k, a)
      BY <2>3 DEF Meter
    <3> QED
      BY <2>3, <3>1, Zenon DEF Meter, Consume, sessionVars, storeVars, procVars, budgetVars
  <2>4. CASE Midnight
    BY <2>4, Zenon DEF Midnight, NextDay, sessionVars, storeVars, procVars, budgetVars
  <2>5. CASE UNCHANGED uploadVars
    BY <2>5, Zenon DEF uploadVars, quotaVars, sessionVars, storeVars, procVars, budgetVars
  <2> QED
    BY <2>1, <2>2, <2>3, <2>4, <2>5
<1>2. \A v \in Uploads : /\ staging[v] = "tomb" => staging'[v] = "tomb"
                         /\ ~Single(v) => staging'[v] = staging[v]
  <2>1. ASSUME NEW u \in Uploads, NEW c \in {"good", "bad"}, ClientPut(u, c)
        PROVE  \A v \in Uploads : /\ staging[v] = "tomb" => staging'[v] = "tomb"
                                  /\ ~Single(v) => staging'[v] = staging[v]
    <3>1. Single(u) /\ staging[u] = "none" /\ staging' = [staging EXCEPT ![u] = c]
      BY <2>1 DEF ClientPut
    <3> QED
      BY <1>0, <3>1 DEF UploadTypeOK
  <2>2. ASSUME NEW u \in Uploads, Expire(u) PROVE UNCHANGED staging
    BY <2>2, Zenon DEF Expire, storeVars
  <2>3. CASE Meter \/ Midnight \/ UNCHANGED uploadVars
    BY <2>3, Zenon DEF Meter, Midnight, uploadVars, storeVars
  <2> QED
    BY <2>1, <2>2, <2>3
<1>3. \A v \in Uploads : due'[v] => \/ due[v]
                                    \/ ~ \E q \in Procs : pc[q] \in {"create", "persist"} /\ job[q] = v
  <2>1. ASSUME NEW u \in Uploads, Expire(u)
        PROVE  \A v \in Uploads : due'[v] => \/ due[v]
                                    \/ ~ \E q \in Procs : pc[q] \in {"create", "persist"} /\ job[q] = v
    <3>1. /\ due' = [due EXCEPT ![u] = TRUE]
          /\ \A r \in Requests : ~(job[r] = u /\ pc[r] \in {"create", "persist", "dropdup"})
      BY <2>1 DEF Expire
    <3>2. \A q \in Procs : pc[q] \in {"create", "persist"} => q \in Requests
      BY DEF ObjectInv, Knows, Procs
    <3>3. ~ \E q \in Procs : pc[q] \in {"create", "persist"} /\ job[q] = u
      BY <3>1, <3>2
    <3> QED
      BY <1>0, <3>1, <3>3 DEF UploadTypeOK
  <2>2. ASSUME NEW u \in Uploads, NEW c \in {"good", "bad"}, ClientPut(u, c) PROVE UNCHANGED due
    BY <2>2, Zenon DEF ClientPut, sessionVars
  <2>3. CASE Meter \/ Midnight \/ UNCHANGED uploadVars
    BY <2>3, Zenon DEF Meter, Midnight, uploadVars, sessionVars
  <2> QED
    BY <2>1, <2>2, <2>3
<1>4. \A v \in Uploads : /\ Clear(v)' <=> Clear(v)
                         /\ Spent(v) => Spent(v)'
                         /\ Held(v)' <=> Held(v)
                         /\ FinalizerOn(v)' <=> FinalizerOn(v)
  BY <1>1, <1>2 DEF Clear, Spent, Held, FinalizerOn
<1>5. Alone'
  BY <1>0, <1>1 DEF Alone
<1>6. ASSUME NEW p \in Procs PROVE Knows(p)'
  <2>1. Knows(p) /\ job[p] \in Uploads
    BY <1>0 DEF ObjectInv, UploadTypeOK
  <2> QED
    BY <1>1, <1>4, <2>1 DEF Knows
<1>7. ASSUME NEW v \in Uploads PROVE Kept(v)'
  BY <1>0, <1>1, <1>2, <1>3, <1>4 DEF Kept
<1>8. ASSUME NEW v \in Uploads, faults' = 0 PROVE Undisturbed(v)'
  <2>1. Undisturbed(v)
    BY <1>1, <1>8 DEF ObjectInv
  <2>2. \A S : Removing(v, S)' <=> Removing(v, S)
    BY <1>1 DEF Removing
  <2> QED
    BY <1>1, <1>4, <2>1, <2>2 DEF Undisturbed
<1> QED
  BY <1>5, <1>6, <1>7, <1>8 DEF ObjectInv

(* Every step keeps the invariant. *)
LEMMA ObjectsInductive ==
    ASSUME ObjectInv, OneFinalizer, [UploadNext]_uploadVars
    PROVE  ObjectInv'
<1>1. UploadInv'
  BY UploadInductive DEF ObjectInv
<1>2. ASSUME NEW r \in Requests, NEW u \in Uploads, ApiCall(r, u) PROVE ObjectInv'
  <2>1. r \in Procs
    BY DEF Procs
  <2>2. CASE InitiateUpload(r, u)
    BY <1>1, <2>2, InitiateKeepsObjects
  <2>3. CASE ReplayInitiate(r, u)
    BY <1>1, <2>3, ReplayKeepsObjects
  <2>4. CASE CompleteUpload(r, u) \/ AbortUpload(r, u)
    BY <1>1, <2>1, <2>4, OpeningsKeep
  <2> QED
    BY <1>2, <2>2, <2>3, <2>4 DEF ApiCall
<1>3. ASSUME NEW w \in Workers, NEW u \in Uploads, ClaimExpired(w, u) PROVE ObjectInv'
  BY <1>1, <1>3, OpeningsKeep DEF Procs
<1>4. ASSUME NEW p \in Procs, Fault(p) PROVE ObjectInv'
  BY <1>1, <1>4, FaultKeepsObjects
<1>5. ASSUME NEW p \in Procs, Step(p) PROVE ObjectInv'
  <2>1. p \in Requests => p \notin Workers
    BY UploadAssumption
  <2>2. CASE p \in Requests /\ CreateStorageUpload(p)
    BY <1>1, <2>2, CreateKeepsObjects
  <2>3. CASE p \in Requests /\ (PersistStorageUpload(p) \/ DropDuplicate(p))
    BY <1>1, <2>3, PersistKeepsObjects
  <2>4. CASE p \in Requests /\ AssembleParts(p)
    BY <1>1, <2>1, <2>4, ObjectsKeep DEF ObjectStep
  <2>5. CASE \/ HeadFinal(p) \/ HeadStaging(p) \/ CopyObject(p) \/ HeadPromoted(p)
             \/ SealPromoted(p) \/ DeleteFinal(p) \/ ResealStaging(p) \/ AbortStorage(p)
    <3>1. ~AssembleParts(p)
      BY <2>5 DEF AssembleParts, HeadFinal, HeadStaging, CopyObject, HeadPromoted, SealPromoted,
                  DeleteFinal, ResealStaging, AbortStorage
    <3> QED
      BY <1>1, <2>5, <3>1, ObjectsKeep DEF ObjectStep
  <2>6. CASE p \in Requests /\ (\/ CommitUpload(p) \/ ReauthorizationFails(p)
                                \/ RecordRejection(p) \/ AbortRelease(p))
    BY <1>1, <2>6, TransactionsKeep
  <2>7. CASE p \in Workers /\ (ReconcileFinalization(p) \/ FinishCleanup(p))
    BY <1>1, <2>7, TransactionsKeep
  <2> QED
    BY <1>5, <2>2, <2>3, <2>4, <2>5, <2>6, <2>7 DEF Step
<1>6. CASE \/ \E u \in Uploads : Expire(u) \/ \E c \in {"good", "bad"} : ClientPut(u, c)
           \/ Meter \/ Midnight \/ UNCHANGED uploadVars
  BY <1>1, <1>6, EnvironmentKeepsObjects
<1> QED
  BY <1>2, <1>3, <1>4, <1>5, <1>6 DEF UploadNext

(* It holds at the start. *)
LEMMA ObjectsInit == UploadInit => ObjectInv
<1> SUFFICES ASSUME UploadInit PROVE ObjectInv
  OBVIOUS
<1>1. UploadInv
  BY UploadInvInit
<1>2. /\ \A u \in Uploads : /\ status[u] = "none" /\ uploadId[u] = NoId /\ final[u] = "none"
                            /\ staging[u] = "none" /\ mpu[u] = {} /\ created[u] = 0
      /\ \A p \in Procs : pc[p] = "idle" /\ then[p] = "idle"
      /\ announced = {} /\ denied = {}
  BY DEF UploadInit
<1>3. "idle" \notin Acting \cup FinalizerSteps \cup Promoting \cup Uploading
  BY DEF Acting, FinalizerSteps, Promoting, Uploading
<1>4. Alone /\ \A p \in Procs : Knows(p)
  BY <1>2, <1>3 DEF Alone, Knows
<1>5. \A u \in Uploads : Kept(u)
  BY <1>2 DEF Kept, NoId, Closed
<1>6. \A u \in Uploads : Undisturbed(u)
  BY <1>2 DEF Undisturbed, Clear
<1> QED
  BY <1>1, <1>4, <1>5, <1>6 DEF ObjectInv

(* The invariant above, for sessions that are finalized by one process at a time. *)
THEOREM ObjectInvariant == OneFinalizer => (UploadSpec => []ObjectInv)
<1> SUFFICES ASSUME OneFinalizer PROVE UploadSpec => []ObjectInv
  OBVIOUS
<1>1. ASSUME ObjectInv, [UploadNext]_uploadVars PROVE ObjectInv'
  BY <1>1, ObjectsInductive
<1> QED
  BY <1>1, ObjectsInit, PTL DEF UploadSpec

(* When finalizations of a session do not overlap, a published upload keeps the
   object it was completed with, through late cleanups, aborts, claims and
   crashes; and as long as no S3 call fails and no process dies, an upload that
   ended otherwise leaves no object and no multipart upload behind. *)
THEOREM ObjectsAlwaysFollow == OneFinalizer => (UploadSpec => []ObjectsFollowSessions)
<1>1. ASSUME ObjectInv PROVE ObjectsFollowSessions
  <2>1. CompletedKeepsObject
    BY <1>1 DEF ObjectInv, Kept, CompletedKeepsObject
  <2>2. ASSUME faults = 0, NEW u \in Uploads, status[u] \in {"FAILED", "ABORTED", "EXPIRED"},
               ~Held(u), ~Working(u)
        PROVE  final[u] \in {"none", "tomb"} /\ staging[u] \in {"none", "tomb"} /\ mpu[u] = {}
    <3>1. Kept(u) /\ Undisturbed(u)
      BY <1>1, <2>2 DEF ObjectInv
    <3>2. Spent(u)
      BY <2>2, <3>1 DEF Kept, Closed
    <3>3. \A p \in Procs : job[p] = u => pc[p] = "idle"
      BY <2>2 DEF Working
    <3>4. ~FinalizerOn(u) /\ \A p \in Procs : job[p] = u => pc[p] \notin Uploading
      BY <3>3 DEF FinalizerOn, FinalizerSteps, Uploading
    <3>5. final[u] \in {"none", "tomb"}
      BY <2>2, <3>1, <3>4 DEF Undisturbed, Clear
    <3>6. staging[u] \in {"none", "tomb"} /\ mpu[u] = {}
      BY <3>1, <3>2, <3>4 DEF Kept, Undisturbed, Spent
    <3> QED
      BY <3>5, <3>6
  <2> QED
    BY <2>1, <2>2 DEF ObjectsFollowSessions, NoOrphansUnlessFault, NoOrphans
<1> QED
  BY <1>1, ObjectInvariant, PTL

(* A completion that was found revoked is never published by anybody, unless its
   own cleanup is cut off. *)
THEOREM DenialAlwaysHolds == OneFinalizer => (UploadSpec => []DenialHoldsUnlessFault)
<1>1. ASSUME ObjectInv PROVE DenialHoldsUnlessFault
  <2>1. denied \subseteq Uploads
    BY <1>1 DEF ObjectInv, UploadInv, UploadTypeOK
  <2> QED
    BY <1>1, <2>1 DEF ObjectInv, Undisturbed, DenialHoldsUnlessFault, DeniedNeverPublished
<1> QED
  BY <1>1, ObjectInvariant, PTL
=============================================================================
