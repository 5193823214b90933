--------------------------- MODULE UploadLifecycle ---------------------------
(***************************************************************************)
(* Upload sessions of one user, from POST /files/uploads to the quarantined *)
(* file: the request handlers of app/api/v1/routes/files.py, the reconciler *)
(* cleanup_expired_uploads of app/maintenance.py and the S3 calls of        *)
(* app/services/storage.py.  A database transaction holds the row locks of  *)
(* the session and of its file and is one step; every S3 call is a step of  *)
(* its own, made while no transaction is open, and may fail or be cut off   *)
(* by a crash of its process.                                               *)
(*                                                                          *)
(* Objects are abstracted to what the handlers tell apart: "good" (declared *)
(* size and checksum), "bad" (any mismatch), "tomb" (the sealing zero-byte  *)
(* tombstone) or "none".  Time is abstracted to due[u]: expires_at passed.  *)
(***************************************************************************)
EXTENDS QuotaLedger

CONSTANTS
    Requests,       \* API requests that may be in flight
    Workers,        \* maintenance processes
    Multipart,      \* the uploads planned as multipart; the others are single PUT
    OneFinalizer,   \* TRUE: no two finalizations of one session overlap
    MaxCalls,       \* bound: API requests issued
    MaxFaults       \* bound: crashes and failed S3 calls

ASSUME UploadAssumption ==
    /\ UploadKeys # {}
    /\ Requests \cap Workers = {}
    /\ Multipart \subseteq Uploads
    /\ OneFinalizer \in BOOLEAN
    /\ MaxCalls \in Nat
    /\ MaxFaults \in Nat

Procs == Requests \cup Workers
NoId == 0           \* storage_upload_id IS NULL

VARIABLES
    status,         \* upload_sessions.status, "none" before the row exists
    fileStatus,     \* files.status
    due,            \* upload_sessions.expires_at has passed
    uploadId,       \* upload_sessions.storage_upload_id
    announced,      \* sessions whose id and URL some client has received
    staging,        \* object under the staging/ key (single PUT)
    final,          \* object under the objects/ key
    mpu,            \* open multipart uploads in the object store
    created,        \* multipart uploads created so far
    pc, job, uid,   \* per process: next step, session, upload id read
    orig,           \* claim.original_status
    stored,         \* what HEAD returned
    then,           \* step after the object cleanup
    denied,         \* history: sessions whose completion was found revoked
    calls, faults   \* spent bounds

sessionVars == <<status, fileStatus, due, uploadId, announced, denied>>
storeVars == <<staging, final, mpu, created>>
procVars == <<pc, job, uid, orig, stored, then>>
budgetVars == <<calls, faults>>
uploadVars == <<quotaVars, sessionVars, storeVars, procVars, budgetVars>>

SessionStatus ==
    {"INITIATED", "FINALIZING", "COMPLETED", "FAILED", "ABORTED", "EXPIRED"}
FileStatus == {"UPLOADING", "QUARANTINED", "FAILED"}
Content == {"none", "good", "bad", "tomb"}
(* The steps from which a completion or a reconciliation still touches objects. *)
FinalizerSteps == {"assemble", "headfinal", "headstaging", "copy", "headcopy",
                   "seal", "commit", "delete", "reseal", "reject"}
Steps == FinalizerSteps \cup
    {"idle", "create", "persist", "dropdup", "abortstorage", "release"}

Single(u) == u \notin Multipart
Goto(p, s) == pc' = [pc EXCEPT ![p] = s]
FinalizerOn(u) == \E p \in Procs : pc[p] \in FinalizerSteps /\ job[p] = u
Working(u) == \E p \in Procs : pc[p] # "idle" /\ job[p] = u

(* A request starts on session u. *)
Call(r, u, s) ==
    /\ pc[r] = "idle" /\ calls < MaxCalls
    /\ calls' = calls + 1
    /\ Goto(r, s)
    /\ job' = [job EXCEPT ![r] = u]
    /\ UNCHANGED faults

-----------------------------------------------------------------------------
(* POST /files/uploads                                                      *)

(* Slip: the lookup by idempotency key is forgotten. *)
SlipInitiateUpload(r, u) ==
    /\ Call(r, u, "create")
    /\ ReserveMany(u)
    /\ status' = [status EXCEPT ![u] = "INITIATED"]
    /\ fileStatus' = [fileStatus EXCEPT ![u] = "UPLOADING"]
    /\ due' = [due EXCEPT ![u] = FALSE]
    /\ UNCHANGED <<uploadId, announced, denied, storeVars, uid, orig, stored, then>>

(* First request with this idempotency key: admission commits before S3. *)
InitiateUpload(r, u) ==
    /\ status[u] = "none"
    /\ Call(r, u, "create")
    /\ ReserveMany(u)
    /\ status' = [status EXCEPT ![u] = "INITIATED"]
    /\ fileStatus' = [fileStatus EXCEPT ![u] = "UPLOADING"]
    /\ due' = [due EXCEPT ![u] = FALSE]
    /\ UNCHANGED <<uploadId, announced, denied, storeVars, uid, orig, stored, then>>

(* The same key again: a multipart session without a storage upload retries
   S3, an open single upload is signed again, the others are only reported. *)
ReplayInitiate(r, u) ==
    /\ status[u] # "none"
    /\ status[u] = "INITIATED" => ~due[u]
    /\ IF status[u] = "INITIATED" /\ u \in Multipart /\ uploadId[u] = NoId
       THEN Call(r, u, "create") /\ UNCHANGED announced
       ELSE /\ Call(r, u, "idle")
            /\ announced' = IF status[u] = "INITIATED"
                            THEN announced \cup {u} ELSE announced
    /\ UNCHANGED <<quotaVars, status, fileStatus, due, uploadId, denied, storeVars,
                   uid, orig, stored, then>>

(* storage.initiate: CreateMultipartUpload, or only a signature. *)
CreateStorageUpload(r) ==
    LET u == job[r] IN
    /\ r \in Requests /\ pc[r] = "create"
    /\ IF u \in Multipart
       THEN /\ created' = [created EXCEPT ![u] = @ + 1]
            /\ mpu' = [mpu EXCEPT ![u] = @ \cup {created[u] + 1}]
            /\ uid' = [uid EXCEPT ![r] = created[u] + 1]
       ELSE /\ uid' = [uid EXCEPT ![r] = NoId]
            /\ UNCHANGED <<created, mpu>>
    /\ Goto(r, "persist")
    /\ UNCHANGED <<quotaVars, sessionVars, staging, final, job, orig, stored,
                   then, budgetVars>>

(* The session keeps the first upload id; the status is not read again. *)
PersistStorageUpload(r) ==
    LET u == job[r] IN
    /\ r \in Requests /\ pc[r] = "persist"
    /\ IF uploadId[u] = NoId
       THEN /\ uploadId' = [uploadId EXCEPT ![u] = uid[r]]
            /\ Goto(r, "idle")
            /\ announced' = announced \cup {u}
       ELSE /\ IF uid[r] # uploadId[u]
               THEN Goto(r, "dropdup") /\ UNCHANGED announced
               ELSE Goto(r, "idle") /\ announced' = announced \cup {u}
            /\ UNCHANGED uploadId
    /\ UNCHANGED <<quotaVars, status, fileStatus, due, denied, storeVars, job, uid,
                   orig, stored, then, budgetVars>>

(* abort_multipart of the upload that lost the race. *)
DropDuplicate(r) ==
    LET u == job[r] IN
    /\ r \in Requests /\ pc[r] = "dropdup"
    /\ mpu' = [mpu EXCEPT ![u] = @ \ {uid[r]}]
    /\ announced' = announced \cup {u}
    /\ Goto(r, "idle")
    /\ UNCHANGED <<quotaVars, status, fileStatus, due, uploadId, denied, staging, final,
                   created, job, uid, orig, stored, then, budgetVars>>

(* The browser uses its presigned PUT, which signs If-None-Match: *.  The URL
   is a bearer capability: it may be replayed after the session has ended. *)
ClientPut(u, c) ==
    /\ Single(u) /\ u \in announced
    /\ staging[u] = "none"
    /\ staging' = [staging EXCEPT ![u] = c]
    /\ UNCHANGED <<quotaVars, sessionVars, final, mpu, created, procVars,
                   budgetVars>>

-----------------------------------------------------------------------------
(* POST /files/uploads/{id}/complete                                        *)

(* OneFinalizer: the client has one completion in flight, and none outlives
   the 15-minute lease after which the reconciler takes the session. *)
FinalizerFree(u) == OneFinalizer => ~FinalizerOn(u)

CompleteUpload(r, u) ==
    /\ u \in announced
    /\ \/ status[u] = "FINALIZING"
       \/ status[u] = "INITIATED" /\ ~due[u]
    /\ u \in Multipart => uploadId[u] # NoId
    /\ FinalizerFree(u)
    /\ Call(r, u, IF Single(u) THEN "headfinal" ELSE "assemble")
    /\ uid' = [uid EXCEPT ![r] = uploadId[u]]
    /\ stored' = [stored EXCEPT ![r] = "none"]
    /\ status' = [status EXCEPT ![u] = "FINALIZING"]
    /\ due' = [due EXCEPT ![u] = FALSE]
    /\ UNCHANGED <<quotaVars, fileStatus, uploadId, announced, denied, storeVars, orig,
                   then>>

(* storage.complete_multipart: NoSuchUpload is success when the object is
   there already; missing or wrong parts raise. *)
AssembleParts(r) ==
    LET u == job[r] IN
    /\ pc[r] = "assemble"
    /\ \/ /\ uid[r] \in mpu[u]
          /\ \E c \in {"good", "bad"} : final' = [final EXCEPT ![u] = c]
          /\ mpu' = [mpu EXCEPT ![u] = @ \ {uid[r]}]
          /\ Goto(r, "headfinal")
       \/ /\ uid[r] \in mpu[u]
          /\ Goto(r, "idle")
          /\ UNCHANGED <<final, mpu>>
       \/ /\ uid[r] \notin mpu[u]
          /\ Goto(r, IF final[u] # "none" THEN "headfinal" ELSE "idle")
          /\ UNCHANGED <<final, mpu>>
    /\ UNCHANGED <<quotaVars, sessionVars, staging, created, job, uid, orig,
                   stored, then, budgetVars>>

(* Slip: the size and checksum of the stored object are not compared. *)
SlipJudge(p, o) ==
    /\ stored' = [stored EXCEPT ![p] = o]
    /\ Goto(p, "commit")
    /\ UNCHANGED then

(* After the size and checksum tests: publish, or clean up and reject. *)
Judge(p, o) ==
    /\ stored' = [stored EXCEPT ![p] = o]
    /\ Goto(p, IF o = "good" THEN "commit" ELSE "delete")
    /\ then' = [then EXCEPT ![p] =
                    IF p \in Workers THEN "abortstorage" ELSE "reject"]

(* try_head(final_key), or head(source_key) of an assembled multipart. *)
HeadFinal(p) ==
    LET u == job[p] IN
    /\ pc[p] = "headfinal"
    /\ \/ final[u] # "none" /\ Judge(p, final[u])
       \/ /\ final[u] = "none"
          /\ Goto(p, IF Single(u) THEN "headstaging"
                     ELSE IF p \in Workers THEN "abortstorage" ELSE "idle")
          /\ UNCHANGED <<stored, then>>
    /\ UNCHANGED <<quotaVars, sessionVars, storeVars, job, uid, orig, budgetVars>>

(* try_head(source_key): the request promotes whatever is there, the
   reconciler only an object that matches the claim. *)
HeadStaging(p) ==
    LET u == job[p]
        o == staging[u] IN
    /\ pc[p] = "headstaging"
    /\ \/ /\ IF p \in Workers THEN o = "good" ELSE o # "none"
          /\ Goto(p, "copy")
          /\ UNCHANGED <<stored, then>>
       \/ /\ o = "none"
          /\ Goto(p, IF p \in Workers THEN "abortstorage" ELSE "idle")
          /\ UNCHANGED <<stored, then>>
       \/ p \in Workers /\ o \in {"bad", "tomb"} /\ Judge(p, o)
    /\ UNCHANGED <<quotaVars, sessionVars, storeVars, job, uid, orig, budgetVars>>

(* storage.promote, three S3 calls: copy_object, head, seal_single_upload. *)
CopyObject(p) ==
    LET u == job[p] IN
    /\ pc[p] = "copy"
    /\ final' = [final EXCEPT ![u] = staging[u]]
    /\ Goto(p, "headcopy")
    /\ UNCHANGED <<quotaVars, sessionVars, staging, mpu, created, job, uid,
                   orig, stored, then, budgetVars>>

HeadPromoted(p) ==
    LET u == job[p] IN
    /\ pc[p] = "headcopy"
    /\ IF final[u] = "none"
       THEN Goto(p, "idle") /\ UNCHANGED stored
       ELSE Goto(p, "seal") /\ stored' = [stored EXCEPT ![p] = final[u]]
    /\ UNCHANGED <<quotaVars, sessionVars, storeVars, job, uid, orig, then,
                   budgetVars>>

SealPromoted(p) ==
    LET u == job[p] IN
    /\ pc[p] = "seal"
    /\ staging' = [staging EXCEPT ![u] = "tomb"]
    /\ Judge(p, stored[p])
    /\ UNCHANGED <<quotaVars, sessionVars, final, mpu, created, job, uid, orig,
                   budgetVars>>

(* The transaction that publishes the object: HELD -> CONSUMED, file
   quarantined for scanning. *)
Publish(u) ==
    /\ ConsumeUploadReservations(u)
    /\ status' = [status EXCEPT ![u] = "COMPLETED"]
    /\ fileStatus' = [fileStatus EXCEPT ![u] = "QUARANTINED"]

(* _cleanup_completed_upload_objects, entered at its first S3 call. *)
CleanUp(p) ==
    /\ Goto(p, "delete")
    /\ then' = [then EXCEPT ![p] = "idle"]

(* Slip: the session read before the S3 calls is trusted, not re-read. *)
SlipCommitUpload(r) ==
    /\ r \in Requests /\ pc[r] = "commit"
    /\ Publish(job[r])
    /\ Goto(r, "idle")
    /\ UNCHANGED <<due, uploadId, announced, denied, storeVars, job, uid, orig, stored,
                   then, budgetVars>>

CommitUpload(r) ==
    LET u == job[r] IN
    /\ r \in Requests /\ pc[r] = "commit"
    /\ \/ /\ status[u] = "COMPLETED"
          /\ Goto(r, "idle")
          /\ UNCHANGED <<quotaVars, status, fileStatus, then>>
       \/ /\ status[u] = "FINALIZING"
          /\ Publish(u)
          /\ Goto(r, "idle")
          /\ UNCHANGED then
       \/ /\ status[u] \notin {"COMPLETED", "FINALIZING"}
          /\ CleanUp(r)
          /\ UNCHANGED <<quotaVars, status, fileStatus>>
    /\ UNCHANGED <<due, uploadId, announced, denied, storeVars, job, uid, orig, stored,
                   budgetVars>>

(* Slip: the ApiError propagates without the cleanup. *)
SlipReauthorizationFails(r) ==
    /\ r \in Requests /\ pc[r] = "commit"
    /\ Goto(r, "idle")
    /\ denied' = denied \cup {job[r]}
    /\ UNCHANGED <<quotaVars, status, fileStatus, due, uploadId, announced,
                   storeVars, job, uid, orig, stored, then, budgetVars>>

(* The user, the token, the permission or the knowledge-base grant was revoked
   during the S3 calls: the objects go, the session stays FINALIZING. *)
ReauthorizationFails(r) ==
    /\ r \in Requests /\ pc[r] = "commit"
    /\ CleanUp(r)
    /\ denied' = denied \cup {job[r]}
    /\ UNCHANGED <<quotaVars, status, fileStatus, due, uploadId,
                   announced, storeVars, job, uid, orig, stored,
                   budgetVars>>

DeleteFinal(p) ==
    LET u == job[p] IN
    /\ pc[p] = "delete"
    /\ final' = [final EXCEPT ![u] = "none"]
    /\ Goto(p, IF Single(u) THEN "reseal" ELSE then[p])
    /\ UNCHANGED <<quotaVars, sessionVars, staging, mpu, created, job, uid,
                   orig, stored, then, budgetVars>>

ResealStaging(p) ==
    LET u == job[p] IN
    /\ pc[p] = "reseal"
    /\ staging' = [staging EXCEPT ![u] = "tomb"]
    /\ Goto(p, then[p])
    /\ UNCHANGED <<quotaVars, sessionVars, final, mpu, created, job, uid, orig,
                   stored, then, budgetVars>>

(* Slip: the conditional transition FINALIZING -> FAILED is unconditional. *)
SlipRecordRejection(r) ==
    LET u == job[r] IN
    /\ pc[r] = "reject"
    /\ status' = [status EXCEPT ![u] = "FAILED"]
    /\ fileStatus' = [fileStatus EXCEPT ![u] = "FAILED"]
    /\ ReleaseUploadReservations(u, "RELEASED")
    /\ Goto(r, "idle")
    /\ UNCHANGED <<due, uploadId, announced, denied, storeVars, job, uid, orig, stored,
                   then, budgetVars>>

(* _record_finalization_rejection, or a revocation that stops it. *)
RecordRejection(r) ==
    LET u == job[r] IN
    /\ pc[r] = "reject"
    /\ \/ /\ status[u] = "FINALIZING"
          /\ status' = [status EXCEPT ![u] = "FAILED"]
          /\ fileStatus' = [fileStatus EXCEPT ![u] = "FAILED"]
          /\ ReleaseUploadReservations(u, "RELEASED")
       \/ UNCHANGED <<quotaVars, status, fileStatus>>
    /\ Goto(r, "idle")
    /\ UNCHANGED <<due, uploadId, announced, denied, storeVars, job, uid, orig, stored,
                   then, budgetVars>>

-----------------------------------------------------------------------------
(* DELETE /files/uploads/{id}                                               *)

AbortUpload(r, u) ==
    /\ u \in announced
    /\ status[u] \notin {"none", "COMPLETED", "EXPIRED"}
    /\ status[u] = "ABORTED" => Held(u)
    /\ Call(r, u, "abortstorage")
    /\ uid' = [uid EXCEPT ![r] = uploadId[u]]
    /\ IF status[u] = "ABORTED"
       THEN UNCHANGED <<status, fileStatus, due>>
       ELSE /\ status' = [status EXCEPT ![u] = "ABORTED"]
            /\ fileStatus' = [fileStatus EXCEPT ![u] = "FAILED"]
            /\ due' = [due EXCEPT ![u] = TRUE]
    /\ UNCHANGED <<quotaVars, uploadId, announced, denied, storeVars, orig, stored, then>>

(* Slip: a single upload has nothing to abort, so the key is not sealed. *)
SlipAbortStorage(p) ==
    LET u == job[p] IN
    /\ pc[p] = "abortstorage"
    /\ mpu' = [mpu EXCEPT ![u] = @ \ {uid[p]}]
    /\ Goto(p, "release")
    /\ UNCHANGED <<quotaVars, sessionVars, staging, final, created, job, uid, orig,
                   stored, then, budgetVars>>

(* abort_multipart, or seal_single_upload at the object key: for a multipart
   session that never got an upload id the handler seals the objects/ key,
   the reconciler leaves it alone. *)
AbortStorage(p) ==
    LET u == job[p] IN
    /\ pc[p] = "abortstorage"
    /\ \/ /\ uid[p] # NoId
          /\ mpu' = [mpu EXCEPT ![u] = @ \ {uid[p]}]
          /\ UNCHANGED <<staging, final>>
       \/ /\ uid[p] = NoId /\ Single(u)
          /\ staging' = [staging EXCEPT ![u] = "tomb"]
          /\ UNCHANGED <<final, mpu>>
       \/ /\ uid[p] = NoId /\ u \in Multipart
          /\ final' = [final EXCEPT ![u] = IF p \in Workers THEN @ ELSE "tomb"]
          /\ UNCHANGED <<staging, mpu>>
    /\ Goto(p, "release")
    /\ UNCHANGED <<quotaVars, sessionVars, created, job, uid, orig, stored,
                   then, budgetVars>>

AbortRelease(r) ==
    LET u == job[r] IN
    /\ r \in Requests /\ pc[r] = "release"
    /\ ReleaseUploadReservations(u, "RELEASED")
    /\ Goto(r, "idle")
    /\ UNCHANGED <<sessionVars, storeVars, job, uid, orig, stored, then,
                   budgetVars>>

-----------------------------------------------------------------------------
(* cleanup_expired_uploads                                                  *)

(* Slip: closed sessions are not claimed for their leftover reservations. *)
SlipClaimable(u) == due[u] /\ status[u] \in {"INITIATED", "FINALIZING"}

Claimable(u) ==
    /\ due[u]
    /\ \/ status[u] \in {"INITIATED", "FINALIZING"}
       \/ status[u] \in {"ABORTED", "EXPIRED"} /\ Held(u)

(* claim_next: INITIATED is closed at once, the others keep their status and
   get a 15-minute lease. *)
ClaimExpired(w, u) ==
    /\ pc[w] = "idle" /\ Claimable(u)
    /\ status[u] = "FINALIZING" => FinalizerFree(u)
    /\ Goto(w, IF status[u] = "FINALIZING" THEN "headfinal" ELSE "abortstorage")
    /\ job' = [job EXCEPT ![w] = u]
    /\ uid' = [uid EXCEPT ![w] = uploadId[u]]
    /\ orig' = [orig EXCEPT ![w] = status[u]]
    /\ stored' = [stored EXCEPT ![w] = "none"]
    /\ status' = [status EXCEPT ![u] = IF @ = "INITIATED" THEN "EXPIRED" ELSE @]
    /\ due' = [due EXCEPT ![u] = FALSE]
    /\ UNCHANGED <<quotaVars, fileStatus, uploadId, announced, denied, storeVars, then,
                   budgetVars>>

(* The object matches: consume the reservation unless the session moved on. *)
ReconcileFinalization(w) ==
    LET u == job[w] IN
    /\ w \in Workers /\ pc[w] = "commit"
    /\ \/ /\ status[u] = "FINALIZING"
          /\ Publish(u)
          /\ Goto(w, "idle")
          /\ UNCHANGED then
       \/ /\ status[u] # "FINALIZING"
          /\ CleanUp(w)
          /\ UNCHANGED <<quotaVars, status, fileStatus>>
    /\ UNCHANGED <<due, uploadId, announced, denied, storeVars, job, uid, orig, stored,
                   budgetVars>>

(* The closing transaction of one claim. *)
FinishCleanup(w) ==
    LET u == job[w]
        aborted == orig[w] = "ABORTED" \/ status[u] = "ABORTED"
        rejected == orig[w] = "FINALIZING" /\ stored[w] \in {"bad", "tomb"}
    IN
    /\ w \in Workers /\ pc[w] = "release"
    /\ \/ /\ status[u] = "COMPLETED"
          /\ UNCHANGED <<quotaVars, status, fileStatus>>
       \/ /\ status[u] # "COMPLETED"
          /\ ReleaseUploadReservations(u,
                 IF aborted \/ rejected THEN "RELEASED" ELSE "EXPIRED")
          /\ status' = [status EXCEPT ![u] =
                 IF aborted THEN "ABORTED"
                 ELSE IF rejected THEN "FAILED" ELSE "EXPIRED"]
          /\ fileStatus' = [fileStatus EXCEPT ![u] = "FAILED"]
    /\ Goto(w, "idle")
    /\ UNCHANGED <<due, uploadId, announced, denied, storeVars, job, uid, orig, stored,
                   then, budgetVars>>

-----------------------------------------------------------------------------
(* The environment                                                          *)

(* expires_at passes.  A session lives for hours, so not while the request
   that creates it is still in flight. *)
Expire(u) ==
    /\ status[u] # "none" /\ ~due[u]
    /\ \A r \in Requests :
          ~(job[r] = u /\ pc[r] \in {"create", "persist", "dropdup"})
    /\ due' = [due EXCEPT ![u] = TRUE]
    /\ UNCHANGED <<quotaVars, status, fileStatus, uploadId, announced, denied,
                   storeVars, procVars, budgetVars>>

(* An S3 call raises, or the process dies: no later step of it runs. *)
Fault(p) ==
    /\ pc[p] # "idle" /\ faults < MaxFaults
    /\ faults' = faults + 1
    /\ Goto(p, "idle")
    /\ UNCHANGED <<quotaVars, sessionVars, storeVars, job, uid, orig, stored,
                   then, calls>>

Midnight ==
    /\ NextDay
    /\ UNCHANGED <<sessionVars, storeVars, procVars, budgetVars>>

(* Meanwhile the same user is charged directly: a manual entry that grows for
   storage, a download grant for a key of its own. *)
Meter ==
    /\ \E k \in OtherKeys \cup (UploadKeys \ DailyKeys), a \in Direct : Consume(k, a)
    /\ UNCHANGED <<sessionVars, storeVars, procVars, budgetVars>>

-----------------------------------------------------------------------------
UploadInit ==
    /\ QuotaInit
    /\ status = [u \in Uploads |-> "none"]
    /\ fileStatus = [u \in Uploads |-> "UPLOADING"]
    /\ due = [u \in Uploads |-> FALSE]
    /\ uploadId = [u \in Uploads |-> NoId]
    /\ announced = {}
    /\ staging = [u \in Uploads |-> "none"]
    /\ final = [u \in Uploads |-> "none"]
    /\ mpu = [u \in Uploads |-> {}]
    /\ created = [u \in Uploads |-> 0]
    /\ pc = [p \in Procs |-> "idle"]
    /\ job \in [Procs -> Uploads]
    /\ \A p, q \in Procs : job[p] = job[q]
    /\ uid = [p \in Procs |-> NoId]
    /\ orig = [p \in Procs |-> "INITIATED"]
    /\ stored = [p \in Procs |-> "none"]
    /\ then = [p \in Procs |-> "idle"]
    /\ denied = {}
    /\ calls = 0 /\ faults = 0

(* The next step of a request or of a reconciler that has work. *)
Step(p) ==
    \/ p \in Requests /\
       (\/ CreateStorageUpload(p) \/ PersistStorageUpload(p) \/ DropDuplicate(p)
        \/ AssembleParts(p) \/ CommitUpload(p) \/ ReauthorizationFails(p)
        \/ RecordRejection(p) \/ AbortRelease(p))
    \/ HeadFinal(p) \/ HeadStaging(p) \/ CopyObject(p) \/ HeadPromoted(p)
    \/ SealPromoted(p) \/ DeleteFinal(p) \/ ResealStaging(p) \/ AbortStorage(p)
    \/ p \in Workers /\ (ReconcileFinalization(p) \/ FinishCleanup(p))

ApiCall(r, u) ==
    \/ InitiateUpload(r, u) \/ ReplayInitiate(r, u)
    \/ CompleteUpload(r, u) \/ AbortUpload(r, u)

UploadNext ==
    \/ \E r \in Requests, u \in Uploads : ApiCall(r, u)
    \/ \E u \in Uploads, c \in {"good", "bad"} : ClientPut(u, c)
    \/ \E p \in Procs : Step(p)
    \/ \E w \in Workers, u \in Uploads : ClaimExpired(w, u)
    \/ \E u \in Uploads : Expire(u)
    \/ \E p \in Procs : Fault(p)
    \/ Meter
    \/ Midnight

UploadSpec == UploadInit /\ [][UploadNext]_uploadVars

(* Time passes, a started handler goes on (asyncio runs it until it returns,
   raises or its process dies), and the worker loop keeps claiming.  Nothing
   obliges a client to call. *)
UploadFairness ==
    /\ \A p \in Procs : WF_uploadVars(Step(p))
    /\ \A w \in Workers, u \in Uploads : SF_uploadVars(ClaimExpired(w, u))
    /\ \A u \in Uploads : WF_uploadVars(Expire(u))

FairUploadSpec == UploadSpec /\ UploadFairness

-----------------------------------------------------------------------------
UploadTypeOK ==
    /\ QuotaTypeOK
    /\ status \in [Uploads -> SessionStatus \cup {"none"}]
    /\ fileStatus \in [Uploads -> FileStatus]
    /\ due \in [Uploads -> BOOLEAN]
    /\ uploadId \in [Uploads -> Nat]
    /\ announced \in SUBSET Uploads
    /\ staging \in [Uploads -> Content]
    /\ final \in [Uploads -> Content]
    /\ mpu \in [Uploads -> SUBSET Nat]
    /\ created \in [Uploads -> Nat]
    /\ pc \in [Procs -> Steps]
    /\ job \in [Procs -> Uploads]
    /\ uid \in [Procs -> Nat]
    /\ orig \in [Procs -> SessionStatus]
    /\ stored \in [Procs -> Content]
    /\ then \in [Procs -> {"idle", "reject", "abortstorage"}]
    /\ denied \in SUBSET Uploads
    /\ calls \in 0..MaxCalls
    /\ faults \in 0..MaxFaults

(* The session, its file and its reservations tell one story: an upload is
   COMPLETED exactly when all its reservations were CONSUMED and its file is
   QUARANTINED, an open session holds all of them, and a FAILED one has given
   all of them back (as RELEASED or, when a second reconciler was there first,
   as EXPIRED). *)
SessionAgreesWithQuota ==
    \A u \in Uploads :
        /\ status[u] = "COMPLETED" <=> fileStatus[u] = "QUARANTINED"
        /\ \A k \in UploadKeys :
              /\ status[u] = "none" <=> resv[u][k] = "none"
              /\ status[u] = "COMPLETED" <=> resv[u][k] = "CONSUMED"
              /\ status[u] \in {"INITIATED", "FINALIZING"} => resv[u][k] = "HELD"
              /\ status[u] = "FAILED" => resv[u][k] \in {"RELEASED", "EXPIRED"}

(* upload_sessions, files and quota_reservations stay well formed and tell one
   story whatever complete_upload, abort_upload and cleanup_expired_uploads do
   to a session at the same time. *)
UploadConsistent == UploadTypeOK /\ SessionAgreesWithQuota

(* A completion, an abort and the reconciler race for a session; whoever closes
   it, no later step publishes a closed session or reopens a published one
   (test_completion_cannot_resurrect_cleaned_upload). *)
NeverResurrected ==
    [][\A u \in Uploads :
          /\ status[u] = "COMPLETED" => status'[u] = "COMPLETED"
          /\ status[u] \in {"ABORTED", "EXPIRED", "FAILED"} =>
                 /\ status'[u] \notin {"INITIATED", "FINALIZING", "COMPLETED"}
                 /\ fileStatus'[u] # "QUARANTINED"]_uploadVars

(* A completed upload keeps the object it was completed with: no cleanup that
   runs late deletes or overwrites it. *)
CompletedKeepsObject ==
    \A u \in Uploads : status[u] = "COMPLETED" => final[u] = "good"

(* A second completion that overlaps the first, still authorized, changes
   nothing: the object of the completed upload stays. *)
DuplicateCompletionHarmless ==
    \A u \in Uploads \ denied : status[u] = "COMPLETED" => final[u] = "good"

(* The quota of a single PUT is given back only once the staging key is
   occupied for good, so a presigned URL that is replayed later (PUT with
   If-None-Match) can never store bytes nobody pays for. *)
CapabilityRevoked ==
    \A u \in Uploads :
        Single(u) /\ status[u] # "none" /\ ~Held(u) => staging[u] # "none"

(* Once a failed upload has been settled and nothing works on it any more, it
   has left no bytes behind: the objects are gone or sealed and its multipart
   upload is aborted. *)
NoOrphans ==
    \A u \in Uploads :
        /\ status[u] \in {"FAILED", "ABORTED", "EXPIRED"}
        /\ ~Held(u) /\ ~Working(u)
        => /\ final[u] \in {"none", "tomb"}
           /\ staging[u] \in {"none", "tomb"}
           /\ mpu[u] = {}

(* A completion that was found to be no longer authorized removes the object
   it promoted, so that maintenance cannot publish it later. *)
DeniedNeverPublished ==
    \A u \in denied : status[u] # "COMPLETED"

(* Without a crash or a failed S3 call both hold, however requests, aborts and
   the reconciler interleave. *)
NoOrphansUnlessFault == faults = 0 => NoOrphans

(* The object store follows the sessions: complete_upload and
   cleanup_expired_uploads, whose S3 calls run after their locks are gone, keep
   the object of a published upload and, unless one of them is cut off, remove
   that of a failed one. *)
ObjectsFollowSessions == CompletedKeepsObject /\ NoOrphansUnlessFault

(* A denied completion is not published as long as its cleanup does not fail. *)
DenialHoldsUnlessFault == faults = 0 => DeniedNeverPublished

(* Reserved capacity always comes back or is used: after any crash, the
   reconciler settles every session. *)
HeldSettles == \A u \in Uploads : Held(u) ~> ~Held(u)
==============================================================================
