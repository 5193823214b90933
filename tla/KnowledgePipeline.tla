-------------------------- MODULE KnowledgePipeline --------------------------
(***************************************************************************)
(* From the quarantined file to published knowledge: the malware scan of    *)
(* app/maintenance.py, the OKF conversion queue of                          *)
(* app/services/okf_conversion.py with the governed provider call of        *)
(* app/services/llm_usage.py, and the manager's retry, approval and consent *)
(* endpoints.  Workers are maintenance processes; they own a row by a lease *)
(* and hold no lock while they scan, parse or call the provider.  A         *)
(* database transaction is one step.                                        *)
(*                                                                          *)
(* A file has one version, so a job is named by its file; created_at orders *)
(* files like their numbers.  A lease id (uuid4) is a number that is never  *)
(* issued twice; 0 is SQL NULL.  A usage record is named by the idempotency *)
(* key of its attempt: file, retry generation, attempt; its final states    *)
(* (SETTLED, RELEASED, INDETERMINATE), which LlmBudget tells apart, are     *)
(* CLOSED.                                                                  *)
(***************************************************************************)
EXTENDS Integers, FiniteSets

CONSTANTS
    Files,          \* quarantined files, numbered by created_at
    Bases,          \* knowledge bases
    NoBase,         \* knowledge_base_id IS NULL
    Base,           \* the knowledge base of each file
    Owner,          \* the owner of each file
    Workers,        \* maintenance processes
    MaxAttempts,    \* okf_conversion_max_attempts
    MaxRetries,     \* bound: manual retries of one job
    MaxFaults       \* bound: crashes, cancellations, leases outlived

ASSUME PipelineAssumption ==
    /\ Files \subseteq Nat \ {0}
    /\ NoBase \notin Bases
    /\ Base \in [Files -> Bases \cup {NoBase}]
    /\ MaxAttempts \in Nat \ {0}
    /\ MaxRetries \in Nat
    /\ MaxFaults \in Nat

VARIABLES
    fileStatus, scan, scanLease, scanDue, knowledge,    \* files row
    job, lease, attempts, generation, due,              \* okf_conversion_jobs row
    entry,          \* publication_status of the generated entry
    drafts,         \* history: entries generated for the file
    consent,        \* knowledge_bases.external_llm_processing_enabled
    usage,          \* llm_usage_records: the keys in each status
    leases,         \* lease ids issued for the file
    pc, claim,      \* per worker: next step, what it has read
    faults          \* spent bound

fileVars == <<fileStatus, scan, scanLease, scanDue, knowledge>>
jobVars == <<job, lease, attempts, generation, due>>
entryVars == <<entry, drafts>>
workerVars == <<pc, claim>>
pipelineVars == <<fileVars, jobVars, entryVars, consent, usage, leases,
                  workerVars, faults>>

FileStates == {"QUARANTINED", "PROCESSING", "AVAILABLE"}
ScanStates == {"PENDING", "PROCESSING", "CLEAN", "INFECTED", "ERROR"}
JobStates == {"PENDING", "PROCESSING", "RETRY_WAIT", "SUCCEEDED", "FAILED",
              "UNSUPPORTED"}
KnowledgeStates == {"NOT_REQUESTED", "PENDING", "DRAFT_READY", "INDEXED",
                    "FAILED", "UNSUPPORTED"}
UsageStates == {"HELD", "CLOSED"}
EgressSteps == {"policy", "recheck", "deny", "provider"}
Steps == EgressSteps \cup {"idle", "scan", "load", "parse", "unsupported",
                           "current", "reserve", "persist", "retry", "fail"}

Keys == Files \X Nat \X Nat
Terminal == {"SUCCEEDED", "FAILED", "UNSUPPORTED"}

-----------------------------------------------------------------------------
(* Steps of workers                                                         *)

(* What a worker holds in memory: the claim and the rows it has read. *)
Fresh(f, l) == [file |-> f, lease |-> l, gen |-> 0, attempt |-> 0,
                consent |-> FALSE, row |-> <<"", "", "">>]
NoClaim == Fresh(0, 0)
Row(f) == <<fileStatus[f], scan[f], knowledge[f]>>
Key(w) == <<claim[w].file, claim[w].gen, claim[w].attempt>>

Goto(w, s) ==
    /\ pc' = [pc EXCEPT ![w] = s]
    /\ UNCHANGED claim
Done(w) ==
    /\ pc' = [pc EXCEPT ![w] = "idle"]
    /\ claim' = [claim EXCEPT ![w] = NoClaim]

(* The row still carries the worker's lease. *)
OwnsScan(w) ==
    LET f == claim[w].file IN
    /\ fileStatus[f] = "QUARANTINED"
    /\ scan[f] = "PROCESSING"
    /\ scanLease[f] = claim[w].lease
OwnsJob(w) ==
    LET f == claim[w].file IN
    /\ job[f] = "PROCESSING"
    /\ lease[f] = claim[w].lease

(* _claim_is_current: the lease and the file row that was loaded. *)
IsCurrent(w) == OwnsJob(w) /\ Row(claim[w].file) = claim[w].row

(* The usage record with key k moves to status s. *)
Book(k, s) ==
    usage' = [t \in UsageStates |->
                 IF t = s THEN usage[t] \cup {k} ELSE usage[t] \ {k}]

(* A select ... LIMIT 1 FOR UPDATE SKIP LOCKED over the rows q, oldest first:
   rows that other workers are just claiming may be passed over. *)
Selects(w, q, f) ==
    /\ f \in q
    /\ Cardinality({g \in q : g < f})
         <= Cardinality({v \in Workers \ {w} : pc[v] = "idle"})

-----------------------------------------------------------------------------
(* Malware scan                                                             *)

Scannable == {f \in Files :
    /\ fileStatus[f] = "QUARANTINED"
    /\ \/ scan[f] = "PENDING"
       \/ scan[f] = "PROCESSING" /\ scanDue[f]}

(* _claim_next_malware_scan *)
ClaimScan(w, f) ==
    /\ pc[w] = "idle"
    /\ Selects(w, Scannable, f)
    /\ scan' = [scan EXCEPT ![f] = "PROCESSING"]
    /\ leases' = [leases EXCEPT ![f] = @ + 1]
    /\ scanLease' = [scanLease EXCEPT ![f] = leases[f] + 1]
    /\ scanDue' = [scanDue EXCEPT ![f] = FALSE]
    /\ pc' = [pc EXCEPT ![w] = "scan"]
    /\ claim' = [claim EXCEPT ![w] = Fresh(f, leases[f] + 1)]
    /\ UNCHANGED <<fileStatus, knowledge, jobVars, entryVars, consent, usage,
                   faults>>

(* enqueue_okf_conversion: a file outside any knowledge base gets no job. *)
EnqueueConversion(f) ==
    IF Base[f] = NoBase \/ job[f] # "none"
    THEN UNCHANGED <<job, due, knowledge>>
    ELSE /\ job' = [job EXCEPT ![f] = "PENDING"]
         /\ due' = [due EXCEPT ![f] = TRUE]
         /\ knowledge' = [knowledge EXCEPT ![f] = "PENDING"]

(* Slip: the verdict is stored without looking at the lease. *)
SlipFinishScan(w, verdict) ==
    LET f == claim[w].file IN
    /\ pc[w] = "scan"
    /\ scan' = [scan EXCEPT ![f] = verdict]
    /\ scanLease' = [scanLease EXCEPT ![f] = 0]
    /\ IF verdict = "CLEAN"
       THEN /\ fileStatus' = [fileStatus EXCEPT ![f] = "PROCESSING"]
            /\ EnqueueConversion(f)
       ELSE /\ fileStatus' = [fileStatus EXCEPT ![f] = "QUARANTINED"]
            /\ UNCHANGED <<job, due, knowledge>>
    /\ Done(w)
    /\ UNCHANGED <<scanDue, lease, attempts, generation, entryVars, consent,
                   usage, leases, faults>>

(* process_malware_scan_batch: clamd answers, or the scan raises (ERROR). *)
FinishScan(w, verdict) ==
    LET f == claim[w].file IN
    /\ pc[w] = "scan"
    /\ IF OwnsScan(w)
       THEN /\ scan' = [scan EXCEPT ![f] = verdict]
            /\ scanLease' = [scanLease EXCEPT ![f] = 0]
            /\ scanDue' = [scanDue EXCEPT ![f] = FALSE]
            /\ IF verdict = "CLEAN"
               THEN /\ fileStatus' = [fileStatus EXCEPT ![f] = "PROCESSING"]
                    /\ EnqueueConversion(f)
               ELSE UNCHANGED <<fileStatus, job, due, knowledge>>
       ELSE UNCHANGED <<fileVars, job, due>>
    /\ Done(w)
    /\ UNCHANGED <<lease, attempts, generation, entryVars, consent,
                   usage, leases, faults>>

-----------------------------------------------------------------------------
(* OKF conversion                                                           *)

(* Slip: a lease that ran out is nobody's business. *)
SlipConvertible == {f \in Files : job[f] \in {"PENDING", "RETRY_WAIT"} /\ due[f]}

(* What _claim_job selects from. *)
Convertible == {f \in Files :
    job[f] \in {"PENDING", "RETRY_WAIT", "PROCESSING"} /\ due[f]}

(* find_active_llm_egress with the scope of the job: its knowledge base, its
   owner and the operation okf.compile. *)
ActiveEgress(f) ==
    \E k \in usage["HELD"] : Base[k[1]] = Base[f] /\ Owner[k[1]] = Owner[f]

(* Slip: a stale lease is replaced whatever its worker is doing. *)
SlipClaimJob(w, f) ==
    /\ pc[w] = "idle"
    /\ Selects(w, Convertible, f)
    /\ job' = [job EXCEPT ![f] = "PROCESSING"]
    /\ leases' = [leases EXCEPT ![f] = @ + 1]
    /\ lease' = [lease EXCEPT ![f] = leases[f] + 1]
    /\ attempts' = [attempts EXCEPT ![f] = @ + 1]
    /\ due' = [due EXCEPT ![f] = FALSE]
    /\ pc' = [pc EXCEPT ![w] = "load"]
    /\ claim' = [claim EXCEPT ![w] = Fresh(f, leases[f] + 1)]
    /\ UNCHANGED <<fileVars, generation, entryVars, consent, usage, faults>>

(* _claim_job.  When the selected job is PROCESSING with a HELD usage record in
   its scope, the claim stands down and the batch ends. *)
ClaimJob(w, f) ==
    /\ pc[w] = "idle"
    /\ Selects(w, Convertible, f)
    /\ job[f] = "PROCESSING" => ~ActiveEgress(f)
    /\ job' = [job EXCEPT ![f] = "PROCESSING"]
    /\ leases' = [leases EXCEPT ![f] = @ + 1]
    /\ lease' = [lease EXCEPT ![f] = leases[f] + 1]
    /\ attempts' = [attempts EXCEPT ![f] = @ + 1]
    /\ due' = [due EXCEPT ![f] = FALSE]
    /\ pc' = [pc EXCEPT ![w] = "load"]
    /\ claim' = [claim EXCEPT ![w] = Fresh(f, leases[f] + 1)]
    /\ UNCHANGED <<fileVars, generation, entryVars, consent, usage, faults>>

(* _process_claimed_job reads job, file and consent once, then lets go. *)
LoadClaim(w) ==
    LET f == claim[w].file IN
    /\ pc[w] = "load"
    /\ IF OwnsJob(w)
       THEN /\ pc' = [pc EXCEPT ![w] = "parse"]
            /\ claim' = [claim EXCEPT ![w] =
                    [file |-> f, lease |-> @.lease, gen |-> generation[f],
                     attempt |-> attempts[f], consent |-> consent[Base[f]],
                     row |-> Row(f)]]
       ELSE Done(w)
    /\ UNCHANGED <<fileVars, jobVars, entryVars, consent, usage, leases, faults>>

(* Reading the object and parsing it: text, a format or a document the parser
   rejects, or an unexpected exception. *)
ParseDocument(w) ==
    /\ pc[w] = "parse"
    /\ \E s \in {"current", "unsupported", "retry"} : Goto(w, s)
    /\ UNCHANGED <<fileVars, jobVars, entryVars, consent, usage, leases, faults>>

(* The claim is checked again; without consent the file is compiled locally;
   a missing provider client is a retryable failure.  (The deployment allows
   external models: with external_llm_enabled off, consent means nothing.) *)
CheckCurrent(w) ==
    /\ pc[w] = "current"
    /\ IF ~IsCurrent(w) THEN Done(w)
       ELSE IF ~claim[w].consent THEN Goto(w, "persist")
       ELSE Goto(w, "reserve") \/ Goto(w, "retry")
    /\ UNCHANGED <<fileVars, jobVars, entryVars, consent, usage, leases, faults>>

KeyUsed(k) == \E s \in UsageStates : k \in usage[s]

(* LlmUsageGovernance.reserve and its commit: a used key is a duplicate, a
   budget, price or policy may be missing. *)
ReserveUsage(w) ==
    /\ pc[w] = "reserve"
    /\ \/ KeyUsed(Key(w)) /\ Goto(w, "fail") /\ UNCHANGED usage
       \/ ~KeyUsed(Key(w)) /\ Goto(w, "retry") /\ UNCHANGED usage
       \/ ~KeyUsed(Key(w)) /\ Goto(w, "policy") /\ Book(Key(w), "HELD")
    /\ UNCHANGED <<fileVars, jobVars, entryVars, consent, leases, faults>>

(* external_llm_egress_allowed, after the hold is durable.  Other revocations
   (user, role, grant) may deny at any time. *)
EgressPolicy(w) ==
    /\ pc[w] = "policy"
    /\ \/ consent[Base[claim[w].file]] /\ Goto(w, "recheck")
       \/ Goto(w, "deny")
    /\ UNCHANGED <<fileVars, jobVars, entryVars, consent, usage, leases, faults>>

(* _claim_is_current under the advisory lock of the job; then the call. *)
RecheckClaim(w) ==
    /\ pc[w] = "recheck"
    /\ Goto(w, IF IsCurrent(w) THEN "provider" ELSE "deny")
    /\ UNCHANGED <<fileVars, jobVars, entryVars, consent, usage, leases, faults>>

(* _enforce_egress_policy: the hold is released; LlmEgressDenied means the
   local compiler, an exception of the check itself a retry. *)
DenyEgress(w) ==
    /\ pc[w] = "deny"
    /\ Book(Key(w), "CLOSED")
    /\ Goto(w, "persist") \/ Goto(w, "retry")
    /\ UNCHANGED <<fileVars, jobVars, entryVars, consent, leases, faults>>

(* What becomes of the job after the call: a metered draft is persisted, a known
   failure or one that never started is retried or not, an unknown, unmetered or
   mismatching outcome is not, and any other exception is. *)
Outcomes == {"persist", "retry", "fail"}

(* compile_okf returns or raises, and its usage is reconciled. *)
ProviderReturns(w) ==
    /\ pc[w] = "provider"
    /\ Book(Key(w), "CLOSED")
    /\ \E s \in Outcomes : Goto(w, s)
    /\ UNCHANGED <<fileVars, jobVars, entryVars, consent, leases, faults>>

(* Slip: the insert is not guarded by the lease. *)
SlipPersistResult(w) ==
    LET f == claim[w].file IN
    /\ pc[w] = "persist"
    /\ job' = [job EXCEPT ![f] = "SUCCEEDED"]
    /\ lease' = [lease EXCEPT ![f] = 0]
    /\ knowledge' = [knowledge EXCEPT ![f] = "DRAFT_READY"]
    /\ entry' = [entry EXCEPT ![f] = "DRAFT"]
    /\ drafts' = [drafts EXCEPT ![f] = @ + 1]
    /\ Done(w)
    /\ UNCHANGED <<fileStatus, scan, scanLease, scanDue, attempts, generation,
                   due, consent, usage, leases, faults>>

(* _persist_result *)
PersistResult(w) ==
    LET f == claim[w].file IN
    /\ pc[w] = "persist"
    /\ IF IsCurrent(w)
       THEN /\ job' = [job EXCEPT ![f] = "SUCCEEDED"]
            /\ lease' = [lease EXCEPT ![f] = 0]
            /\ knowledge' = [knowledge EXCEPT ![f] = "DRAFT_READY"]
            /\ entry' = [entry EXCEPT ![f] = "DRAFT"]
            /\ drafts' = [drafts EXCEPT ![f] = @ + 1]
       ELSE UNCHANGED <<job, lease, knowledge, entryVars>>
    /\ Done(w)
    /\ UNCHANGED <<fileStatus, scan, scanLease, scanDue, attempts, generation,
                   due, consent, usage, leases, faults>>

(* The job leaves PROCESSING with status s, the file with knowledge status k. *)
CloseJob(w, s, k) ==
    LET f == claim[w].file IN
    /\ IF OwnsJob(w)
       THEN /\ job' = [job EXCEPT ![f] = s]
            /\ lease' = [lease EXCEPT ![f] = 0]
            /\ due' = [due EXCEPT ![f] = FALSE]
            /\ knowledge' = [knowledge EXCEPT ![f] = k]
       ELSE UNCHANGED <<job, lease, due, knowledge>>
    /\ Done(w)
    /\ UNCHANGED <<fileStatus, scan, scanLease, scanDue, attempts, generation,
                   entryVars, consent, usage, leases, faults>>

(* _mark_failure: RETRY_WAIT, or FAILED when exhausted or not retryable. *)
MarkFailure(w) ==
    /\ pc[w] \in {"retry", "fail"}
    /\ IF pc[w] = "fail" \/ attempts[claim[w].file] >= MaxAttempts
       THEN CloseJob(w, "FAILED", "FAILED")
       ELSE CloseJob(w, "RETRY_WAIT", "PENDING")

(* _finish_terminal *)
FinishTerminal(w) ==
    /\ pc[w] = "unsupported"
    /\ CloseJob(w, "UNSUPPORTED", "UNSUPPORTED")

-----------------------------------------------------------------------------
(* Managers and operators                                                   *)

(* POST /files/{id}/okf-conversion/retry *)
RetryConversion(f) ==
    /\ generation[f] < MaxRetries
    /\ fileStatus[f] = "PROCESSING"
    /\ job[f] \in {"FAILED", "UNSUPPORTED"}
    /\ job' = [job EXCEPT ![f] = "PENDING"]
    /\ attempts' = [attempts EXCEPT ![f] = 0]
    /\ generation' = [generation EXCEPT ![f] = @ + 1]
    /\ lease' = [lease EXCEPT ![f] = 0]
    /\ due' = [due EXCEPT ![f] = TRUE]
    /\ knowledge' = [knowledge EXCEPT ![f] = "PENDING"]
    /\ UNCHANGED <<fileStatus, scan, scanLease, scanDue, entryVars, consent,
                   usage, leases, workerVars, faults>>

(* POST /files/{id}/approve *)
ApproveFile(f) ==
    /\ scan[f] = "CLEAN"
    /\ fileStatus[f] = "PROCESSING"
    /\ job[f] = "SUCCEEDED"
    /\ entry[f] = "DRAFT"
    /\ fileStatus' = [fileStatus EXCEPT ![f] = "AVAILABLE"]
    /\ entry' = [entry EXCEPT ![f] = "PUBLISHED"]
    /\ knowledge' = [knowledge EXCEPT ![f] = "INDEXED"]
    /\ UNCHANGED <<scan, scanLease, scanDue, jobVars, drafts, consent, usage,
                   leases, workerVars, faults>>

(* Slip: consent is withdrawn while a call may be under way. *)
SlipSetConsent(b, enabled) ==
    /\ consent' = [consent EXCEPT ![b] = enabled]
    /\ UNCHANGED <<fileVars, jobVars, entryVars, usage, leases, workerVars,
                   faults>>

(* PATCH /knowledge-bases/{id}: withdrawing the consent is denied while a HELD
   usage record of the knowledge base exists. *)
SetConsent(b, enabled) ==
    /\ ~enabled /\ consent[b] => \A k \in usage["HELD"] : Base[k[1]] # b
    /\ consent' = [consent EXCEPT ![b] = enabled]
    /\ UNCHANGED <<fileVars, jobVars, entryVars, usage, leases, workerVars,
                   faults>>

(* POST /llm-usage/{id}/reconcile: the operator attests that the call of a
   HELD record has ended; here, that no worker is left to use it. *)
ReconcileUsage(k) ==
    /\ \A w \in Workers : pc[w] \in EgressSteps => Key(w) # k
    /\ Book(k, "CLOSED")
    /\ UNCHANGED <<fileVars, jobVars, entryVars, consent, leases, workerVars,
                   faults>>

-----------------------------------------------------------------------------
(* Time and faults                                                          *)

Alive(f, l) == \E w \in Workers : claim[w].file = f /\ claim[w].lease = l

(* next_attempt_at passes, or a lease runs out: a fault if its worker lives. *)
ScanTimer(f) ==
    /\ scan[f] = "PROCESSING" /\ ~scanDue[f]
    /\ scanDue' = [scanDue EXCEPT ![f] = TRUE]
    /\ IF Alive(f, scanLease[f])
       THEN faults < MaxFaults /\ faults' = faults + 1 ELSE UNCHANGED faults
    /\ UNCHANGED <<fileStatus, scan, scanLease, knowledge, jobVars, entryVars,
                   consent, usage, leases, workerVars>>

JobTimer(f) ==
    /\ job[f] \in {"RETRY_WAIT", "PROCESSING"} /\ ~due[f]
    /\ due' = [due EXCEPT ![f] = TRUE]
    /\ IF job[f] = "PROCESSING" /\ Alive(f, lease[f])
       THEN faults < MaxFaults /\ faults' = faults + 1 ELSE UNCHANGED faults
    /\ UNCHANGED <<fileVars, job, lease, attempts, generation, entryVars,
                   consent, usage, leases, workerVars>>

(* The process dies: what it knew is gone, what it committed stays. *)
Crash(w) ==
    /\ pc[w] # "idle" /\ faults < MaxFaults
    /\ faults' = faults + 1
    /\ Done(w)
    /\ UNCHANGED <<fileVars, jobVars, entryVars, consent, usage, leases>>

(* The maintenance cycle deadline cancels the worker inside the governed call:
   CancelledError releases the hold before egress and marks it indeterminate
   after.  It passes every except Exception, so the job stays PROCESSING. *)
CancelCycle(w) ==
    /\ pc[w] \in {"policy", "recheck", "provider"} /\ faults < MaxFaults
    /\ faults' = faults + 1
    /\ Book(Key(w), "CLOSED")
    /\ Done(w)
    /\ UNCHANGED <<fileVars, jobVars, entryVars, consent, leases>>

-----------------------------------------------------------------------------
PipelineInit ==
    /\ fileStatus = [f \in Files |-> "QUARANTINED"]
    /\ scan = [f \in Files |-> "PENDING"]
    /\ scanLease = [f \in Files |-> 0]
    /\ scanDue = [f \in Files |-> FALSE]
    /\ knowledge = [f \in Files |-> "NOT_REQUESTED"]
    /\ job = [f \in Files |-> "none"]
    /\ lease = [f \in Files |-> 0]
    /\ attempts = [f \in Files |-> 0]
    /\ generation = [f \in Files |-> 0]
    /\ due = [f \in Files |-> FALSE]
    /\ entry = [f \in Files |-> "none"]
    /\ drafts = [f \in Files |-> 0]
    /\ consent = [b \in Bases |-> FALSE]
    /\ usage = [s \in UsageStates |-> {}]
    /\ leases = [f \in Files |-> 0]
    /\ pc = [w \in Workers |-> "idle"]
    /\ claim = [w \in Workers |-> NoClaim]
    /\ faults = 0

Claim(w) == \E f \in Files : ClaimScan(w, f) \/ ClaimJob(w, f)

Step(w) ==
    \/ \E v \in {"CLEAN", "INFECTED", "ERROR"} : FinishScan(w, v)
    \/ LoadClaim(w) \/ ParseDocument(w) \/ CheckCurrent(w) \/ ReserveUsage(w)
    \/ EgressPolicy(w) \/ RecheckClaim(w) \/ DenyEgress(w) \/ ProviderReturns(w)
    \/ PersistResult(w) \/ MarkFailure(w) \/ FinishTerminal(w)

Operate ==
    \/ \E f \in Files : RetryConversion(f) \/ ApproveFile(f)
    \/ \E b \in Bases, e \in BOOLEAN : SetConsent(b, e)
    \/ \E k \in usage["HELD"] : ReconcileUsage(k)

PipelineNext ==
    \/ \E w \in Workers : Claim(w) \/ Step(w) \/ Crash(w) \/ CancelCycle(w)
    \/ Operate
    \/ \E f \in Files : ScanTimer(f) \/ JobTimer(f)

PipelineSpec == PipelineInit /\ [][PipelineNext]_pipelineVars

(* The maintenance loop keeps claiming and finishes what it claimed, and clocks
   advance.  Managers and operators need not act. *)
PipelineFairness ==
    /\ \A w \in Workers : WF_pipelineVars(Claim(w)) /\ WF_pipelineVars(Step(w))
    /\ \A f \in Files : WF_pipelineVars(ScanTimer(f)) /\ WF_pipelineVars(JobTimer(f))

FairPipelineSpec == PipelineSpec /\ PipelineFairness
-----------------------------------------------------------------------------
Claims == [file : Files \cup {0}, lease : Nat, gen : Nat, attempt : Nat,
           consent : BOOLEAN,
           row : (FileStates \cup {""}) \X (ScanStates \cup {""})
                   \X (KnowledgeStates \cup {""})]

PipelineTypeOK ==
    /\ fileStatus \in [Files -> FileStates]
    /\ scan \in [Files -> ScanStates]
    /\ scanLease \in [Files -> Nat]
    /\ scanDue \in [Files -> BOOLEAN]
    /\ knowledge \in [Files -> KnowledgeStates]
    /\ job \in [Files -> JobStates \cup {"none"}]
    /\ lease \in [Files -> Nat]
    /\ attempts \in [Files -> Nat]
    /\ generation \in [Files -> Nat]
    /\ due \in [Files -> BOOLEAN]
    /\ entry \in [Files -> {"none", "DRAFT", "PUBLISHED"}]
    /\ drafts \in [Files -> Nat]
    /\ consent \in [Bases -> BOOLEAN]
    /\ usage \in [UsageStates -> SUBSET Keys]
    /\ leases \in [Files -> Nat]
    /\ pc \in [Workers -> Steps]
    /\ claim \in [Workers -> Claims]
    /\ \A w \in Workers : pc[w] # "idle" => claim[w].file \in Files
    /\ faults \in 0..MaxFaults

(* A job yields one draft, whatever crashes, reclaimed leases and late workers
   do: a worker whose lease was replaced never inserts a second entry, and a
   job counts as succeeded exactly when its draft exists. *)
OneDraft ==
    \A f \in Files :
        /\ drafts[f] <= 1
        /\ job[f] = "SUCCEEDED" <=> drafts[f] = 1
        /\ entry[f] # "none" <=> drafts[f] = 1

(* Nothing leaves quarantine, is converted or is published without a clean
   scan, and a late verdict of a scanner that lost its lease changes nothing. *)
PublishedIsClean ==
    \A f \in Files :
        /\ fileStatus[f] # "QUARANTINED" <=> scan[f] = "CLEAN"
        /\ job[f] # "none" => scan[f] = "CLEAN"
        /\ entry[f] = "PUBLISHED" <=> fileStatus[f] = "AVAILABLE"

(* While a provider call is under way its worker still owns the job and its
   hold is durable: no stale-lease reclaim replaces it, so no file is sent by
   two workers at once. *)
EgressExclusive ==
    \A w \in Workers : pc[w] = "provider" =>
        /\ OwnsJob(w)
        /\ Key(w) \in usage["HELD"]
        /\ \A v \in Workers : pc[v] = "provider" /\ claim[v].file = claim[w].file
                => v = w

(* No call is under way for a knowledge base that has withdrawn its consent,
   however the withdrawal races the claim, the hold and the check. *)
ConsentRespected ==
    \A w \in Workers : pc[w] = "provider" => consent[Base[claim[w].file]]

(* A current attempt never meets the usage key of an earlier one, so a retry
   is never refused as a duplicate (LlmUsageDuplicate fails the job). *)
FreshKey ==
    \A w \in Workers : pc[w] = "reserve" /\ OwnsJob(w) => ~KeyUsed(Key(w))

(* The file's knowledge status follows the job through failures, reclaims,
   manual retries and approval. *)
KnowledgeFollowsJob ==
    \A f \in Files :
        knowledge[f] \in
            CASE job[f] = "none" -> {"NOT_REQUESTED"}
              [] job[f] \in {"PENDING", "PROCESSING", "RETRY_WAIT"} -> {"PENDING"}
              [] job[f] = "SUCCEEDED" ->
                    IF entry[f] = "PUBLISHED" THEN {"INDEXED"} ELSE {"DRAFT_READY"}
              [] job[f] \in {"FAILED", "UNSUPPORTED"} -> {job[f]}

(* Only recovery from a fault takes a job past its attempt limit, one attempt
   for each fault. *)
AttemptsWithinFaults ==
    \A f \in Files : attempts[f] <= MaxAttempts + faults

(* A conversion job stays coherent through _claim_job, _mark_failure,
   _persist_result and retry_okf_conversion whichever workers come late: one
   draft, a file that follows it, attempts that are paid for by faults and
   never reuse a usage key. *)
JobSound == OneDraft /\ KnowledgeFollowsJob /\ FreshKey /\ AttemptsWithinFaults

(* Every quarantined file gets a verdict. *)
ScanSettles ==
    \A f \in Files :
        scan[f] = "PENDING" ~> scan[f] \in {"CLEAN", "INFECTED", "ERROR"}

(* The hold of a process that died makes every claim of the job, or of an older
   one that is selected first, stand down until an operator reconciles it. *)
Stranded(f) ==
    \E g \in Files, k \in usage["HELD"] :
        /\ g <= f /\ job[g] = "PROCESSING"
        /\ Base[k[1]] = Base[g] /\ Owner[k[1]] = Owner[g]
        /\ \A w \in Workers : pc[w] \in EgressSteps => Key(w) # k

(* Every queued conversion ends, through its retries and whatever crashes, is
   cancelled or outlives its lease, unless the hold of a dead process is left in
   its way: then it ends once the hold is reconciled. *)
ConversionSettles ==
    \A f \in Files :
        job[f] \in {"PENDING", "PROCESSING", "RETRY_WAIT"}
            ~> job[f] \in Terminal \/ Stranded(f)

(* The maintenance loop alone finishes what it starts, as far as no hold is left
   to an operator: a scan or a conversion that failed, or whose worker crashed,
   was cancelled or outlived its lease, is tried again. *)
WorkSettles == ScanSettles /\ ConversionSettles
==============================================================================
