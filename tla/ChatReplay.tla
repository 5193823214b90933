----------------------------- MODULE ChatReplay ------------------------------
(***************************************************************************)
(* Idempotent chat: POST /chat/query of one principal with one idempotency  *)
(* key and one knowledge base.  execute_chat_query_idempotently of          *)
(* app/services/chat_idempotency.py claims a row of                         *)
(* chat_idempotency_records, runs answer_knowledge_query of                 *)
(* app/services/chat.py (retrieval, a governed answer, a governed review),  *)
(* stores the response and reports it; every failure in between ends in a   *)
(* terminalization that must leave the row in a final state.  A transaction *)
(* is one step; locks are dropped before the provider is called.            *)
(*                                                                          *)
(* A response is abstracted to the content version its citations were read  *)
(* at.  The knowledge base, the user and the grants are abstracted to       *)
(* version, access and consent; the final states of a usage record, which   *)
(* LlmBudget tells apart, to CLOSED.  Time is abstracted to stale           *)
(* (PROCESSING beyond its timeout) and expired (expires_at has passed).     *)
(***************************************************************************)
EXTENDS Integers

CONSTANTS
    Requests,       \* chat requests that may be in flight
    Bodies,         \* request bodies sent under the key
    NoBody,         \* a slot without a request
    Models,         \* provider and model settings that may be configured
    NoPrompt,       \* no governed call
    NoRecord,       \* no row for the principal and the key
    MaxVersion,     \* bound: content versions
    MaxCalls,       \* bound: requests issued
    MaxFaults       \* bound: crashes, cancellations, lost replies, timers outlived

ASSUME ChatAssumption ==
    /\ NoBody \notin Bodies
    /\ NoPrompt \notin {"answer", "review"} \X Models
    /\ MaxVersion \in Nat \ {0}
    /\ MaxCalls \in Nat
    /\ MaxFaults \in Nat

VARIABLES
    record,         \* the chat_idempotency_records row, or NoRecord
    ids,            \* record ids issued (uuid4, never twice)
    version,        \* knowledge_bases.content_version
    access,         \* user, permission, role, grant and API key allow the chat
    consent,        \* knowledge_bases.external_llm_processing_enabled
    usage,          \* llm_usage_records.status under each idempotency hash
    pc,             \* per request: next step
    body,           \* per request: its request_hash
    mine,           \* per request: descriptor.record_id
    read,           \* per request: content version of its citations
    op,             \* per request: the governed call it makes, with its model
    poisoned,       \* the chat safety latch
    told,           \* history: the last outcome a client was told of a record
    sent,           \* history: provider calls made under each idempotency hash
    calls, faults   \* spent bounds

baseVars == <<version, access, consent>>
requestVars == <<pc, body, mine, read, op>>
boundVars == <<calls, faults>>
chatVars == <<record, ids, baseVars, usage, requestVars, poisoned, told, sent, boundVars>>

Final == {"COMPLETED", "OUTCOME_UNKNOWN", "INVALIDATED"}
Operations == {"answer", "review"}
(* What the idempotency hash of a usage record tells apart under one key: the
   child key of the operation, and the provider and model it is sent to. *)
Prompts == Operations \X Models
UsageStatus == {"HELD", "CLOSED"}
(* Terminalization after a failed operation, after a failed store, and after a
   cancellation, when nobody is left to be told. *)
Terminalizing == {"abandon", "verify", "silent"}
Executing == {"search", "reserve", "policy", "provider", "store"} \cup Terminalizing
Steps == Executing \cup {"idle", "claim"}
Ids == 1..MaxCalls
Outcomes == {"none", "ok", "unknown", "changed"}

(* A row of chat_idempotency_records. *)
Records == [id : Ids, body : Bodies, status : Final \cup {"PROCESSING"},
            version : 1..MaxVersion, answer : 0..MaxVersion,
            stale : BOOLEAN, expired : BOOLEAN]

ASSUME RecordAssumption == NoRecord \notin Records

Goto(r, s) ==
    /\ pc' = [pc EXCEPT ![r] = s]
    /\ UNCHANGED <<body, mine, read, op>>
(* The request ends; a client that is told the outcome of record i knows it. *)
Return(r) ==
    /\ pc' = [pc EXCEPT ![r] = "idle"]
    /\ body' = [body EXCEPT ![r] = NoBody]
    /\ mine' = [mine EXCEPT ![r] = 0]
    /\ read' = [read EXCEPT ![r] = 0]
    /\ op' = [op EXCEPT ![r] = NoPrompt]
Tell(r, i, outcome) ==
    /\ Return(r)
    /\ told' = [told EXCEPT ![i] = outcome]

(* The row reaches a final state; only COMPLETED keeps a response. *)
Close(status, answer) ==
    record' = [record EXCEPT !.status = status, !.answer = answer,
                             !.stale = FALSE, !.expired = FALSE]

(* The row of a handler, found by its id. *)
Mine(r) == record # NoRecord /\ record.id = mine[r]
Alive(i) == \E r \in Requests : pc[r] \in Executing /\ mine[r] = i
Fault == faults < MaxFaults /\ faults' = faults + 1 /\ UNCHANGED calls

-----------------------------------------------------------------------------
(* Claim or replay                                                          *)

(* The route authorizes, and run_chat_with_budget refuses when poisoned. *)
Ask(r, b) ==
    /\ pc[r] = "idle" /\ access /\ ~poisoned
    /\ calls < MaxCalls /\ calls' = calls + 1
    /\ pc' = [pc EXCEPT ![r] = "claim"]
    /\ body' = [body EXCEPT ![r] = b]
    /\ UNCHANGED <<record, ids, baseVars, usage, mine, read, op, poisoned, told, sent,
                   faults>>

(* The authorization of every ledger transaction: shared locks on user, key
   and knowledge base, so the answer holds until the commit.  It also compares
   the token version, which a new password, a reused refresh token or a status
   change raises, and the date of the key: neither asks for leases, so either
   may have passed by the time of any claim or store. *)
ClaimDenied(r) ==
    /\ pc[r] = "claim"
    /\ Return(r)
    /\ UNCHANGED <<record, ids, baseVars, usage, poisoned, told, sent, boundVars>>

ClaimInsert(r) ==
    /\ pc[r] = "claim" /\ access
    /\ record = NoRecord
    /\ ids' = ids + 1
    /\ record' = [id |-> ids + 1, body |-> body[r], status |-> "PROCESSING",
                  version |-> version, answer |-> 0, stale |-> FALSE, expired |-> FALSE]
    /\ pc' = [pc EXCEPT ![r] = "search"]
    /\ mine' = [mine EXCEPT ![r] = ids + 1]
    /\ UNCHANGED <<baseVars, usage, body, read, op, poisoned, told, sent, boundVars>>

(* The unique index refuses the insert and the row is locked; another body is
   a conflict whatever the row says. *)
Found(r) == pc[r] = "claim" /\ access /\ record # NoRecord
ClaimConflict(r) ==
    /\ Found(r)
    /\ record.body # body[r]
    /\ Return(r)
    /\ UNCHANGED <<record, ids, baseVars, usage, poisoned, told, sent, boundVars>>

(* An expired row is deleted and the claim tried again, four times in all. *)
ClaimExpired(r) ==
    /\ Found(r)
    /\ record.body = body[r] /\ record.status \in Final /\ record.expired
    /\ record' = NoRecord
    /\ UNCHANGED requestVars \/ Return(r)
    /\ UNCHANGED <<ids, baseVars, usage, poisoned, told, sent, boundVars>>

Current(r) ==
    /\ Found(r)
    /\ record.body = body[r]
    /\ record.status \in Final => ~record.expired

ClaimClosed(r) ==
    /\ Current(r)
    /\ \/ record.status = "INVALIDATED" /\ Tell(r, record.id, "changed")
       \/ record.status = "OUTCOME_UNKNOWN" /\ Tell(r, record.id, "unknown")
    /\ UNCHANGED <<record, ids, baseVars, usage, poisoned, sent, boundVars>>

(* The knowledge base has changed since the claim, finished or not. *)
ClaimChanged(r) ==
    /\ Current(r)
    /\ record.status \in {"PROCESSING", "COMPLETED"} /\ record.version # version
    /\ Close("INVALIDATED", 0)
    /\ Tell(r, record.id, "changed")
    /\ UNCHANGED <<ids, baseVars, usage, poisoned, sent, boundVars>>

(* The stored response, unless it cannot be decoded (a retired key). *)
ClaimReplay(r) ==
    /\ Current(r)
    /\ record.status = "COMPLETED" /\ record.version = version
    /\ \/ Tell(r, record.id, "ok") /\ UNCHANGED <<record, faults>>
       \/ /\ faults < MaxFaults /\ faults' = faults + 1
          /\ Close("OUTCOME_UNKNOWN", 0) /\ Tell(r, record.id, "unknown")
    /\ UNCHANGED <<ids, baseVars, usage, poisoned, sent, calls>>

ClaimProcessing(r) ==
    /\ Current(r)
    /\ record.status = "PROCESSING" /\ record.version = version
    /\ IF record.stale
       THEN Close("OUTCOME_UNKNOWN", 0) /\ Tell(r, record.id, "unknown")
       ELSE Return(r) /\ UNCHANGED <<record, told>>       \* in progress
    /\ UNCHANGED <<ids, baseVars, usage, poisoned, sent, boundVars>>

Claim(r) ==
    \/ ClaimDenied(r) \/ ClaimInsert(r) \/ ClaimConflict(r) \/ ClaimExpired(r)
    \/ ClaimClosed(r) \/ ClaimChanged(r) \/ ClaimReplay(r) \/ ClaimProcessing(r)

-----------------------------------------------------------------------------
(* answer_knowledge_query                                                   *)

(* Access is checked with the roles the request came with, and the citations
   are read; without any, without consent or without a provider the answer is
   retrieval.  The provider and model are what is configured by now.  A denial
   or any other exception ends the request. *)
Search(r) ==
    /\ pc[r] = "search"
    /\ \/ Goto(r, "abandon")
       \/ /\ read' = [read EXCEPT ![r] = version]
          /\ \/ pc' = [pc EXCEPT ![r] = "store"] /\ UNCHANGED op
             \/ /\ consent /\ pc' = [pc EXCEPT ![r] = "reserve"]
                /\ \E m \in Models : op' = [op EXCEPT ![r] = <<"answer", m>>]
          /\ UNCHANGED <<body, mine>>
    /\ UNCHANGED <<record, ids, baseVars, usage, poisoned, told, sent, boundVars>>

(* Slip: the duplicate is taken for a retry of the same call. *)
SlipReserve(r) ==
    /\ pc[r] = "reserve"
    /\ \/ Goto(r, "store") /\ UNCHANGED usage
       \/ Goto(r, "policy") /\ usage' = [usage EXCEPT ![op[r]] = "HELD"]
    /\ UNCHANGED <<record, ids, baseVars, poisoned, told, sent, boundVars>>

(* The hold under the idempotency hash: a missing budget or price means
   retrieval; a hash that was used before, or any other exception, ends the
   request. *)
Reserve(r) ==
    /\ pc[r] = "reserve"
    /\ \/ Goto(r, "abandon") /\ UNCHANGED usage
       \/ usage[op[r]] = "none" /\ Goto(r, "store") /\ UNCHANGED usage
       \/ /\ usage[op[r]] = "none" /\ Goto(r, "policy")
          /\ usage' = [usage EXCEPT ![op[r]] = "HELD"]
    /\ UNCHANGED <<record, ids, baseVars, poisoned, told, sent, boundVars>>

Settle(r, status, s) ==
    /\ usage' = [usage EXCEPT ![op[r]] = status]
    /\ Goto(r, s)

(* external_llm_egress_allowed once the hold is durable: it does not look at
   the token version.  A denial means retrieval, an exception of the check ends
   the request. *)
Policy(r) ==
    /\ pc[r] = "policy"
    /\ \/ /\ access /\ consent
          /\ sent' = [sent EXCEPT ![op[r]] = @ + 1]
          /\ Goto(r, "provider")
          /\ UNCHANGED usage
       \/ /\ Settle(r, "CLOSED", "store") \/ Settle(r, "CLOSED", "abandon")
          /\ UNCHANGED sent
    /\ UNCHANGED <<record, ids, baseVars, poisoned, told, boundVars>>

(* A grounded answer goes on to a reviewer of another provider if there is one; any
   other metered result, a known failure or one that never started is final.
   An unknown, unmetered or mismatching outcome ends the request. *)
ProviderReturns(r) ==
    /\ pc[r] = "provider"
    /\ \/ Settle(r, "CLOSED", "store")
       \/ Settle(r, "CLOSED", "abandon")
       \/ /\ op[r][1] = "answer"
          /\ usage' = [usage EXCEPT ![op[r]] = "CLOSED"]
          /\ pc' = [pc EXCEPT ![r] = "reserve"]
          /\ \E m \in Models \ {op[r][2]} : op' = [op EXCEPT ![r] = <<"review", m>>]
          /\ UNCHANGED <<body, mine, read>>
    /\ UNCHANGED <<record, ids, baseVars, poisoned, told, sent, boundVars>>

-----------------------------------------------------------------------------
(* _store_completed_response                                                *)

Storable(r) == access /\ Mine(r) /\ record.status = "PROCESSING"

(* No longer authorized, deleted or closed by somebody else, or the response
   cannot be encoded: only the terminalization can tell what became of the
   row. *)
StoreFails(r) ==
    /\ pc[r] = "store"
    /\ Goto(r, "verify")
    /\ UNCHANGED <<record, ids, baseVars, usage, poisoned, told, sent, boundVars>>

(* Slip: the version of the claim is not compared with the current one. *)
SlipStoreChanged(r) ==
    /\ pc[r] = "store" /\ Storable(r) /\ record.version # version
    /\ Close("COMPLETED", read[r])
    /\ Tell(r, mine[r], "ok")
    /\ UNCHANGED <<ids, baseVars, usage, poisoned, sent, boundVars>>

StoreChanged(r) ==
    /\ pc[r] = "store" /\ access /\ Mine(r)
    /\ \/ record.status = "INVALIDATED" /\ UNCHANGED record
       \/ record.status = "PROCESSING" /\ record.version # version
          /\ Close("INVALIDATED", 0)
    /\ Tell(r, mine[r], "changed")
    /\ UNCHANGED <<ids, baseVars, usage, poisoned, sent, boundVars>>

StoreCompleted(r) ==
    /\ pc[r] = "store" /\ Storable(r) /\ record.version = version
    /\ Close("COMPLETED", read[r])
    /\ \/ Tell(r, mine[r], "ok") /\ UNCHANGED faults
       \/ /\ faults < MaxFaults /\ faults' = faults + 1   \* the acknowledgement is lost
          /\ Goto(r, "verify") /\ UNCHANGED told
    /\ UNCHANGED <<ids, baseVars, usage, poisoned, sent, calls>>

Store(r) == StoreFails(r) \/ StoreChanged(r) \/ StoreCompleted(r)

-----------------------------------------------------------------------------
(* _mark_outcome_unknown                                                    *)

(* Slip: after a failed store the response is returned as if it were stored. *)
SlipReport(r, status) ==
    CASE pc[r] = "silent" -> Return(r) /\ UNCHANGED told
      [] pc[r] = "abandon" -> Tell(r, mine[r], "unknown")
      [] pc[r] = "verify" -> Tell(r, mine[r], "ok")

(* What the client is told when the row ends in the given status. *)
Report(r, status) ==
    CASE pc[r] = "silent" -> Return(r) /\ UNCHANGED told
      [] pc[r] = "abandon" -> Tell(r, mine[r], "unknown")
      [] pc[r] = "verify" ->
            Tell(r, mine[r], CASE status = "COMPLETED" -> "ok"
                               [] status = "INVALIDATED" -> "changed"
                               [] status = "OUTCOME_UNKNOWN" -> "unknown")

(* The locked row is closed unless it is final already. *)
Terminalize(r) ==
    /\ pc[r] \in Terminalizing /\ Mine(r)
    /\ IF record.status = "PROCESSING"
       THEN Close("OUTCOME_UNKNOWN", 0) /\ Report(r, "OUTCOME_UNKNOWN")
       ELSE UNCHANGED record /\ Report(r, record.status)
    /\ UNCHANGED <<ids, baseVars, usage, poisoned, sent, boundVars>>

(* Twice no proof of a final state, or not in time: the latch is set and the
   client gets 503.  The row may have been closed all the same, or the
   transaction, supervised but no longer awaited, closes it later. *)
TerminalizeFails(r) ==
    /\ pc[r] \in Terminalizing
    /\ \/ ~Mine(r) /\ Return(r) /\ UNCHANGED <<record, faults>>
       \/ /\ Mine(r) /\ faults < MaxFaults /\ faults' = faults + 1
          /\ \/ Return(r) /\ UNCHANGED record
             \/ Return(r) /\ record.status = "PROCESSING" /\ Close("OUTCOME_UNKNOWN", 0)
             \/ Goto(r, "silent") /\ UNCHANGED record
    /\ poisoned' = TRUE
    /\ UNCHANGED <<ids, baseVars, usage, told, sent, calls>>

-----------------------------------------------------------------------------
(* Cancellation, crashes and time                                           *)

(* The deadline or a disconnect cancels the request where it waits; a commit it
   was waiting for may have happened.  Cancelled inside the claim, it leaves
   the row to the cleanup; later, it terminalizes the row.  The governed call
   closes its record, unless that is what was cancelled. *)
Cancel(r) ==
    /\ Fault
    /\ \/ /\ pc[r] \in {"claim", "search"}
          /\ Return(r)
          /\ UNCHANGED <<record, usage>>
       \/ /\ pc[r] \in {"search", "reserve", "store", "abandon", "verify"}
          /\ Goto(r, "silent")
          /\ UNCHANGED <<record, usage>>
       \/ /\ pc[r] = "reserve" /\ usage[op[r]] = "none"
          /\ Settle(r, "HELD", "silent")
          /\ UNCHANGED record
       \/ /\ pc[r] \in {"policy", "provider"}
          /\ \E status \in UsageStatus : Settle(r, status, "silent")
          /\ UNCHANGED record
       \/ /\ pc[r] = "store" /\ Storable(r) /\ record.version = version
          /\ Close("COMPLETED", read[r])
          /\ Goto(r, "silent")
          /\ UNCHANGED usage
    /\ UNCHANGED <<ids, baseVars, poisoned, told, sent>>

(* The API process dies with all its requests.  With a persistent run state
   the next start finds it unclean and is poisoned; without one the latch is
   forgotten. *)
Crash ==
    /\ Fault
    /\ \E r \in Requests : pc[r] # "idle"
    /\ pc' = [r \in Requests |-> "idle"]
    /\ body' = [r \in Requests |-> NoBody]
    /\ mine' = [r \in Requests |-> 0]
    /\ read' = [r \in Requests |-> 0]
    /\ op' = [r \in Requests |-> NoPrompt]
    /\ poisoned' \in BOOLEAN
    /\ UNCHANGED <<record, ids, baseVars, usage, told, sent>>

(* Both timeouts are longer than a request may take: if they pass while the
   handler of the row is alive, that is a fault. *)
Timer ==
    /\ record # NoRecord
    /\ IF Alive(record.id) THEN Fault ELSE UNCHANGED boundVars
    /\ \/ /\ record.status = "PROCESSING" /\ ~record.stale
          /\ record' = [record EXCEPT !.stale = TRUE]
       \/ /\ record.status \in Final /\ ~record.expired
          /\ record' = [record EXCEPT !.expired = TRUE]
    /\ UNCHANGED <<ids, baseVars, usage, requestVars, poisoned, told, sent>>

(* Slip: only finished rows are cleaned up. *)
SlipCleanup ==
    /\ record # NoRecord
    /\ record.status \in Final /\ record.expired /\ record' = NoRecord
    /\ UNCHANGED <<ids, baseVars, usage, requestVars, poisoned, told, sent, boundVars>>

(* cleanup_chat_idempotency_records, in every maintenance cycle. *)
Cleanup ==
    /\ record # NoRecord
    /\ \/ record.status = "PROCESSING" /\ record.stale /\ Close("OUTCOME_UNKNOWN", 0)
       \/ record.status \in Final /\ record.expired /\ record' = NoRecord
    /\ UNCHANGED <<ids, baseVars, usage, requestVars, poisoned, told, sent, boundVars>>

-----------------------------------------------------------------------------
(* Managers and operators                                                   *)

NoLease == \A p \in Prompts : usage[p] # "HELD"

(* A change of a published entry bumps the version (a trigger, in its
   transaction). *)
ChangeContent ==
    /\ version < MaxVersion
    /\ version' = version + 1
    /\ UNCHANGED <<record, ids, access, consent, usage, requestVars, poisoned, told, sent,
                   boundVars>>

(* PATCH of the knowledge base: consent is not withdrawn while a usage record
   is HELD, and either change invalidates the answers given before. *)
SetConsent ==
    /\ version < MaxVersion
    /\ consent => NoLease
    /\ consent' = ~consent
    /\ version' = version + 1
    /\ UNCHANGED <<record, ids, access, usage, requestVars, poisoned, told, sent, boundVars>>

(* An administrator takes away a grant, a role, its permission or the key, or
   disables the user, guarded by the same leases, or gives it back. *)
SetAccess ==
    /\ access => NoLease
    /\ access' = ~access
    /\ UNCHANGED <<record, ids, version, consent, usage, requestVars, poisoned, told, sent,
                   boundVars>>

(* POST /llm/usage/{id}/reconcile of a hold whose process is gone. *)
ReconcileUsage(p) ==
    /\ usage[p] = "HELD"
    /\ \A r \in Requests : ~(pc[r] \in {"policy", "provider"} /\ op[r] = p)
    /\ usage' = [usage EXCEPT ![p] = "CLOSED"]
    /\ UNCHANGED <<record, ids, baseVars, requestVars, poisoned, told, sent, boundVars>>

(* The audited command that clears the latch, and a restart: all writers are
   stopped and no claim is left PROCESSING. *)
ClearPoison ==
    /\ poisoned /\ \A r \in Requests : pc[r] = "idle"
    /\ record # NoRecord => record.status # "PROCESSING"
    /\ poisoned' = FALSE
    /\ UNCHANGED <<record, ids, baseVars, usage, requestVars, told, sent, boundVars>>

-----------------------------------------------------------------------------
ChatInit ==
    /\ record = NoRecord /\ ids = 0
    /\ version = 1 /\ access = TRUE /\ consent \in BOOLEAN
    /\ usage = [p \in Prompts |-> "none"]
    /\ pc = [r \in Requests |-> "idle"]
    /\ body = [r \in Requests |-> NoBody]
    /\ mine = [r \in Requests |-> 0]
    /\ read = [r \in Requests |-> 0]
    /\ op = [r \in Requests |-> NoPrompt]
    /\ poisoned = FALSE
    /\ told = [i \in Ids |-> "none"]
    /\ sent = [p \in Prompts |-> 0]
    /\ calls = 0 /\ faults = 0

(* The next step of a request in flight. *)
Step(r) ==
    \/ Claim(r) \/ Search(r) \/ Reserve(r) \/ Policy(r) \/ ProviderReturns(r)
    \/ Store(r) \/ Terminalize(r) \/ TerminalizeFails(r)

ChatNext ==
    \/ \E r \in Requests, b \in Bodies : Ask(r, b)
    \/ \E r \in Requests : Step(r) \/ Cancel(r)
    \/ Crash \/ Timer \/ Cleanup
    \/ ChangeContent \/ SetConsent \/ SetAccess \/ ClearPoison
    \/ \E p \in Prompts : ReconcileUsage(p)

ChatSpec == ChatInit /\ [][ChatNext]_chatVars

(* asyncio goes on with a request until it returns, time passes and the
   maintenance loop keeps cleaning.  Clients, managers and operators need not
   act. *)
FairChatSpec ==
    /\ ChatSpec
    /\ \A r \in Requests : WF_chatVars(Step(r))
    /\ WF_chatVars(Timer) /\ WF_chatVars(Cleanup)

-----------------------------------------------------------------------------
(* Types, with the check constraint of the table: a response is kept by
   COMPLETED rows and no others. *)
ChatTypeOK ==
    /\ record \in Records \cup {NoRecord}
    /\ record # NoRecord => (record.status = "COMPLETED" <=> record.answer # 0)
    /\ ids \in 0..MaxCalls
    /\ version \in 1..MaxVersion
    /\ access \in BOOLEAN /\ consent \in BOOLEAN /\ poisoned \in BOOLEAN
    /\ usage \in [Prompts -> UsageStatus \cup {"none"}]
    /\ pc \in [Requests -> Steps]
    /\ body \in [Requests -> Bodies \cup {NoBody}]
    /\ mine \in [Requests -> 0..MaxCalls]
    /\ read \in [Requests -> 0..MaxVersion]
    /\ op \in [Requests -> Prompts \cup {NoPrompt}]
    /\ told \in [Ids -> Outcomes]
    /\ sent \in [Prompts -> Nat]
    /\ calls \in 0..MaxCalls
    /\ faults \in 0..MaxFaults

(* A response that is replayed was computed from the very version the row was
   claimed at, although claim, retrieval and store are separate transactions
   and entries change in between. *)
AnswerMatchesVersion ==
    record # NoRecord /\ record.status = "COMPLETED"
        => record.answer = record.version

(* A client hears an answer only when it is durable, and once any client has
   heard that the outcome is unknown or the content changed, no later request
   with the key hears an answer for that claim: not from a replay, not from the
   handler that was still at work. *)
OutcomeFinal ==
    [][\A i \in Ids :
          /\ told[i] \in {"unknown", "changed"} => told'[i] # "ok"
          /\ told[i] # "ok" /\ told'[i] = "ok" =>
                record' # NoRecord /\ record'.id = i /\ record'.status = "COMPLETED"]_chatVars

(* One idempotency key sends each of its prompts once at most to a provider and
   model, whatever is cancelled, lost or retried, and even after the row has
   expired.  Only a configuration that has changed since sends it again. *)
SentOnce == \A p \in Prompts : sent[p] <= 1

(* Nothing is with the provider once access or consent is revoked, whoever
   revokes it and whenever.  A token version that is raised takes neither away:
   such a request gets no answer, but its prompt may still go out. *)
EgressAuthorized ==
    \A r \in Requests : pc[r] = "provider" => access /\ consent

(* The latch, which stops all chat until an operator acts, is not set as long
   as nothing fails: no ordinary race makes a claim disappear. *)
PoisonOnlyByFault == poisoned => faults > 0

(* The replay ledger can be believed: chat_idempotency.py's rows are well
   formed, what complete_chat_request stored was read at the version of the
   claim, and no ordinary race poisons the deployment. *)
ReplaySound == ChatTypeOK /\ AnswerMatchesVersion /\ PoisonOnlyByFault

(* GovernedLlmExecutor.complete_chat sends a prompt of a key to a provider and
   model once at most, and none while access or consent is revoked. *)
EgressSound == SentOnce /\ EgressAuthorized

(* No claim stays PROCESSING, so the key is usable again. *)
ProcessingSettles ==
    \A i \in Ids :
        record # NoRecord /\ record.id = i /\ record.status = "PROCESSING"
            ~> ~(record # NoRecord /\ record.id = i /\ record.status = "PROCESSING")
==============================================================================
