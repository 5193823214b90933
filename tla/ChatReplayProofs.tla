-------------------------- MODULE ChatReplayProofs ---------------------------
(***************************************************************************)
(* What the replay ledger of chat guarantees for every number of requests,  *)
(* bodies, content versions and faults.                                     *)
(***************************************************************************)
EXTENDS ChatReplay, FiniteSetTheorems, TLAPS

(* The steps of a request with citations in hand, of one whose store may have
   happened, and of one with a hold; the final states without an answer. *)
Working == {"reserve", "policy", "provider", "store"}
Settling == {"verify", "silent"}
Calling == {"policy", "provider"}
Governed == {"reserve"} \cup Calling
Undone == {"OUTCOME_UNKNOWN", "INVALIDATED"}

(* A request claims once: record ids are covered by the requests issued, and a
   request in flight has a body. *)
Claiming == {r \in Requests : pc[r] = "claim"}
CountInv ==
    /\ \A r \in Requests : pc[r] # "idle" => body[r] \in Bodies
    /\ IsFiniteSet(Claiming) /\ ids + Cardinality(Claiming) <= calls

(* Why the ledger can be believed.  A handler owns the record id it was issued
   and nobody else has it; versions only grow between claim, retrieval and
   store; only the handler of a row completes it, and is then past the point
   where it would report a failure; what a client was told of a claim that gave
   no answer is what the row says for good. *)
LedgerInv ==
    /\ \A r \in Requests : pc[r] \in Executing => mine[r] \in 1..ids
    /\ \A r, q \in Requests :
          pc[r] \in Executing /\ pc[q] \in Executing /\ mine[r] = mine[q] => r = q
    /\ record # NoRecord => record.id <= ids /\ record.version <= version
    /\ \A r \in Requests : pc[r] \in Working =>
          read[r] <= version /\ (Mine(r) => record.version <= read[r])
    /\ \A r \in Requests :
          pc[r] \in Executing /\ Mine(r) /\ record.status = "COMPLETED" => pc[r] \in Settling
    /\ AnswerMatchesVersion
    /\ \A i \in Ids : i > ids => told[i] = "none"
    /\ \A i \in Ids : told[i] \in {"unknown", "changed"} /\ record # NoRecord /\ record.id = i
          => record.status \in Undone

(* As long as nothing failed, no row of a handler at work disappears. *)
FaultInv ==
    faults = 0 =>
        /\ poisoned = FALSE
        /\ \A r \in Requests : pc[r] \in Executing => Mine(r) /\ record.expired = FALSE

(* A request that makes a governed call has settled on its model. *)
PromptInv == \A r \in Requests : pc[r] \in Governed => op[r] \in Prompts

(* Why a prompt is sent once, and not after a revocation: the hold under an
   idempotency hash belongs to one request, is made once, and stays HELD until that
   request closes it; revocations wait for it. *)
UsageInv ==
    /\ \A r \in Requests : pc[r] \in Calling => usage[op[r]] = "HELD"
    /\ \A r, q \in Requests : pc[r] \in Calling /\ pc[q] \in Calling /\ op[r] = op[q] => r = q
    /\ \A o \in Prompts : usage[o] = "none" => sent[o] = 0
    /\ \A r \in Requests : pc[r] = "policy" => sent[op[r]] = 0
    /\ SentOnce
    /\ \A r \in Requests : pc[r] = "provider" => access = TRUE /\ consent = TRUE

ChatInv == ChatTypeOK /\ CountInv /\ LedgerInv /\ FaultInv /\ PromptInv /\ UsageInv

-----------------------------------------------------------------------------
(* What a step does to one request. *)

(* Moving on changes the step of one request. *)
LEMMA GotoFrame ==
    ASSUME ChatTypeOK, NEW r \in Requests, NEW s, Goto(r, s)
    PROVE  /\ body' = body /\ mine' = mine /\ read' = read /\ op' = op
           /\ pc'[r] = s /\ \A q \in Requests \ {r} : pc'[q] = pc[q]
BY DEF Goto, ChatTypeOK

(* Moving on keeps the types. *)
LEMMA GotoType ==
    ASSUME ChatTypeOK, NEW r \in Requests, NEW s \in Steps, Goto(r, s)
    PROVE  pc' \in [Requests -> Steps]
BY DEF Goto, ChatTypeOK

(* Returning frees one slot. *)
LEMMA ReturnFrame ==
    ASSUME ChatTypeOK, NEW r \in Requests, Return(r)
    PROVE  /\ pc'[r] = "idle"
           /\ \A q \in Requests \ {r} :
                 /\ pc'[q] = pc[q] /\ body'[q] = body[q] /\ mine'[q] = mine[q]
                 /\ read'[q] = read[q] /\ op'[q] = op[q]
BY DEF Return, ChatTypeOK

(* Returning keeps the types. *)
LEMMA ReturnType ==
    ASSUME ChatTypeOK, NEW r \in Requests, Return(r)
    PROVE  /\ pc' \in [Requests -> Steps]
           /\ body' \in [Requests -> Bodies \cup {NoBody}]
           /\ mine' \in [Requests -> 0..MaxCalls]
           /\ read' \in [Requests -> 0..MaxVersion]
           /\ op' \in [Requests -> Prompts \cup {NoPrompt}]
BY ChatAssumption DEF Return, ChatTypeOK, Steps

(* Closing a row keeps its identity, its body and its version. *)
LEMMA CloseFrame ==
    ASSUME record \in Records, NEW s \in Final, NEW a \in 0..MaxVersion, Close(s, a)
    PROVE  /\ record' \in Records /\ record' # NoRecord
           /\ record'.id = record.id /\ record'.version = record.version
           /\ record'.status = s /\ record'.answer = a /\ record'.expired = FALSE
<1>1. record' \in Records
  BY DEF Close, Records
<1>2. /\ record'.id = record.id /\ record'.version = record.version
      /\ record'.status = s /\ record'.answer = a /\ record'.expired = FALSE
  BY DEF Close, Records
<1> QED
  BY <1>1, <1>2, RecordAssumption

-----------------------------------------------------------------------------
(* What every step but the insertion of a claim does to the ledger. *)

(* Requests go on towards the store and to their end, and read once. *)
RequestsMove ==
    \A v \in Requests : pc'[v] \in Executing =>
        /\ pc[v] \in Executing /\ mine'[v] = mine[v]
        /\ pc'[v] \in Working => \/ pc[v] \in Working /\ read'[v] = read[v]
                                 \/ read'[v] = version
        /\ pc[v] \in Settling => pc'[v] \in Settling

(* The row stays, is deleted, ages, is closed without an answer, or is completed
   by its handler with what was read at the version of the claim. *)
RecordMoves ==
    \/ record' = record
    \/ record' = NoRecord
    \/ /\ record # NoRecord /\ record' \in Records
       /\ record'.id = record.id /\ record'.version = record.version
       /\ \/ record'.status = record.status /\ record'.answer = record.answer
          \/ record'.status \in Undone /\ record'.answer = 0
          \/ /\ record.status = "PROCESSING" /\ record'.status = "COMPLETED"
             /\ record'.answer = record.version
             /\ \A v \in Requests :
                   pc'[v] \in Executing /\ mine'[v] = record.id => pc'[v] \in Settling

(* A client is told what the row says. *)
ToldMoves ==
    \A i \in Ids :
        \/ told'[i] = told[i]
        \/ /\ record # NoRecord /\ record.id = i /\ record' # NoRecord /\ record'.id = i
           /\ \/ /\ told'[i] = "ok" /\ record.status \notin Undone
                 /\ record'.status = "COMPLETED"
              \/ told'[i] \in {"unknown", "changed"} /\ record'.status \in Undone

LedgerMove ==
    /\ ids' = ids /\ version <= version' /\ version' \in 1..MaxVersion
    /\ RequestsMove /\ RecordMoves /\ ToldMoves

(* A request that goes on or returns. *)
LEMMA GotoMoves ==
    ASSUME ChatTypeOK, NEW r \in Requests, NEW s, Goto(r, s),
           s \in Executing => pc[r] \in Executing,
           s \in Working => pc[r] \in Working,
           pc[r] \in Settling /\ s \in Executing => s \in Settling
    PROVE  RequestsMove
BY GotoFrame DEF RequestsMove

(* A request that returns leaves the others alone. *)
LEMMA ReturnMoves ==
    ASSUME ChatTypeOK, NEW r \in Requests, Return(r)
    PROVE  RequestsMove
<1>1. "idle" \notin Executing
  BY DEF Executing, Terminalizing
<1> QED
  BY <1>1, ReturnFrame DEF RequestsMove

(* A step that closes the row without an answer. *)
LEMMA CloseMoves ==
    ASSUME ChatTypeOK, record # NoRecord, NEW s \in Undone, Close(s, 0)
    PROVE  /\ RecordMoves /\ record' # NoRecord /\ record'.id = record.id
           /\ record'.status = s
<1>1. record \in Records /\ s \in Final /\ 0 \in 0..MaxVersion
  BY ChatAssumption DEF ChatTypeOK, Undone, Final
<1>2. /\ record' \in Records /\ record' # NoRecord
      /\ record'.id = record.id /\ record'.version = record.version
      /\ record'.status = s /\ record'.answer = 0
  BY <1>1, CloseFrame
<1> QED
  BY <1>2 DEF RecordMoves

(* A client is told the outcome of the row. *)
LEMMA TellMoves ==
    ASSUME ChatTypeOK, NEW r, NEW i \in Ids, NEW o, Tell(r, i, o),
           record # NoRecord, record.id = i, record' # NoRecord, record'.id = i,
           \/ o = "ok" /\ record.status \notin Undone /\ record'.status = "COMPLETED"
           \/ o \in {"unknown", "changed"} /\ record'.status \in Undone
    PROVE  ToldMoves
BY DEF Tell, ToldMoves, ChatTypeOK

(* Nobody is told anything. *)
LEMMA SilentMoves == ASSUME told' = told PROVE ToldMoves
BY DEF ToldMoves

(* A move keeps the row well formed. *)
LEMMA RecordType ==
    ASSUME ChatTypeOK, RecordMoves
    PROVE  /\ record' \in Records \cup {NoRecord}
           /\ record' # NoRecord => (record'.status = "COMPLETED" <=> record'.answer # 0)
<1>1. record # NoRecord => record.version \in 1..MaxVersion
  BY DEF ChatTypeOK, Records
<1> QED
  BY <1>1, RecordAssumption DEF ChatTypeOK, RecordMoves, Undone

(* What such steps preserve. *)
LEMMA LedgerKept ==
    ASSUME ChatTypeOK, ChatTypeOK', LedgerInv, LedgerMove
    PROVE  LedgerInv'
<1>e. \A s : s \in Working => s \in Executing
  BY DEF Working, Executing
<1>t. /\ ids \in Nat /\ version \in Nat /\ version' \in Nat
      /\ record # NoRecord => record.id \in Nat /\ record.version \in Nat /\ record.id \in Ids
      /\ record' # NoRecord => record'.id \in Nat /\ record'.version \in Nat
      /\ \A v \in Requests : read[v] \in Nat /\ read'[v] \in Nat /\ mine[v] \in Nat
  BY DEF ChatTypeOK, Records, Ids
<1>i. record' # NoRecord =>
         record # NoRecord /\ record'.id = record.id /\ record'.version = record.version
  BY DEF LedgerMove, RecordMoves
<1>m. \A v \in Requests : pc'[v] \in Executing /\ Mine(v)' =>
         pc[v] \in Executing /\ Mine(v) /\ mine'[v] = record.id
  BY <1>i DEF LedgerMove, RequestsMove, Mine
<1>1. \A r \in Requests : pc'[r] \in Executing => mine'[r] \in 1..ids'
  BY DEF LedgerInv, LedgerMove, RequestsMove
<1>2. \A r, q \in Requests :
         pc'[r] \in Executing /\ pc'[q] \in Executing /\ mine'[r] = mine'[q] => r = q
  BY DEF LedgerInv, LedgerMove, RequestsMove
<1>3. record' # NoRecord => record'.id <= ids' /\ record'.version <= version'
  BY <1>t, <1>i DEF LedgerInv, LedgerMove
<1>4. ASSUME NEW r \in Requests, pc'[r] \in Working
      PROVE  read'[r] <= version' /\ (Mine(r)' => record'.version <= read'[r])
  <2>1. pc'[r] \in Executing
    BY <1>4, <1>e
  <2>2. CASE pc[r] \in Working /\ read'[r] = read[r]
    <3>1. read[r] <= version /\ (Mine(r) => record.version <= read[r])
      BY <2>2 DEF LedgerInv
    <3>2. Mine(r)' => record' # NoRecord /\ Mine(r)
      BY <1>m, <2>1 DEF Mine
    <3> QED
      BY <1>t, <1>i, <2>2, <3>1, <3>2 DEF LedgerMove
  <2>3. CASE read'[r] = version
    BY <1>t, <1>i, <2>3 DEF LedgerInv, LedgerMove, Mine
  <2> QED
    BY <1>4, <2>1, <2>2, <2>3 DEF LedgerMove, RequestsMove
<1>5. ASSUME NEW r \in Requests, pc'[r] \in Executing, Mine(r)', record'.status = "COMPLETED"
      PROVE  pc'[r] \in Settling
  <2>1. pc[r] \in Executing /\ Mine(r) /\ mine'[r] = record.id /\ record' # NoRecord
    BY <1>m, <1>5 DEF Mine
  <2>2. CASE record.status = "COMPLETED"
    BY <1>5, <2>1, <2>2 DEF LedgerInv, LedgerMove, RequestsMove
  <2>3. CASE record.status # "COMPLETED"
    BY <1>5, <2>1, <2>3 DEF LedgerMove, RecordMoves, Undone
  <2> QED
    BY <2>2, <2>3
<1>6. AnswerMatchesVersion'
  BY <1>i DEF LedgerInv, AnswerMatchesVersion, LedgerMove, RecordMoves, Undone
<1>7. ASSUME NEW i \in Ids, i > ids' PROVE told'[i] = "none"
  <2>1. i \in Nat /\ ids' = ids
    BY DEF Ids, LedgerMove
  <2>2. ~(record # NoRecord /\ record.id = i)
    BY <1>t, <1>7, <2>1 DEF LedgerInv
  <2> QED
    BY <1>7, <2>1, <2>2 DEF LedgerInv, LedgerMove, ToldMoves
<1>8. ASSUME NEW i \in Ids, told'[i] \in {"unknown", "changed"}, record' # NoRecord,
             record'.id = i
      PROVE  record'.status \in Undone
  <2>1. CASE told'[i] # told[i]
    BY <1>8, <2>1 DEF LedgerMove, ToldMoves
  <2>2. CASE told'[i] = told[i]
    <3>1. record # NoRecord /\ record.id = i /\ record.status \in Undone
      BY <1>i, <1>8, <2>2 DEF LedgerInv
    <3> QED
      BY <1>8, <3>1 DEF LedgerMove, RecordMoves, Undone
  <2> QED
    BY <2>1, <2>2
<1> QED
  BY <1>1, <1>2, <1>3, <1>4, <1>5, <1>6, <1>7, <1>8 DEF LedgerInv

(* Every step but the insertion of a claim moves the ledger as described. *)
LEMMA LedgerSteps ==
    ASSUME ChatInv, [ChatNext]_chatVars, ~\E r \in Requests : ClaimInsert(r)
    PROVE  LedgerMove
<1> USE DEF ChatInv
<1>t. /\ version \in 1..MaxVersion /\ version <= version
      /\ record # NoRecord => record \in Records /\ record.id \in Ids
      /\ record # NoRecord => record.status \in Final \cup {"PROCESSING"}
  BY DEF ChatTypeOK, Records
<1>s. /\ Working \subseteq Executing /\ Settling \subseteq Executing
      /\ "idle" \notin Executing /\ "claim" \notin Executing
      /\ Working \cap Settling = {}
      /\ {"abandon", "search"} \subseteq Executing
      /\ Terminalizing \subseteq Executing /\ Terminalizing \cap Working = {}
  BY DEF Working, Settling, Executing, Terminalizing
<1>k. ASSUME version' = version, ids' = ids, RequestsMove, record' = record, told' = told
      PROVE  LedgerMove
  BY <1>k, <1>t, SilentMoves DEF LedgerMove, RecordMoves
<1>c. ASSUME version' = version, ids' = ids, NEW r \in Requests, NEW o, NEW s \in Undone,
             record # NoRecord, Close(s, 0), Tell(r, record.id, o),
             o \in {"unknown", "changed"}
      PROVE  LedgerMove
  <2>1. RecordMoves /\ record' # NoRecord /\ record'.id = record.id /\ record'.status = s
    BY <1>c, CloseMoves
  <2>2. ToldMoves
    BY <1>c, <1>t, <2>1, TellMoves
  <2>3. RequestsMove
    BY <1>c, ReturnMoves DEF Tell
  <2> QED
    BY <1>c, <1>t, <2>1, <2>2, <2>3 DEF LedgerMove
<1>r. ASSUME version' = version, ids' = ids, NEW r \in Requests, NEW o, record # NoRecord,
             record' = record, Tell(r, record.id, o),
             \/ o = "ok" /\ record.status = "COMPLETED"
             \/ o \in {"unknown", "changed"} /\ record.status \in Undone
      PROVE  LedgerMove
  <2>1. "COMPLETED" \notin Undone
    BY DEF Undone
  <2>2. ToldMoves
    BY <1>r, <1>t, <2>1, TellMoves
  <2>3. RequestsMove
    BY <1>r, ReturnMoves DEF Tell
  <2> QED
    BY <1>r, <1>t, <2>2, <2>3 DEF LedgerMove, RecordMoves
<1>d. ASSUME version' = version, ids' = ids, RequestsMove, record' = NoRecord, told' = told
      PROVE  LedgerMove
  BY <1>d, <1>t, SilentMoves DEF LedgerMove, RecordMoves
<1>q. ASSUME version' = version, ids' = ids, RequestsMove, record # NoRecord,
             NEW s \in Undone, Close(s, 0), told' = told
      PROVE  LedgerMove
  BY <1>q, <1>t, CloseMoves, SilentMoves DEF LedgerMove
<1>u. ASSUME requestVars' = requestVars PROVE RequestsMove
  BY <1>u DEF requestVars, RequestsMove
<1>x. Undone = {"OUTCOME_UNKNOWN", "INVALIDATED"}
  BY DEF Undone
<1>1. ASSUME NEW r \in Requests, NEW b \in Bodies, Ask(r, b) PROVE LedgerMove
  <2>1. RequestsMove
    BY <1>1, <1>s DEF Ask, RequestsMove, ChatTypeOK
  <2> QED
    BY <1>1, <1>k, <2>1 DEF Ask, baseVars
<1>2. ASSUME NEW r \in Requests, Claim(r) PROVE LedgerMove
  <2>1. CASE ClaimDenied(r) \/ ClaimConflict(r)
    BY <1>k, <2>1, ReturnMoves DEF ClaimDenied, ClaimConflict, baseVars
  <2>2. CASE ClaimExpired(r)
    BY <1>d, <1>u, <2>2, ReturnMoves DEF ClaimExpired, baseVars
  <2>3. CASE ClaimClosed(r)
    BY <1>r, <1>x, <2>3 DEF ClaimClosed, Current, Found, baseVars
  <2>4. CASE ClaimChanged(r)
    BY <1>c, <1>x, <2>4 DEF ClaimChanged, Current, Found, baseVars
  <2>5. CASE ClaimReplay(r)
    <3>1. record # NoRecord /\ version' = version /\ ids' = ids /\ record.status = "COMPLETED"
      BY <2>5 DEF ClaimReplay, Current, Found, baseVars
    <3>2. CASE Tell(r, record.id, "ok") /\ record' = record
      BY <1>r, <3>1, <3>2
    <3>3. CASE Close("OUTCOME_UNKNOWN", 0) /\ Tell(r, record.id, "unknown")
      BY <1>c, <1>x, <3>1, <3>3
    <3> QED
      BY <2>5, <3>2, <3>3 DEF ClaimReplay
  <2>6. CASE ClaimProcessing(r)
    <3>1. record # NoRecord /\ version' = version /\ ids' = ids
      BY <2>6 DEF ClaimProcessing, Current, Found, baseVars
    <3>2. CASE Close("OUTCOME_UNKNOWN", 0) /\ Tell(r, record.id, "unknown")
      BY <1>c, <1>x, <3>1, <3>2
    <3>3. CASE Return(r) /\ record' = record /\ told' = told
      BY <1>k, <3>1, <3>3, ReturnMoves
    <3> QED
      BY <2>6, <3>2, <3>3 DEF ClaimProcessing
  <2> QED
    BY <1>2, <2>1, <2>2, <2>3, <2>4, <2>5, <2>6 DEF Claim
<1>3. ASSUME NEW r \in Requests, Search(r) PROVE LedgerMove
  <2>1. RequestsMove
    <3>1. CASE Goto(r, "abandon")
      BY <1>3, <1>s, <3>1, GotoMoves DEF Search, Settling, Working
    <3>2. CASE read' = [read EXCEPT ![r] = version] /\ mine' = mine
               /\ \E s \in {"store", "reserve"} : pc' = [pc EXCEPT ![r] = s]
      BY <1>3, <1>s, <3>2 DEF Search, RequestsMove, ChatTypeOK, Settling
    <3> QED
      BY <1>3, <3>1, <3>2 DEF Search
  <2> QED
    BY <1>3, <1>k, <2>1 DEF Search, baseVars
<1>4. ASSUME NEW r \in Requests, Reserve(r) \/ Policy(r) PROVE LedgerMove
  <2>1. PICK s \in {"abandon", "store", "policy", "provider"} : Goto(r, s)
    BY <1>4 DEF Reserve, Policy, Settle
  <2>2. pc[r] \in Working /\ pc[r] \notin Settling
    BY <1>4 DEF Reserve, Policy, Working, Settling
  <2>3. RequestsMove
    BY <1>s, <2>1, <2>2, GotoMoves
  <2> QED
    BY <1>4, <1>k, <2>3 DEF Reserve, Policy, baseVars
<1>5. ASSUME NEW r \in Requests, ProviderReturns(r) PROVE LedgerMove
  <2>1. pc[r] \in Working /\ pc[r] \notin Settling
    BY <1>5 DEF ProviderReturns, Working, Settling
  <2>2. RequestsMove
    <3>1. CASE \E s \in {"store", "abandon"} : Goto(r, s)
      BY <1>s, <2>1, <3>1, GotoMoves
    <3>2. CASE mine' = mine /\ read' = read /\ pc' = [pc EXCEPT ![r] = "reserve"]
      BY <1>s, <2>1, <3>2 DEF RequestsMove, ChatTypeOK
    <3> QED
      BY <1>5, <3>1, <3>2 DEF ProviderReturns, Settle
  <2> QED
    BY <1>5, <1>k, <2>2 DEF ProviderReturns, baseVars
<1>6. ASSUME NEW r \in Requests, Store(r) PROVE LedgerMove
  <2>1. pc[r] = "store" /\ pc[r] \in Working /\ pc[r] \in Executing /\ pc[r] \notin Settling
    BY <1>6, <1>s DEF Store, StoreFails, StoreChanged, StoreCompleted, Working, Settling
  <2>2. version' = version /\ ids' = ids
    BY <1>6 DEF Store, StoreFails, StoreChanged, StoreCompleted, baseVars
  <2>3. CASE StoreFails(r)
    <3>1. RequestsMove
      BY <1>s, <2>1, <2>3, GotoMoves DEF StoreFails, Settling, Working
    <3> QED
      BY <1>k, <2>2, <2>3, <3>1 DEF StoreFails
  <2>4. CASE StoreChanged(r)
    <3>1. record # NoRecord /\ record.id = mine[r] /\ Tell(r, record.id, "changed")
      BY <2>4 DEF StoreChanged, Mine
    <3>2. CASE record.status = "INVALIDATED" /\ record' = record
      BY <1>r, <1>x, <2>2, <3>1, <3>2
    <3>3. CASE Close("INVALIDATED", 0)
      BY <1>c, <1>x, <2>2, <3>1, <3>3
    <3> QED
      BY <2>4, <3>2, <3>3 DEF StoreChanged
  <2>5. CASE StoreCompleted(r)
    <3>1. /\ record # NoRecord /\ record.id = mine[r] /\ record.status = "PROCESSING"
          /\ record.version = version /\ Close("COMPLETED", read[r])
      BY <2>5 DEF StoreCompleted, Storable, Mine
    <3>2. /\ read[r] \in 0..MaxVersion /\ read[r] \in Nat /\ record \in Records
          /\ record.version \in 1..MaxVersion
      BY <1>t, <3>1 DEF ChatTypeOK, Records
    <3>3. read[r] = record.version
      BY <2>1, <3>1, <3>2 DEF LedgerInv, Mine
    <3>4. /\ record' \in Records /\ record' # NoRecord
          /\ record'.id = record.id /\ record'.version = record.version
          /\ record'.status = "COMPLETED" /\ record'.answer = record.version
      BY <3>1, <3>2, <3>3, CloseFrame DEF Final
    <3>5. ASSUME RequestsMove, pc'[r] \in {"idle", "verify"} PROVE RecordMoves
      <4>1. ASSUME NEW v \in Requests, pc'[v] \in Executing, mine'[v] = record.id
            PROVE  pc'[v] \in Settling
        <5>1. pc[v] \in Executing /\ mine[v] = mine[r]
          BY <3>1, <3>5, <4>1 DEF RequestsMove
        <5>2. v = r
          BY <2>1, <5>1 DEF LedgerInv
        <5> QED
          BY <1>s, <3>5, <4>1, <5>2 DEF Settling
      <4> QED
        BY <3>1, <3>4, <4>1 DEF RecordMoves
    <3>6. CASE Tell(r, mine[r], "ok")
      <4>1. RequestsMove /\ pc'[r] = "idle"
        BY <3>6, ReturnMoves, ReturnFrame DEF Tell
      <4>2. "PROCESSING" \notin Undone
        BY <1>x
      <4>3. ToldMoves
        BY <1>t, <3>1, <3>4, <3>6, <4>2, TellMoves
      <4> QED
        BY <1>t, <2>2, <3>5, <4>1, <4>3 DEF LedgerMove
    <3>7. CASE Goto(r, "verify") /\ told' = told
      <4>1. RequestsMove
        BY <1>s, <2>1, <3>7, GotoMoves DEF Settling, Working
      <4>2. pc'[r] = "verify"
        BY <3>7, GotoFrame
      <4> QED
        BY <1>t, <2>2, <3>5, <3>7, <4>1, <4>2, SilentMoves DEF LedgerMove
    <3> QED
      BY <2>5, <3>6, <3>7 DEF StoreCompleted
  <2> QED
    BY <1>6, <2>3, <2>4, <2>5 DEF Store
<1>7. ASSUME NEW r \in Requests, Terminalize(r) PROVE LedgerMove
  <2>1. /\ version' = version /\ ids' = ids /\ record # NoRecord /\ record.id = mine[r]
        /\ pc[r] \in {"abandon", "verify", "silent"}
    BY <1>7 DEF Terminalize, Mine, baseVars, Terminalizing
  <2>2. CASE record.status = "PROCESSING"
    <3>1. Close("OUTCOME_UNKNOWN", 0) /\ Report(r, "OUTCOME_UNKNOWN")
      BY <1>7, <2>2 DEF Terminalize
    <3>2. \/ Return(r) /\ told' = told
          \/ Tell(r, record.id, "unknown")
      BY <2>1, <3>1 DEF Report
    <3> QED
      BY <1>c, <1>q, <1>x, <2>1, <3>1, <3>2, ReturnMoves
  <2>3. CASE record.status # "PROCESSING"
    <3>1. record' = record /\ Report(r, record.status) /\ record.status \in Final
      BY <1>7, <1>t, <2>1, <2>3 DEF Terminalize
    <3>2. CASE pc[r] = "silent"
      BY <1>k, <2>1, <3>1, <3>2, ReturnMoves DEF Report
    <3>3. CASE pc[r] = "abandon"
      <4>1. record.status # "COMPLETED"
        BY <1>s, <2>1, <3>3 DEF LedgerInv, Mine, Settling
      <4>2. record.status \in Undone
        BY <1>x, <3>1, <4>1 DEF Final
      <4> QED
        BY <1>r, <2>1, <3>1, <3>3, <4>2 DEF Report
    <3>4. CASE pc[r] = "verify"
      <4>1. \/ record.status = "COMPLETED" /\ Tell(r, record.id, "ok")
            \/ record.status = "INVALIDATED" /\ Tell(r, record.id, "changed")
            \/ record.status = "OUTCOME_UNKNOWN" /\ Tell(r, record.id, "unknown")
        BY <2>1, <3>1, <3>4 DEF Report, Final
      <4> QED
        BY <1>r, <1>x, <2>1, <3>1, <4>1
    <3> QED
      BY <2>1, <3>2, <3>3, <3>4
  <2> QED
    BY <2>2, <2>3
<1>8. ASSUME NEW r \in Requests, TerminalizeFails(r) PROVE LedgerMove
  <2>1. /\ version' = version /\ ids' = ids /\ told' = told
        /\ pc[r] \in {"abandon", "verify", "silent"}
    BY <1>8 DEF TerminalizeFails, baseVars, Terminalizing
  <2>2. Return(r) => RequestsMove
    BY ReturnMoves
  <2>3. Goto(r, "silent") => RequestsMove
    BY <1>s, <2>1, GotoMoves DEF Settling, Working, Executing, Terminalizing
  <2>4. \/ record' = record /\ (Return(r) \/ Goto(r, "silent"))
        \/ record # NoRecord /\ Return(r) /\ Close("OUTCOME_UNKNOWN", 0)
    BY <1>8 DEF TerminalizeFails, Mine
  <2> QED
    BY <1>k, <1>q, <1>x, <2>1, <2>2, <2>3, <2>4
<1>9. ASSUME NEW r \in Requests, Cancel(r) PROVE LedgerMove
  <2>1. version' = version /\ ids' = ids /\ told' = told
    BY <1>9 DEF Cancel, baseVars
  <2>2. CASE Return(r) /\ record' = record
    BY <1>k, <2>1, <2>2, ReturnMoves
  <2>3. ASSUME pc[r] \in Executing, Goto(r, "silent") PROVE RequestsMove /\ pc'[r] = "silent"
    BY <1>s, <2>3, GotoMoves, GotoFrame DEF Settling, Working
  <2>4. CASE pc[r] \in Executing /\ Goto(r, "silent") /\ record' = record
    BY <1>k, <2>1, <2>3, <2>4
  <2>5. CASE /\ pc[r] = "store" /\ Storable(r) /\ record.version = version
             /\ Close("COMPLETED", read[r]) /\ Goto(r, "silent")
    <3>1. /\ record # NoRecord /\ record.id = mine[r] /\ record.status = "PROCESSING"
          /\ pc[r] \in Working /\ pc[r] \in Executing
      BY <1>s, <2>5 DEF Storable, Mine, Working
    <3>2. /\ read[r] \in 0..MaxVersion /\ read[r] \in Nat /\ record \in Records
          /\ record.version \in 1..MaxVersion
      BY <1>t, <3>1 DEF ChatTypeOK, Records
    <3>3. read[r] = record.version
      BY <2>5, <3>1, <3>2 DEF LedgerInv, Mine
    <3>4. /\ record' \in Records /\ record' # NoRecord
          /\ record'.id = record.id /\ record'.version = record.version
          /\ record'.status = "COMPLETED" /\ record'.answer = record.version
      BY <2>5, <3>2, <3>3, CloseFrame DEF Final
    <3>5. RequestsMove /\ pc'[r] = "silent"
      BY <2>3, <2>5, <3>1
    <3>6. ASSUME NEW v \in Requests, pc'[v] \in Executing, mine'[v] = record.id
          PROVE  pc'[v] \in Settling
      <4>1. pc[v] \in Executing /\ mine[v] = mine[r]
        BY <3>1, <3>5, <3>6 DEF RequestsMove
      <4>2. v = r
        BY <3>1, <4>1 DEF LedgerInv
      <4> QED
        BY <3>5, <4>2 DEF Settling
    <3>7. RecordMoves
      BY <3>1, <3>4, <3>6 DEF RecordMoves
    <3> QED
      BY <1>t, <2>1, <3>5, <3>7, SilentMoves DEF LedgerMove
  <2>6. \/ Return(r) /\ record' = record
        \/ pc[r] \in Executing /\ Goto(r, "silent") /\ record' = record
        \/ /\ pc[r] = "store" /\ Storable(r) /\ record.version = version
           /\ Close("COMPLETED", read[r]) /\ Goto(r, "silent")
    BY <1>9 DEF Cancel, Settle, Executing, Terminalizing
  <2> QED
    BY <2>2, <2>4, <2>5, <2>6
<1>10. CASE Crash
  <2>1. RequestsMove
    BY <1>10, <1>s DEF Crash, RequestsMove
  <2> QED
    BY <1>10, <1>k, <2>1 DEF Crash, baseVars
<1>11. CASE Timer
  <2>1. /\ version' = version /\ ids' = ids /\ told' = told /\ record # NoRecord
        /\ requestVars' = requestVars
    BY <1>11 DEF Timer, baseVars
  <2>2. \/ record' = [record EXCEPT !.stale = TRUE]
        \/ record' = [record EXCEPT !.expired = TRUE]
    BY <1>11 DEF Timer
  <2>3. /\ record' \in Records /\ record'.id = record.id /\ record'.version = record.version
        /\ record'.status = record.status /\ record'.answer = record.answer
    BY <1>t, <2>1, <2>2 DEF Records
  <2>4. RecordMoves
    BY <2>1, <2>3 DEF RecordMoves
  <2> QED
    BY <1>t, <1>u, <2>1, <2>4, SilentMoves DEF LedgerMove
<1>12. CASE Cleanup
  BY <1>12, <1>d, <1>q, <1>u, <1>x DEF Cleanup, baseVars
<1>13. CASE ChangeContent \/ SetConsent
  <2>1. /\ ids' = ids /\ told' = told /\ record' = record /\ requestVars' = requestVars
        /\ version < MaxVersion /\ version' = version + 1
    BY <1>13 DEF ChangeContent, SetConsent
  <2>2. version <= version' /\ version' \in 1..MaxVersion
    BY <1>t, <2>1, ChatAssumption
  <2> QED
    BY <1>u, <2>1, <2>2, SilentMoves DEF LedgerMove, RecordMoves
<1>14. CASE SetAccess \/ ClearPoison \/ \E o \in Prompts : ReconcileUsage(o)
  BY <1>14, <1>k, <1>u DEF SetAccess, ClearPoison, ReconcileUsage, baseVars
<1>15. CASE UNCHANGED chatVars
  BY <1>15, <1>k, <1>u DEF chatVars, baseVars
<1> QED
  BY <1>1, <1>2, <1>3, <1>4, <1>5, <1>6, <1>7, <1>8, <1>9, <1>10, <1>11, <1>12, <1>13,
     <1>14, <1>15 DEF ChatNext, Step

-----------------------------------------------------------------------------
(* Types. *)
RequestTypes ==
    /\ pc \in [Requests -> Steps]
    /\ body \in [Requests -> Bodies \cup {NoBody}]
    /\ mine \in [Requests -> 0..MaxCalls]
    /\ read \in [Requests -> 0..MaxVersion]
    /\ op \in [Requests -> Prompts \cup {NoPrompt}]

(* The slots of the requests stay well typed. *)
LEMMA RequestType ==
    ASSUME ChatInv, [ChatNext]_chatVars, ids' \in 0..MaxCalls
    PROVE  RequestTypes'
<1> USE DEF ChatInv
<1>s. /\ {"idle", "claim", "search", "reserve", "policy", "provider", "store"} \subseteq Steps
      /\ {"abandon", "verify", "silent"} \subseteq Steps
  BY DEF Steps, Executing, Terminalizing
<1>p. ASSUME NEW m \in Models PROVE {<<"answer", m>>, <<"review", m>>} \subseteq Prompts
  BY DEF Prompts, Operations
<1>t. RequestTypes /\ version \in 0..MaxVersion
  BY ChatAssumption DEF ChatTypeOK, RequestTypes
<1>g. ASSUME NEW r \in Requests, NEW s \in Steps, Goto(r, s) PROVE RequestTypes'
  BY <1>g, <1>t, GotoType, GotoFrame DEF RequestTypes
<1>r. ASSUME NEW r \in Requests, Return(r) PROVE RequestTypes'
  BY <1>r, ReturnType DEF RequestTypes
<1>u. ASSUME requestVars' = requestVars PROVE RequestTypes'
  BY <1>u, <1>t DEF requestVars, RequestTypes
<1>1. ASSUME NEW r \in Requests, NEW b \in Bodies, Ask(r, b) PROVE RequestTypes'
  BY <1>1, <1>s, <1>t DEF Ask, RequestTypes
<1>2. ASSUME NEW r \in Requests, ClaimInsert(r) PROVE RequestTypes'
  BY <1>2, <1>s, <1>t DEF ClaimInsert, RequestTypes
<1>3. ASSUME NEW r \in Requests,
             \/ ClaimDenied(r) \/ ClaimConflict(r) \/ ClaimExpired(r) \/ ClaimClosed(r)
             \/ ClaimChanged(r) \/ ClaimReplay(r) \/ ClaimProcessing(r)
      PROVE  RequestTypes'
  <2>1. Return(r) \/ requestVars' = requestVars
    BY <1>3 DEF ClaimDenied, ClaimConflict, ClaimExpired, ClaimClosed, ClaimChanged,
       ClaimReplay, ClaimProcessing, Tell
  <2> QED
    BY <1>r, <1>u, <2>1
<1>4. ASSUME NEW r \in Requests, Search(r) PROVE RequestTypes'
  <2>1. CASE Goto(r, "abandon")
    BY <1>g, <1>s, <2>1
  <2>2. CASE /\ read' = [read EXCEPT ![r] = version] /\ UNCHANGED <<body, mine>>
             /\ \E s \in {"store", "reserve"} : pc' = [pc EXCEPT ![r] = s]
             /\ op' = op \/ \E m \in Models : op' = [op EXCEPT ![r] = <<"answer", m>>]
    <3>1. op' \in [Requests -> Prompts \cup {NoPrompt}]
      BY <1>p, <1>t, <2>2 DEF RequestTypes
    <3>2. pc' \in [Requests -> Steps]
      BY <1>s, <1>t, <2>2 DEF RequestTypes
    <3> QED
      BY <1>t, <2>2, <3>1, <3>2 DEF RequestTypes
  <2> QED
    BY <1>4, <2>1, <2>2 DEF Search
<1>5. ASSUME NEW r \in Requests, Reserve(r) \/ Policy(r) \/ StoreFails(r)
      PROVE  RequestTypes'
  <2>1. \E s \in {"abandon", "store", "policy", "provider", "verify"} : Goto(r, s)
    BY <1>5 DEF Reserve, Policy, Settle, StoreFails
  <2> QED
    BY <1>g, <1>s, <2>1
<1>6. ASSUME NEW r \in Requests, ProviderReturns(r) PROVE RequestTypes'
  <2>1. CASE \E s \in {"store", "abandon"} : Goto(r, s)
    BY <1>g, <1>s, <2>1
  <2>2. CASE /\ UNCHANGED <<body, mine, read>> /\ pc' = [pc EXCEPT ![r] = "reserve"]
             /\ \E m \in Models : op' = [op EXCEPT ![r] = <<"review", m>>]
    BY <1>p, <1>s, <1>t, <2>2 DEF RequestTypes
  <2> QED
    BY <1>6, <2>1, <2>2 DEF ProviderReturns, Settle
<1>7. ASSUME NEW r \in Requests, StoreChanged(r) \/ StoreCompleted(r) PROVE RequestTypes'
  <2>1. Return(r) \/ Goto(r, "verify")
    BY <1>7 DEF StoreChanged, StoreCompleted, Tell
  <2> QED
    BY <1>g, <1>r, <1>s, <2>1
<1>8. ASSUME NEW r \in Requests, Terminalize(r) \/ TerminalizeFails(r) PROVE RequestTypes'
  <2>1. CASE TerminalizeFails(r)
    <3>1. Return(r) \/ Goto(r, "silent")
      BY <2>1 DEF TerminalizeFails
    <3> QED
      BY <1>g, <1>r, <1>s, <3>1
  <2>2. CASE Terminalize(r)
    <3>1. \E s : Report(r, s) /\ pc[r] \in {"abandon", "verify", "silent"}
      BY <2>2 DEF Terminalize, Terminalizing
    <3>2. Return(r)
      BY <3>1 DEF Report, Tell
    <3> QED
      BY <1>r, <3>2
  <2> QED
    BY <1>8, <2>1, <2>2
<1>9. ASSUME NEW r \in Requests, Cancel(r) PROVE RequestTypes'
  <2>1. Return(r) \/ Goto(r, "silent")
    BY <1>9 DEF Cancel, Settle
  <2> QED
    BY <1>g, <1>r, <1>s, <2>1
<1>10. CASE Crash
  BY <1>10, <1>s, ChatAssumption DEF Crash, RequestTypes
<1>11. CASE \/ Timer \/ Cleanup \/ ChangeContent \/ SetConsent \/ SetAccess \/ ClearPoison
            \/ \E o \in Prompts : ReconcileUsage(o)
  BY <1>11, <1>u DEF Timer, Cleanup, ChangeContent, SetConsent, SetAccess, ClearPoison,
     ReconcileUsage
<1>12. CASE UNCHANGED chatVars
  BY <1>12, <1>u DEF chatVars
<1> QED
  BY <1>1, <1>2, <1>3, <1>4, <1>5, <1>6, <1>7, <1>8, <1>9, <1>10, <1>11, <1>12
     DEF ChatNext, Step, Claim, Store

(* The usage records, their history, the latch and the bounds. *)
OtherTypes ==
    /\ access \in BOOLEAN /\ consent \in BOOLEAN /\ poisoned \in BOOLEAN
    /\ usage \in [Prompts -> UsageStatus \cup {"none"}]
    /\ sent \in [Prompts -> Nat]
    /\ calls \in 0..MaxCalls
    /\ faults \in 0..MaxFaults

(* They stay well typed. *)
LEMMA OtherType ==
    ASSUME ChatTypeOK, [ChatNext]_chatVars
    PROVE  OtherTypes'
<1>t. OtherTypes /\ MaxFaults \in Nat /\ MaxCalls \in Nat
  BY ChatAssumption DEF ChatTypeOK, OtherTypes
<1>s. UsageStatus = {"HELD", "CLOSED"}
  BY DEF UsageStatus
<1>f. ASSUME faults < MaxFaults, faults' = faults + 1 PROVE faults' \in 0..MaxFaults
  BY <1>t, <1>f DEF OtherTypes
<1>1. ASSUME NEW r \in Requests, NEW b \in Bodies, Ask(r, b) PROVE OtherTypes'
  BY <1>1, <1>t DEF Ask, OtherTypes, baseVars
<1>2. ASSUME NEW r \in Requests, Claim(r) PROVE OtherTypes'
  <2>1. CASE ClaimReplay(r)
    BY <1>f, <1>t, <2>1 DEF ClaimReplay, OtherTypes, baseVars
  <2>2. CASE ~ClaimReplay(r)
    <3>1. UNCHANGED <<baseVars, usage, poisoned, sent, boundVars>>
      BY <1>2, <2>2, Zenon DEF Claim, ClaimDenied, ClaimInsert, ClaimConflict, ClaimExpired,
         ClaimClosed, ClaimChanged, ClaimProcessing
    <3> QED
      BY <1>t, <3>1 DEF OtherTypes, baseVars, boundVars
  <2> QED
    BY <2>1, <2>2
<1>3. ASSUME NEW r \in Requests, Search(r) PROVE OtherTypes'
  BY <1>3, <1>t DEF Search, OtherTypes, baseVars, boundVars
<1>4. ASSUME NEW r \in Requests, Reserve(r) PROVE OtherTypes'
  BY <1>4, <1>s, <1>t DEF Reserve, OtherTypes, baseVars, boundVars
<1>5. ASSUME NEW r \in Requests, Policy(r) PROVE OtherTypes'
  BY <1>5, <1>s, <1>t DEF Policy, Settle, OtherTypes, baseVars, boundVars
<1>6. ASSUME NEW r \in Requests, ProviderReturns(r) PROVE OtherTypes'
  BY <1>6, <1>s, <1>t DEF ProviderReturns, Settle, OtherTypes, baseVars, boundVars
<1>7. ASSUME NEW r \in Requests, Store(r) PROVE OtherTypes'
  <2>1. UNCHANGED <<baseVars, usage, poisoned, sent, calls>>
        /\ (faults' = faults \/ (faults < MaxFaults /\ faults' = faults + 1))
    BY <1>7 DEF Store, StoreFails, StoreChanged, StoreCompleted, boundVars
  <2> QED
    BY <1>f, <1>t, <2>1 DEF OtherTypes, baseVars
<1>8. ASSUME NEW r \in Requests, Terminalize(r) PROVE OtherTypes'
  BY <1>8, <1>t DEF Terminalize, OtherTypes, baseVars, boundVars
<1>9. ASSUME NEW r \in Requests, TerminalizeFails(r) PROVE OtherTypes'
  <2>1. UNCHANGED <<baseVars, usage, sent, calls>> /\ poisoned' = TRUE
        /\ (faults' = faults \/ (faults < MaxFaults /\ faults' = faults + 1))
    BY <1>9 DEF TerminalizeFails
  <2> QED
    BY <1>f, <1>t, <2>1 DEF OtherTypes, baseVars
<1>10. ASSUME NEW r \in Requests, Cancel(r) PROVE OtherTypes'
  <2>1. UNCHANGED <<baseVars, poisoned, sent, calls>> /\ faults < MaxFaults
        /\ faults' = faults + 1
    BY <1>10 DEF Cancel, Fault
  <2>2. usage' = usage \/ \E status \in UsageStatus : usage' = [usage EXCEPT ![op[r]] = status]
    BY <1>10, <1>s DEF Cancel, Settle
  <2>3. usage' \in [Prompts -> UsageStatus \cup {"none"}]
    BY <1>t, <2>2 DEF OtherTypes
  <2> QED
    BY <1>f, <1>t, <2>1, <2>3 DEF OtherTypes, baseVars
<1>11. CASE Crash
  BY <1>11, <1>f, <1>t DEF Crash, Fault, OtherTypes, baseVars
<1>12. CASE Timer
  BY <1>12, <1>f, <1>t DEF Timer, Fault, OtherTypes, baseVars, boundVars
<1>13. CASE Cleanup \/ ClearPoison
  BY <1>13, <1>t DEF Cleanup, ClearPoison, OtherTypes, baseVars, boundVars
<1>14. CASE ChangeContent \/ SetConsent \/ SetAccess
  BY <1>14, <1>t DEF ChangeContent, SetConsent, SetAccess, OtherTypes, boundVars
<1>15. ASSUME NEW o \in Prompts, ReconcileUsage(o) PROVE OtherTypes'
  BY <1>15, <1>s, <1>t DEF ReconcileUsage, OtherTypes, baseVars, boundVars
<1>16. CASE UNCHANGED chatVars
  BY <1>16, <1>t DEF chatVars, OtherTypes, baseVars, boundVars
<1> QED
  BY <1>1, <1>2, <1>3, <1>4, <1>5, <1>6, <1>7, <1>8, <1>9, <1>10, <1>11, <1>12, <1>13,
     <1>14, <1>15, <1>16 DEF ChatNext, Step

-----------------------------------------------------------------------------
(* Counting claims. *)

(* No request starts. *)
NoneStarts ==
    /\ calls' = calls
    /\ \A v \in Requests : pc'[v] # "idle" =>
          /\ pc[v] # "idle" /\ body'[v] = body[v]
          /\ pc'[v] = "claim" => pc[v] = "claim"

(* Only Ask starts a request, and no request returns to its claim. *)
LEMMA StartSteps ==
    ASSUME ChatTypeOK, [ChatNext]_chatVars,
           ~\E r \in Requests, b \in Bodies : Ask(r, b)
    PROVE  NoneStarts
<1>g. ASSUME NEW r \in Requests, NEW s, Goto(r, s), s # "claim", pc[r] # "idle", calls' = calls
      PROVE  NoneStarts
  BY <1>g, GotoFrame DEF NoneStarts
<1>r. ASSUME NEW r \in Requests, Return(r), calls' = calls PROVE NoneStarts
  BY <1>r, ReturnFrame DEF NoneStarts
<1>u. ASSUME requestVars' = requestVars, calls' = calls PROVE NoneStarts
  BY <1>u DEF requestVars, NoneStarts
<1>1. ASSUME NEW r \in Requests, ClaimInsert(r) PROVE NoneStarts
  BY <1>1 DEF ClaimInsert, NoneStarts, ChatTypeOK, boundVars
<1>2. ASSUME NEW r \in Requests,
             \/ ClaimDenied(r) \/ ClaimConflict(r) \/ ClaimExpired(r) \/ ClaimClosed(r)
             \/ ClaimChanged(r) \/ ClaimReplay(r) \/ ClaimProcessing(r)
      PROVE  NoneStarts
  <2>1. calls' = calls /\ (Return(r) \/ requestVars' = requestVars)
    BY <1>2 DEF ClaimDenied, ClaimConflict, ClaimExpired, ClaimClosed, ClaimChanged,
       ClaimReplay, ClaimProcessing, Tell, boundVars
  <2> QED
    BY <1>r, <1>u, <2>1
<1>3. ASSUME NEW r \in Requests, Search(r) PROVE NoneStarts
  <2>1. calls' = calls /\ pc[r] = "search" /\ body' = body
        /\ \E s \in {"abandon", "store", "reserve"} : pc' = [pc EXCEPT ![r] = s]
    BY <1>3 DEF Search, Goto, boundVars
  <2> QED
    BY <2>1 DEF NoneStarts, ChatTypeOK
<1>4. ASSUME NEW r \in Requests, Reserve(r) \/ Policy(r) \/ StoreFails(r)
      PROVE  NoneStarts
  <2>1. calls' = calls /\ pc[r] # "idle"
        /\ \E s \in {"abandon", "store", "policy", "provider", "verify"} : Goto(r, s)
    BY <1>4 DEF Reserve, Policy, Settle, StoreFails, boundVars
  <2> QED
    BY <1>g, <2>1
<1>5. ASSUME NEW r \in Requests, ProviderReturns(r) PROVE NoneStarts
  <2>1. calls' = calls /\ pc[r] = "provider" /\ body' = body
        /\ \E s \in {"abandon", "store", "reserve"} : pc' = [pc EXCEPT ![r] = s]
    BY <1>5 DEF ProviderReturns, Settle, Goto, boundVars
  <2> QED
    BY <2>1 DEF NoneStarts, ChatTypeOK
<1>6. ASSUME NEW r \in Requests, StoreChanged(r) \/ StoreCompleted(r) PROVE NoneStarts
  <2>1. calls' = calls /\ pc[r] = "store" /\ (Return(r) \/ Goto(r, "verify"))
    BY <1>6 DEF StoreChanged, StoreCompleted, Tell, boundVars
  <2> QED
    BY <1>g, <1>r, <2>1
<1>7. ASSUME NEW r \in Requests, Terminalize(r) PROVE NoneStarts
  <2>1. \E s : Report(r, s) /\ pc[r] \in {"abandon", "verify", "silent"}
    BY <1>7 DEF Terminalize, Terminalizing
  <2>2. Return(r) /\ calls' = calls
    BY <1>7, <2>1 DEF Terminalize, Report, Tell, boundVars
  <2> QED
    BY <1>r, <2>2
<1>8. ASSUME NEW r \in Requests, TerminalizeFails(r) PROVE NoneStarts
  <2>1. calls' = calls /\ pc[r] # "idle" /\ (Return(r) \/ Goto(r, "silent"))
    BY <1>8 DEF TerminalizeFails, Terminalizing
  <2> QED
    BY <1>g, <1>r, <2>1
<1>9. ASSUME NEW r \in Requests, Cancel(r) PROVE NoneStarts
  <2>1. calls' = calls /\ pc[r] # "idle" /\ (Return(r) \/ Goto(r, "silent"))
    BY <1>9 DEF Cancel, Fault, Settle
  <2> QED
    BY <1>g, <1>r, <2>1
<1>10. CASE Crash
  BY <1>10 DEF Crash, Fault, NoneStarts
<1>11. CASE \/ Timer \/ Cleanup \/ ChangeContent \/ SetConsent \/ SetAccess \/ ClearPoison
            \/ \E o \in Prompts : ReconcileUsage(o)
  <2>1. requestVars' = requestVars /\ calls' = calls
    BY <1>11 DEF Timer, Fault, Cleanup, ChangeContent, SetConsent, SetAccess, ClearPoison,
       ReconcileUsage, boundVars
  <2> QED
    BY <1>u, <2>1
<1>12. CASE UNCHANGED chatVars
  BY <1>12, <1>u DEF chatVars, boundVars
<1> QED
  BY <1>1, <1>2, <1>3, <1>4, <1>5, <1>6, <1>7, <1>8, <1>9, <1>10, <1>11, <1>12
     DEF ChatNext, Step, Claim, Store

(* Ids stay below the number of requests issued. *)
LEMMA CountInductive ==
    ASSUME ChatInv, [ChatNext]_chatVars
    PROVE  CountInv' /\ ids' \in 0..MaxCalls
<1> USE DEF ChatInv
<1>t. ids \in Nat /\ calls \in Nat /\ calls' \in 0..MaxCalls /\ calls' \in Nat /\ MaxCalls \in Nat
  BY OtherType, ChatAssumption DEF ChatTypeOK, OtherTypes
<1>c. IsFiniteSet(Claiming) /\ Cardinality(Claiming) \in Nat
      /\ ids + Cardinality(Claiming) <= calls
  BY FS_CardinalityType DEF CountInv
<1>n. ASSUME CountInv', ids' \in Nat PROVE ids' \in 0..MaxCalls
  <2>1. Cardinality(Claiming') \in Nat /\ ids' + Cardinality(Claiming') <= calls'
    BY <1>n, FS_CardinalityType DEF CountInv
  <2> QED
    BY <1>n, <1>t, <2>1
<1>1. CASE \E r \in Requests, b \in Bodies : Ask(r, b)
  <2>1. PICK r \in Requests, b \in Bodies : Ask(r, b)
    BY <1>1
  <2>2. Claiming' = Claiming \cup {r} /\ r \notin Claiming
    BY <2>1 DEF Ask, Claiming, ChatTypeOK
  <2>3. IsFiniteSet(Claiming') /\ Cardinality(Claiming') = Cardinality(Claiming) + 1
    BY <1>c, <2>2, FS_AddElement
  <2>4. ids' = ids /\ calls' = calls + 1
    BY <2>1 DEF Ask
  <2>5. \A v \in Requests : pc'[v] # "idle" => body'[v] \in Bodies
    BY <2>1 DEF Ask, CountInv, ChatTypeOK
  <2>6. CountInv'
    BY <1>c, <1>t, <2>3, <2>4, <2>5 DEF CountInv
  <2> QED
    BY <1>n, <1>t, <2>4, <2>6
<1>2. CASE ~\E r \in Requests, b \in Bodies : Ask(r, b)
  <2>1. NoneStarts
    BY <1>2, StartSteps
  <2>2. \A v \in Requests : pc'[v] # "idle" => body'[v] \in Bodies
    BY <2>1 DEF NoneStarts, CountInv
  <2>3. Claiming' \subseteq Claiming
    BY <2>1 DEF NoneStarts, Claiming
  <2>4. CASE \E r \in Requests : ClaimInsert(r)
    <3>1. PICK r \in Requests : ClaimInsert(r)
      BY <2>4
    <3>2. r \in Claiming /\ r \notin Claiming' /\ ids' = ids + 1
      BY <3>1 DEF ClaimInsert, Claiming, ChatTypeOK
    <3>3. IsFiniteSet(Claiming \ {r}) /\ Cardinality(Claiming \ {r}) = Cardinality(Claiming) - 1
      BY <1>c, <3>2, FS_RemoveElement
    <3>4. Claiming' \subseteq Claiming \ {r}
      BY <2>3, <3>2
    <3>5. IsFiniteSet(Claiming') /\ Cardinality(Claiming') <= Cardinality(Claiming) - 1
      BY <3>3, <3>4, FS_Subset
    <3>6. Cardinality(Claiming') \in Nat
      BY <3>5, FS_CardinalityType
    <3>7. CountInv'
      BY <1>c, <1>t, <2>1, <2>2, <3>2, <3>5, <3>6 DEF CountInv, NoneStarts
    <3> QED
      BY <1>n, <1>t, <3>2, <3>7
  <2>5. CASE ~\E r \in Requests : ClaimInsert(r)
    <3>1. ids' = ids
      BY <2>5, LedgerSteps DEF LedgerMove
    <3>2. IsFiniteSet(Claiming') /\ Cardinality(Claiming') <= Cardinality(Claiming)
      BY <1>c, <2>3, FS_Subset
    <3>3. Cardinality(Claiming') \in Nat
      BY <3>2, FS_CardinalityType
    <3>4. CountInv'
      BY <1>c, <1>t, <2>1, <2>2, <3>1, <3>2, <3>3 DEF CountInv, NoneStarts
    <3> QED
      BY <1>n, <1>t, <3>1, <3>4
  <2> QED
    BY <2>4, <2>5
<1> QED
  BY <1>1, <1>2

-----------------------------------------------------------------------------
(* The invariant is inductive. *)

(* What clients know stays well typed. *)
LEMMA ToldType ==
    ASSUME ChatInv, [ChatNext]_chatVars
    PROVE  told' \in [Ids -> Outcomes]
<1>t. told \in [Ids -> Outcomes] /\ Outcomes = {"none", "ok", "unknown", "changed"}
  BY DEF ChatInv, ChatTypeOK, Outcomes
<1>k. ASSUME NEW r, NEW i, NEW o \in Outcomes, Tell(r, i, o) PROVE told' \in [Ids -> Outcomes]
  BY <1>k, <1>t DEF Tell
<1>1. ASSUME NEW r \in Requests, Claim(r) PROVE told' \in [Ids -> Outcomes]
  <2>1. told' = told \/ \E i : \E o \in {"ok", "unknown", "changed"} : Tell(r, i, o)
    BY <1>1 DEF Claim, ClaimDenied, ClaimInsert, ClaimConflict, ClaimExpired, ClaimClosed,
       ClaimChanged, ClaimReplay, ClaimProcessing
  <2> QED
    BY <1>k, <1>t, <2>1
<1>2. ASSUME NEW r \in Requests, Store(r) PROVE told' \in [Ids -> Outcomes]
  <2>1. told' = told \/ \E i : \E o \in {"ok", "unknown", "changed"} : Tell(r, i, o)
    BY <1>2 DEF Store, StoreFails, StoreChanged, StoreCompleted
  <2> QED
    BY <1>k, <1>t, <2>1
<1>3. ASSUME NEW r \in Requests, Terminalize(r) PROVE told' \in [Ids -> Outcomes]
  <2>1. record.status \in Final \cup {"PROCESSING"}
    BY <1>3 DEF Terminalize, Mine, ChatInv, ChatTypeOK, Records
  <2>2. PICK s \in Final : Report(r, s)
    BY <1>3, <2>1 DEF Terminalize, Final
  <2>3. told' = told \/ \E i : \E o \in {"ok", "unknown", "changed"} : Tell(r, i, o)
    BY <1>3, <2>2 DEF Terminalize, Terminalizing, Report, Final
  <2> QED
    BY <1>k, <1>t, <2>3
<1>4. ASSUME ~\E r \in Requests : Claim(r) \/ Store(r) \/ Terminalize(r) PROVE told' = told
  <2>1. ASSUME NEW r \in Requests,
               Search(r) \/ Reserve(r) \/ Policy(r) \/ ProviderReturns(r)
               \/ TerminalizeFails(r) \/ Cancel(r)
        PROVE  told' = told
    BY <2>1 DEF Search, Reserve, Policy, ProviderReturns, TerminalizeFails, Cancel
  <2>2. ASSUME NEW r \in Requests, NEW b \in Bodies, Ask(r, b) PROVE told' = told
    BY <2>2 DEF Ask
  <2>3. CASE Crash \/ Timer \/ Cleanup \/ ChangeContent \/ SetConsent \/ SetAccess
             \/ ClearPoison
    BY <2>3 DEF Crash, Timer, Cleanup, ChangeContent, SetConsent, SetAccess, ClearPoison
  <2>4. CASE UNCHANGED chatVars \/ \E o \in Prompts : ReconcileUsage(o)
    BY <2>4 DEF chatVars, ReconcileUsage
  <2> QED
    BY <1>4, <2>1, <2>2, <2>3, <2>4 DEF ChatNext, Step
<1> QED
  BY <1>t, <1>1, <1>2, <1>3, <1>4

(* A claim that is inserted is new to everybody. *)
LEMMA LedgerInsert ==
    ASSUME ChatInv, NEW r \in Requests, ClaimInsert(r)
    PROVE  LedgerInv' /\ record' # NoRecord
           /\ record'.status = "PROCESSING" /\ record'.answer = 0 /\ record'.expired = FALSE
<1> USE DEF ChatInv
<1>t. ids \in Nat /\ version \in Nat /\ \A v \in Requests : mine[v] \in Nat /\ read[v] \in Nat
  BY DEF ChatTypeOK
<1>1. /\ ids' = ids + 1 /\ version' = version /\ told' = told /\ read' = read
      /\ record'.id = ids + 1 /\ record'.version = version /\ record'.status = "PROCESSING"
      /\ record'.answer = 0 /\ record'.expired = FALSE
  BY DEF ClaimInsert, baseVars
<1>2. /\ pc'[r] = "search" /\ mine'[r] = ids + 1
      /\ \A v \in Requests \ {r} : pc'[v] = pc[v] /\ mine'[v] = mine[v]
  BY DEF ClaimInsert, ChatTypeOK
<1>3. "search" \notin Working /\ "search" \in Executing /\ Working \subseteq Executing
  BY DEF Working, Executing
<1>4. record' \in Records
  <2>n. [ChatNext]_chatVars
    BY DEF ChatNext, Step, Claim
  <2>m. ids' \in 0..MaxCalls
    BY <2>n, CountInductive
  <2>1. ids' \in 1..MaxCalls
    BY <1>1, <1>t, <2>m
  <2>2. body[r] \in Bodies /\ version \in 1..MaxVersion /\ 0 \in 0..MaxVersion
    BY ChatAssumption DEF CountInv, ClaimInsert, ChatTypeOK
  <2> QED
    BY <1>1, <2>1, <2>2 DEF ClaimInsert, Records, Ids
<1>5. record' # NoRecord
  BY <1>4, RecordAssumption
<1>6. \A v \in Requests \ {r} : pc'[v] \in Executing =>
         pc[v] \in Executing /\ mine'[v] \in 1..ids /\ mine'[v] # ids + 1
  BY <1>2, <1>t DEF LedgerInv
<1>7. \A v \in Requests : pc'[v] \in Executing => mine'[v] \in 1..ids'
  BY <1>1, <1>2, <1>6, <1>t
<1>8. \A v, q \in Requests :
         pc'[v] \in Executing /\ pc'[q] \in Executing /\ mine'[v] = mine'[q] => v = q
  BY <1>2, <1>6 DEF LedgerInv
<1>9. \A v \in Requests : pc'[v] \in Working =>
         read'[v] <= version' /\ (Mine(v)' => record'.version <= read'[v])
  <2> TAKE v \in Requests
  <2> HAVE pc'[v] \in Working
  <2>1. v # r /\ pc[v] \in Working /\ pc'[v] \in Executing
    BY <1>2, <1>3
  <2>2. ~Mine(v)'
    BY <1>1, <1>6, <2>1 DEF Mine
  <2> QED
    BY <1>1, <2>1, <2>2 DEF LedgerInv
<1>10. \A i \in Ids : i > ids' => told'[i] = "none"
  <2> TAKE i \in Ids
  <2> HAVE i > ids'
  <2>1. i \in Nat
    BY DEF Ids
  <2> QED
    BY <1>1, <1>t, <2>1 DEF LedgerInv
<1>11. \A i \in Ids : told'[i] \in {"unknown", "changed"} /\ record' # NoRecord
                       /\ record'.id = i => record'.status \in Undone
  BY <1>1, <1>t DEF LedgerInv
<1>12. /\ record'.id <= ids' /\ record'.version <= version'
       /\ AnswerMatchesVersion'
  BY <1>1, <1>t DEF AnswerMatchesVersion
<1> QED
  BY <1>1, <1>5, <1>7, <1>8, <1>9, <1>10, <1>11, <1>12 DEF LedgerInv

(* The types and the ledger. *)
LEMMA LedgerInductive ==
    ASSUME ChatInv, [ChatNext]_chatVars
    PROVE  ChatTypeOK' /\ CountInv' /\ LedgerInv'
<1>1. CountInv' /\ ids' \in 0..MaxCalls
  BY CountInductive
<1>2. RequestTypes' /\ OtherTypes' /\ told' \in [Ids -> Outcomes]
  BY <1>1, RequestType, OtherType, ToldType DEF ChatInv
<1>3. CASE \E r \in Requests : ClaimInsert(r)
  <2>1. PICK r \in Requests : ClaimInsert(r)
    BY <1>3
  <2>2. LedgerInv' /\ record' # NoRecord /\ record'.status = "PROCESSING" /\ record'.answer = 0
    BY <2>1, LedgerInsert
  <2>3. record' \in Records
    <3>1. ids + 1 \in Ids
      BY <1>1, <2>1 DEF ClaimInsert, Ids, ChatInv, ChatTypeOK
    <3>2. body[r] \in Bodies /\ version \in 1..MaxVersion /\ 0 \in 0..MaxVersion
      BY <2>1, ChatAssumption DEF CountInv, ClaimInsert, ChatInv, ChatTypeOK
    <3> QED
      BY <2>1, <3>1, <3>2 DEF ClaimInsert, Records
  <2>4. version' \in 1..MaxVersion
    BY <2>1 DEF ClaimInsert, baseVars, ChatInv, ChatTypeOK
  <2>5. ChatTypeOK'
    BY <1>1, <1>2, <2>2, <2>3, <2>4 DEF ChatTypeOK, RequestTypes, OtherTypes
  <2> QED
    BY <1>1, <2>2, <2>5
<1>4. CASE ~\E r \in Requests : ClaimInsert(r)
  <2>1. LedgerMove
    BY <1>4, LedgerSteps
  <2>2. /\ record' \in Records \cup {NoRecord} /\ version' \in 1..MaxVersion
        /\ record' # NoRecord => (record'.status = "COMPLETED" <=> record'.answer # 0)
    BY <2>1, RecordType DEF LedgerMove, ChatInv
  <2>3. ChatTypeOK'
    BY <1>1, <1>2, <2>2 DEF ChatTypeOK, RequestTypes, OtherTypes
  <2> QED
    BY <1>1, <2>1, <2>3, LedgerKept DEF ChatInv
<1> QED
  BY <1>3, <1>4

(* What a step without a fault does to the latch and to the row: the latch is
   set by a terminalization that finds no row, the row is deleted when it has
   expired, and expires when its handler is gone. *)
FaultMove ==
    \/ faults' = faults + 1
    \/ /\ faults' = faults
       /\ \/ poisoned' = poisoned \/ poisoned' = FALSE
          \/ \E r \in Requests : pc[r] \in Terminalizing /\ ~Mine(r)
       /\ record' = NoRecord => record = NoRecord \/ record.expired = TRUE
       /\ \/ record' = record \/ record' = NoRecord \/ record'.expired = FALSE
          \/ record # NoRecord /\ ~Alive(record.id)

(* Closing a row needs no row to be lost. *)
LEMMA CloseFault ==
    ASSUME ChatTypeOK, record # NoRecord, NEW s \in Final, NEW a \in 0..MaxVersion, Close(s, a),
           faults' = faults, poisoned' = poisoned
    PROVE  FaultMove
<1>1. record \in Records
  BY DEF ChatTypeOK
<1>2. record' # NoRecord /\ record'.expired = FALSE
  BY <1>1, CloseFrame
<1> QED
  BY <1>2 DEF FaultMove

(* Every step is such a step or a fault. *)
LEMMA FaultSteps ==
    ASSUME ChatInv, [ChatNext]_chatVars
    PROVE  FaultMove
<1> USE DEF ChatInv
<1>t. /\ 0 \in 0..MaxVersion /\ {"COMPLETED", "INVALIDATED", "OUTCOME_UNKNOWN"} \subseteq Final
      /\ \A r \in Requests : read[r] \in 0..MaxVersion
      /\ record # NoRecord => record.expired \in BOOLEAN
  BY ChatAssumption DEF ChatTypeOK, Final, Records
<1>k. ASSUME faults' = faults, poisoned' = poisoned \/ poisoned' = FALSE, record' = record
      PROVE  FaultMove
  BY <1>k DEF FaultMove
<1>c. ASSUME faults' = faults, poisoned' = poisoned, record # NoRecord,
             Close("INVALIDATED", 0) \/ Close("OUTCOME_UNKNOWN", 0)
             \/ \E r \in Requests : Close("COMPLETED", read[r])
      PROVE  FaultMove
  BY <1>c, <1>t, CloseFault
<1>d. ASSUME faults' = faults, poisoned' = poisoned, record' = NoRecord, record.expired = TRUE
      PROVE  FaultMove
  BY <1>d DEF FaultMove
<1>f. ASSUME faults' = faults + 1 PROVE FaultMove
  BY <1>f DEF FaultMove
<1>1. ASSUME NEW r \in Requests, Claim(r) PROVE FaultMove
  <2>1. CASE ClaimInsert(r)
    <3>1. record' # NoRecord /\ record'.expired = FALSE
      BY <2>1, LedgerInsert
    <3> QED
      BY <2>1, <3>1 DEF ClaimInsert, boundVars, FaultMove
  <2>2. CASE ClaimExpired(r)
    BY <1>d, <1>t, <2>2 DEF ClaimExpired, Found, boundVars
  <2>3. CASE ClaimChanged(r)
    BY <1>c, <2>3 DEF ClaimChanged, Current, Found, boundVars
  <2>4. CASE ClaimReplay(r)
    BY <1>k, <1>f, <2>4 DEF ClaimReplay
  <2>5. CASE ClaimProcessing(r)
    BY <1>k, <1>c, <2>5 DEF ClaimProcessing, Current, Found, boundVars
  <2>6. CASE ClaimDenied(r) \/ ClaimConflict(r) \/ ClaimClosed(r)
    BY <1>k, <2>6 DEF ClaimDenied, ClaimConflict, ClaimClosed, boundVars
  <2> QED
    BY <1>1, <2>1, <2>2, <2>3, <2>4, <2>5, <2>6 DEF Claim
<1>2. ASSUME NEW r \in Requests, Search(r) \/ Reserve(r) \/ Policy(r) \/ ProviderReturns(r)
      PROVE  FaultMove
  BY <1>k, <1>2 DEF Search, Reserve, Policy, ProviderReturns, boundVars
<1>3. ASSUME NEW r \in Requests, Store(r) PROVE FaultMove
  <2>1. CASE StoreFails(r)
    BY <1>k, <2>1 DEF StoreFails, boundVars
  <2>2. CASE StoreChanged(r)
    BY <1>k, <1>c, <2>2 DEF StoreChanged, Mine, boundVars
  <2>3. CASE StoreCompleted(r)
    BY <1>f, <1>c, <2>3 DEF StoreCompleted, Storable, Mine
  <2> QED
    BY <1>3, <2>1, <2>2, <2>3 DEF Store
<1>4. ASSUME NEW r \in Requests, Terminalize(r) PROVE FaultMove
  BY <1>k, <1>c, <1>4 DEF Terminalize, Mine, boundVars
<1>5. ASSUME NEW r \in Requests, TerminalizeFails(r) PROVE FaultMove
  BY <1>f, <1>5 DEF TerminalizeFails, FaultMove
<1>6. ASSUME NEW r \in Requests, Cancel(r) PROVE FaultMove
  BY <1>f, <1>6 DEF Cancel, Fault
<1>7. CASE Crash
  BY <1>f, <1>7 DEF Crash, Fault
<1>8. CASE Timer
  <2>1. CASE Alive(record.id)
    BY <1>f, <1>8, <2>1 DEF Timer, Fault
  <2>2. CASE ~Alive(record.id)
    <3>1. record \in Records /\ faults' = faults /\ poisoned' = poisoned
      BY <1>8, <2>2 DEF Timer, ChatTypeOK, boundVars
    <3>2. record' \in Records
      BY <1>8, <3>1 DEF Timer, Records
    <3> QED
      BY <1>8, <2>2, <3>1, <3>2, RecordAssumption DEF Timer, FaultMove
  <2> QED
    BY <2>1, <2>2
<1>9. CASE Cleanup
  BY <1>c, <1>d, <1>t, <1>9 DEF Cleanup, boundVars
<1>10. CASE ChangeContent \/ SetConsent \/ SetAccess \/ ClearPoison \/ UNCHANGED chatVars
            \/ \E o \in Prompts : ReconcileUsage(o)
  BY <1>k, <1>10 DEF ChangeContent, SetConsent, SetAccess, ClearPoison, chatVars,
     ReconcileUsage, boundVars
<1>11. ASSUME NEW r \in Requests, NEW b \in Bodies, Ask(r, b) PROVE FaultMove
  BY <1>k, <1>11 DEF Ask
<1> QED
  BY <1>1, <1>2, <1>3, <1>4, <1>5, <1>6, <1>7, <1>8, <1>9, <1>10, <1>11 DEF ChatNext, Step

(* Without a fault no handler at work loses its row. *)
LEMMA FaultInductive ==
    ASSUME ChatInv, [ChatNext]_chatVars
    PROVE  FaultInv'
<1>1. SUFFICES ASSUME faults' = 0
               PROVE  /\ poisoned' = FALSE
                      /\ \A v \in Requests : pc'[v] \in Executing =>
                            Mine(v)' /\ record'.expired = FALSE
  BY DEF FaultInv
<1>2. FaultMove
  BY FaultSteps
<1>3. faults = 0 /\ faults' = faults
  BY <1>1, <1>2 DEF FaultMove, ChatInv, ChatTypeOK
<1>4. /\ poisoned = FALSE
      /\ \A v \in Requests : pc[v] \in Executing => Mine(v) /\ record.expired = FALSE
  BY <1>3 DEF ChatInv, FaultInv
<1>5. ~\E v \in Requests : pc[v] \in Terminalizing /\ ~Mine(v)
  BY <1>4 DEF Executing
<1>6. poisoned' = FALSE
  BY <1>2, <1>3, <1>4, <1>5 DEF FaultMove
<1>7. CASE ~\E r \in Requests : ClaimInsert(r)
  <2> SUFFICES ASSUME NEW v \in Requests, pc'[v] \in Executing
               PROVE  Mine(v)' /\ record'.expired = FALSE
    BY <1>6
  <2>1. pc[v] \in Executing /\ mine'[v] = mine[v] /\ RecordMoves
    BY <1>7, LedgerSteps DEF LedgerMove, RequestsMove
  <2>2. Mine(v) /\ record.expired = FALSE /\ Alive(record.id)
    BY <1>4, <2>1 DEF Alive, Mine
  <2>3. record' # NoRecord /\ record'.expired = FALSE
    BY <1>2, <1>3, <2>2 DEF FaultMove, Mine
  <2>4. record'.id = record.id
    BY <2>1, <2>3 DEF RecordMoves
  <2> QED
    BY <2>1, <2>2, <2>3, <2>4 DEF Mine
<1>8. ASSUME NEW r \in Requests, ClaimInsert(r)
      PROVE  \A v \in Requests : pc'[v] \in Executing => Mine(v)' /\ record'.expired = FALSE
  <2>1. /\ record' # NoRecord /\ record'.expired = FALSE
    BY <1>8, LedgerInsert
  <2>2. record'.id = ids + 1 /\ mine'[r] = ids + 1
    BY <1>8 DEF ClaimInsert, ChatInv, ChatTypeOK
  <2>3. \A v \in Requests \ {r} : pc'[v] = pc[v] /\ pc[v] \notin Executing
    BY <1>4, <1>8 DEF ClaimInsert, Mine, ChatInv, ChatTypeOK
  <2> QED
    BY <2>1, <2>2, <2>3 DEF Mine
<1> QED
  BY <1>6, <1>7, <1>8

-----------------------------------------------------------------------------
(* The hold of a call. *)

(* A step that opens no call, sends nothing and revokes nothing while a prompt
   is with the provider. *)
CallsKept(o) ==
    /\ sent' = sent
    /\ \A v \in Requests : pc'[v] \in Calling =>
          pc'[v] = pc[v] /\ op'[v] = op[v] /\ op[v] # o
    /\ (\E v \in Requests : pc[v] = "provider") => access' = access /\ consent' = consent

(* Such a step may leave the holds alone. *)
LEMMA UsageKept ==
    ASSUME ChatTypeOK, ChatTypeOK', UsageInv, usage' = usage, CallsKept(NoPrompt)
    PROVE  UsageInv'
<1>p. "provider" \in Calling /\ "policy" \in Calling
  BY DEF Calling
<1>1. \A v \in Requests : pc'[v] \in Calling => usage'[op'[v]] = "HELD"
  BY DEF UsageInv, CallsKept
<1>2. \A v, q \in Requests : pc'[v] \in Calling /\ pc'[q] \in Calling /\ op'[v] = op'[q] => v = q
  BY DEF UsageInv, CallsKept
<1>3. /\ \A o \in Prompts : usage'[o] = "none" => sent'[o] = 0
      /\ SentOnce'
  BY DEF UsageInv, CallsKept, SentOnce
<1>4. \A v \in Requests : pc'[v] = "policy" => sent'[op'[v]] = 0
  BY <1>p DEF UsageInv, CallsKept
<1>5. \A v \in Requests : pc'[v] = "provider" => access' = TRUE /\ consent' = TRUE
  BY <1>p DEF UsageInv, CallsKept
<1> QED
  BY <1>1, <1>2, <1>3, <1>4, <1>5 DEF UsageInv

(* And it may write the hold of an operation nobody is calling any more. *)
LEMMA UsageClosed ==
    ASSUME ChatTypeOK, ChatTypeOK', PromptInv, UsageInv, NEW o \in Prompts,
           NEW s \in UsageStatus,
           usage' = [usage EXCEPT ![o] = s], CallsKept(o)
    PROVE  UsageInv'
<1>p. "provider" \in Calling /\ "policy" \in Calling
  BY DEF Calling
<1>u. usage'[o] = s /\ s # "none" /\ \A x \in Prompts \ {o} : usage'[x] = usage[x]
  BY DEF ChatTypeOK, UsageStatus
<1>t. \A v \in Requests : pc[v] \in Calling => op[v] \in Prompts
  BY DEF PromptInv, Governed
<1>1. \A v \in Requests : pc'[v] \in Calling => usage'[op'[v]] = "HELD"
  BY <1>u, <1>t DEF UsageInv, CallsKept
<1>2. \A v, q \in Requests : pc'[v] \in Calling /\ pc'[q] \in Calling /\ op'[v] = op'[q] => v = q
  BY DEF UsageInv, CallsKept
<1>3. /\ \A x \in Prompts : usage'[x] = "none" => sent'[x] = 0
      /\ SentOnce'
  BY <1>u DEF UsageInv, CallsKept, SentOnce
<1>4. \A v \in Requests : pc'[v] = "policy" => sent'[op'[v]] = 0
  BY <1>p DEF UsageInv, CallsKept
<1>5. \A v \in Requests : pc'[v] = "provider" => access' = TRUE /\ consent' = TRUE
  BY <1>p DEF UsageInv, CallsKept
<1> QED
  BY <1>1, <1>2, <1>3, <1>4, <1>5 DEF UsageInv

(* A request that leaves the calling steps, or never was there, with the base
   alone. *)
LEMMA CallEnds ==
    ASSUME ChatTypeOK, NEW r \in Requests, NEW o, sent' = sent, access' = access,
           consent' = consent, pc'[r] \notin Calling,
           \A v \in Requests \ {r} : pc'[v] = pc[v] /\ op'[v] = op[v],
           \A v \in Requests \ {r} : pc[v] \in Calling => op[v] # o
    PROVE  CallsKept(o)
BY DEF CallsKept

(* A hold is written for its own call, or for one nobody makes. *)
LEMMA OwnCall ==
    ASSUME UsageInv, NEW r \in Requests,
           pc[r] \in Calling \/ usage[op[r]] # "HELD"
    PROVE  \A v \in Requests \ {r} : pc[v] \in Calling => op[v] # op[r]
BY DEF UsageInv

(* The model is chosen before the hold is made. *)
LEMMA PromptInductive ==
    ASSUME ChatInv, [ChatNext]_chatVars
    PROVE  PromptInv'
<1> USE DEF ChatInv
<1>s. \A s \in {"idle", "claim", "search", "store", "abandon", "verify", "silent"} :
         s \notin Governed
  BY DEF Governed, Calling
<1>c. {"reserve", "policy", "provider"} = Governed
  BY DEF Governed, Calling
<1>p. ASSUME NEW m \in Models PROVE {<<"answer", m>>, <<"review", m>>} \subseteq Prompts
  BY DEF Prompts, Operations
<1>g. ASSUME NEW r \in Requests, NEW s, Goto(r, s), s \in Governed => pc[r] \in Governed
      PROVE  PromptInv'
  BY <1>g, GotoFrame DEF PromptInv
<1>r. ASSUME NEW r \in Requests, Return(r) PROVE PromptInv'
  BY <1>r, <1>s, ReturnFrame DEF PromptInv
<1>u. ASSUME requestVars' = requestVars PROVE PromptInv'
  BY <1>u DEF requestVars, PromptInv
<1>1. ASSUME NEW r \in Requests, NEW b \in Bodies, Ask(r, b) PROVE PromptInv'
  BY <1>1, <1>s DEF Ask, PromptInv, ChatTypeOK
<1>2. ASSUME NEW r \in Requests, Claim(r) PROVE PromptInv'
  <2>1. CASE ClaimInsert(r)
    BY <1>s, <2>1 DEF ClaimInsert, PromptInv, ChatTypeOK
  <2>2. CASE ~ClaimInsert(r)
    <3>1. Return(r) \/ requestVars' = requestVars
      BY <1>2, <2>2 DEF Claim, ClaimDenied, ClaimConflict, ClaimExpired, ClaimClosed,
         ClaimChanged, ClaimReplay, ClaimProcessing, Tell
    <3> QED
      BY <1>r, <1>u, <3>1
  <2> QED
    BY <2>1, <2>2
<1>3. ASSUME NEW r \in Requests, Search(r) PROVE PromptInv'
  <2>1. CASE Goto(r, "abandon")
    BY <1>g, <1>s, <2>1
  <2>2. CASE pc' = [pc EXCEPT ![r] = "store"] /\ op' = op
    BY <1>s, <2>2 DEF PromptInv, ChatTypeOK
  <2>3. CASE /\ pc' = [pc EXCEPT ![r] = "reserve"]
             /\ \E m \in Models : op' = [op EXCEPT ![r] = <<"answer", m>>]
    BY <1>p, <2>3 DEF PromptInv, ChatTypeOK
  <2> QED
    BY <1>3, <2>1, <2>2, <2>3 DEF Search
<1>4. ASSUME NEW r \in Requests, Reserve(r) \/ Policy(r) PROVE PromptInv'
  <2>1. pc[r] \in Governed /\ \E s : Goto(r, s)
    BY <1>4, <1>c DEF Reserve, Policy, Settle
  <2> QED
    BY <1>g, <2>1
<1>5. ASSUME NEW r \in Requests, ProviderReturns(r) PROVE PromptInv'
  <2>1. CASE \E s : Goto(r, s)
    BY <1>5, <1>c, <1>g, <2>1 DEF ProviderReturns
  <2>2. CASE /\ pc' = [pc EXCEPT ![r] = "reserve"]
             /\ \E m \in Models : op' = [op EXCEPT ![r] = <<"review", m>>]
    BY <1>p, <2>2 DEF PromptInv, ChatTypeOK
  <2> QED
    BY <1>5, <2>1, <2>2 DEF ProviderReturns, Settle
<1>6. ASSUME NEW r \in Requests, Store(r) \/ TerminalizeFails(r) \/ Cancel(r) PROVE PromptInv'
  <2>1. Return(r) \/ Goto(r, "verify") \/ Goto(r, "silent")
    BY <1>6 DEF Store, StoreFails, StoreChanged, StoreCompleted, TerminalizeFails, Cancel,
       Settle, Tell
  <2> QED
    BY <1>g, <1>r, <1>s, <2>1
<1>7. ASSUME NEW r \in Requests, Terminalize(r) PROVE PromptInv'
  <2>1. PICK s : Report(r, s)
    BY <1>7 DEF Terminalize
  <2>2. Return(r)
    BY <1>7, <2>1 DEF Terminalize, Terminalizing, Report, Tell
  <2> QED
    BY <1>r, <2>2
<1>8. CASE Crash
  BY <1>8, <1>s DEF Crash, PromptInv
<1>9. CASE \/ Timer \/ Cleanup \/ ChangeContent \/ SetConsent \/ SetAccess \/ ClearPoison
           \/ UNCHANGED chatVars \/ \E o \in Prompts : ReconcileUsage(o)
  BY <1>9, <1>u DEF Timer, Cleanup, ChangeContent, SetConsent, SetAccess, ClearPoison,
     ReconcileUsage, chatVars
<1> QED
  BY <1>1, <1>2, <1>3, <1>4, <1>5, <1>6, <1>7, <1>8, <1>9 DEF ChatNext, Step

(* The holds protect the prompts. *)
LEMMA UsageInductive ==
    ASSUME ChatInv, [ChatNext]_chatVars
    PROVE  UsageInv'
<1> USE DEF ChatInv
<1>t. ChatTypeOK'
  BY LedgerInductive
<1>s. /\ {"idle", "claim", "search", "store", "reserve", "abandon", "verify", "silent"}
            \cap Calling = {}
      /\ "policy" \in Calling /\ "provider" \in Calling
  BY DEF Calling
<1>o. /\ \A v \in Requests : pc[v] \in Calling => op[v] \in Prompts /\ op[v] # NoPrompt
      /\ \A v \in Requests : pc[v] = "reserve" => op[v] \in Prompts
  BY ChatAssumption DEF PromptInv, Governed, Prompts, Operations
<1>g. ASSUME NEW r \in Requests, NEW s, Goto(r, s) \/ (Return(r) /\ s = "idle"), s \notin Calling
      PROVE  pc'[r] \notin Calling /\ \A v \in Requests \ {r} : pc'[v] = pc[v] /\ op'[v] = op[v]
  BY <1>g, GotoFrame, ReturnFrame
<1>k. ASSUME NEW r \in Requests, NEW s, Goto(r, s) \/ (Return(r) /\ s = "idle"), s \notin Calling,
             usage' = usage, sent' = sent, access' = access, consent' = consent
      PROVE  UsageInv'
  <2>1. CallsKept(NoPrompt)
    BY <1>k, <1>g, <1>o, CallEnds
  <2> QED
    BY <1>k, <1>t, <2>1, UsageKept
<1>e. ASSUME NEW r \in Requests, NEW s, NEW a \in UsageStatus, Settle(r, a, s), s \notin Calling,
             pc[r] \in Calling \/ (pc[r] = "reserve" /\ usage[op[r]] = "none"),
             sent' = sent, access' = access, consent' = consent
      PROVE  UsageInv'
  <2>1. CallsKept(op[r])
    BY <1>e, <1>g, CallEnds, OwnCall DEF Settle
  <2> QED
    BY <1>e, <1>o, <1>t, <2>1, UsageClosed DEF Settle
<1>u. ASSUME usage' = usage, sent' = sent, pc' = pc, op' = op,
             (\E v \in Requests : pc[v] = "provider") => access' = access /\ consent' = consent
      PROVE  UsageInv'
  <2>1. CallsKept(NoPrompt)
    BY <1>u, <1>o DEF CallsKept
  <2> QED
    BY <1>u, <1>t, <2>1, UsageKept
<1>1. ASSUME NEW r \in Requests, NEW b \in Bodies, Ask(r, b) PROVE UsageInv'
  <2>1. /\ pc'[r] = "claim" /\ op' = op /\ \A v \in Requests \ {r} : pc'[v] = pc[v]
    BY <1>1 DEF Ask, ChatTypeOK
  <2>2. usage' = usage /\ sent' = sent /\ access' = access /\ consent' = consent
    BY <1>1 DEF Ask, baseVars
  <2>3. CallsKept(NoPrompt)
    BY <1>s, <1>o, <2>1, <2>2, CallEnds
  <2> QED
    BY <1>t, <2>2, <2>3, UsageKept
<1>2. ASSUME NEW r \in Requests, Claim(r) PROVE UsageInv'
  <2>1. usage' = usage /\ sent' = sent /\ access' = access /\ consent' = consent
    BY <1>2 DEF Claim, ClaimDenied, ClaimInsert, ClaimConflict, ClaimExpired, ClaimClosed,
       ClaimChanged, ClaimReplay, ClaimProcessing, baseVars
  <2>2. CASE ClaimInsert(r)
    <3>1. pc'[r] = "search" /\ op' = op /\ \A v \in Requests \ {r} : pc'[v] = pc[v]
      BY <2>2 DEF ClaimInsert, ChatTypeOK
    <3>2. CallsKept(NoPrompt)
      BY <1>s, <1>o, <2>1, <3>1, CallEnds
    <3> QED
      BY <1>t, <2>1, <3>2, UsageKept
  <2>3. CASE ~ClaimInsert(r)
    <3>1. Return(r) \/ UNCHANGED requestVars
      BY <1>2, <2>3 DEF Claim, ClaimDenied, ClaimConflict, ClaimExpired, ClaimClosed,
         ClaimChanged, ClaimReplay, ClaimProcessing, Tell
    <3> QED
      BY <1>k, <1>s, <1>u, <2>1, <3>1 DEF requestVars
  <2> QED
    BY <2>2, <2>3
<1>3. ASSUME NEW r \in Requests, Search(r) PROVE UsageInv'
  <2>1. usage' = usage /\ sent' = sent /\ access' = access /\ consent' = consent
    BY <1>3 DEF Search, baseVars
  <2>2. /\ pc'[r] \in {"abandon", "store", "reserve"}
        /\ \A v \in Requests \ {r} : pc'[v] = pc[v] /\ op'[v] = op[v]
    BY <1>3 DEF Search, Goto, ChatTypeOK
  <2>3. CallsKept(NoPrompt)
    BY <1>s, <1>o, <2>1, <2>2, CallEnds
  <2> QED
    BY <1>t, <2>1, <2>3, UsageKept
<1>4. ASSUME NEW r \in Requests, Reserve(r) PROVE UsageInv'
  <2>b. sent' = sent /\ access' = access /\ consent' = consent
    BY <1>4 DEF Reserve, baseVars
  <2>1. CASE usage' = usage /\ (Goto(r, "abandon") \/ Goto(r, "store"))
    BY <1>k, <1>s, <2>b, <2>1
  <2>2. CASE usage[op[r]] = "none" /\ Goto(r, "policy")
             /\ usage' = [usage EXCEPT ![op[r]] = "HELD"]
    <3>0. op[r] \in Prompts
      BY <1>4, <1>o DEF Reserve
    <3>1. /\ op' = op /\ pc'[r] = "policy" /\ \A v \in Requests \ {r} : pc'[v] = pc[v]
      BY <2>2, GotoFrame
    <3>2. /\ usage'[op[r]] = "HELD"
          /\ \A x \in Prompts \ {op[r]} : usage'[x] = usage[x]
      BY <1>o, <3>0, <2>2 DEF ChatTypeOK
    <3>3. \A v \in Requests \ {r} : pc'[v] \in Calling => op[v] # op[r]
      BY <2>2, <3>1, OwnCall
    <3>4. sent[op[r]] = 0
      BY <1>o, <3>0, <2>2 DEF UsageInv
    <3>5. \A v \in Requests : pc'[v] \in Calling => usage'[op'[v]] = "HELD"
      BY <1>o, <3>0, <3>1, <3>2 DEF UsageInv
    <3>6. \A v, q \in Requests :
             pc'[v] \in Calling /\ pc'[q] \in Calling /\ op'[v] = op'[q] => v = q
      BY <3>1, <3>3 DEF UsageInv
    <3>7. (\A x \in Prompts : usage'[x] = "none" => sent'[x] = 0) /\ SentOnce'
      BY <2>b, <3>2 DEF UsageInv, SentOnce
    <3>8. \A v \in Requests : pc'[v] = "policy" => sent'[op'[v]] = 0
      BY <2>b, <3>1, <3>4 DEF UsageInv
    <3>9. \A v \in Requests : pc'[v] = "provider" => access' = TRUE /\ consent' = TRUE
      BY <2>b, <3>1 DEF UsageInv
    <3> QED
      BY <3>5, <3>6, <3>7, <3>8, <3>9 DEF UsageInv
  <2> QED
    BY <1>4, <2>1, <2>2 DEF Reserve
<1>5. ASSUME NEW r \in Requests, Policy(r) PROVE UsageInv'
  <2>b. access' = access /\ consent' = consent /\ pc[r] \in Calling
    BY <1>5, <1>s DEF Policy, baseVars
  <2>1. CASE sent' = sent /\ (Settle(r, "CLOSED", "store") \/ Settle(r, "CLOSED", "abandon"))
    <3>1. "CLOSED" \in UsageStatus
      BY DEF UsageStatus
    <3> QED
      BY <1>e, <1>s, <2>b, <2>1, <3>1
  <2>2. CASE access /\ consent /\ sent' = [sent EXCEPT ![op[r]] = @ + 1]
             /\ Goto(r, "provider") /\ usage' = usage
    <3>1. /\ op' = op /\ pc'[r] = "provider" /\ \A v \in Requests \ {r} : pc'[v] = pc[v]
      BY <2>2, GotoFrame
    <3>2. sent[op[r]] = 0 /\ usage[op[r]] = "HELD"
      BY <1>5, <2>b DEF UsageInv, Policy
    <3>3. sent'[op[r]] = 1 /\ \A x \in Prompts \ {op[r]} : sent'[x] = sent[x]
      BY <1>o, <2>b, <2>2, <3>2 DEF ChatTypeOK
    <3>4. \A v \in Requests \ {r} : pc[v] \in Calling => op[v] # op[r]
      BY <2>b, OwnCall
    <3>5. \A v \in Requests : pc'[v] \in Calling => usage'[op'[v]] = "HELD"
      BY <2>2, <3>1, <3>2 DEF UsageInv
    <3>6. \A v, q \in Requests :
             pc'[v] \in Calling /\ pc'[q] \in Calling /\ op'[v] = op'[q] => v = q
      BY <3>1, <3>4 DEF UsageInv
    <3>7. (\A x \in Prompts : usage'[x] = "none" => sent'[x] = 0) /\ SentOnce'
      BY <2>2, <3>2, <3>3 DEF UsageInv, SentOnce
    <3>8. \A v \in Requests : pc'[v] = "policy" => sent'[op'[v]] = 0
      BY <1>o, <1>s, <3>1, <3>3, <3>4 DEF UsageInv
    <3>9. access' = TRUE /\ consent' = TRUE
      BY <2>b, <2>2 DEF ChatTypeOK
    <3> QED
      BY <3>5, <3>6, <3>7, <3>8, <3>9 DEF UsageInv
  <2> QED
    BY <1>5, <2>1, <2>2 DEF Policy
<1>6. ASSUME NEW r \in Requests, ProviderReturns(r) PROVE UsageInv'
  <2>b. /\ sent' = sent /\ access' = access /\ consent' = consent /\ pc[r] \in Calling
        /\ "CLOSED" \in UsageStatus
    BY <1>6, <1>s DEF ProviderReturns, baseVars, UsageStatus
  <2>1. CASE Settle(r, "CLOSED", "store") \/ Settle(r, "CLOSED", "abandon")
    BY <1>e, <1>s, <2>b, <2>1
  <2>2. CASE /\ usage' = [usage EXCEPT ![op[r]] = "CLOSED"]
             /\ pc' = [pc EXCEPT ![r] = "reserve"]
             /\ \E m \in Models : op' = [op EXCEPT ![r] = <<"review", m>>]
    <3>1. /\ pc'[r] = "reserve"
          /\ \A v \in Requests \ {r} : pc'[v] = pc[v] /\ op'[v] = op[v]
      BY <2>2 DEF ChatTypeOK
    <3>2. CallsKept(op[r])
      BY <1>s, <2>b, <3>1, CallEnds, OwnCall
    <3> QED
      BY <1>o, <1>t, <2>b, <2>2, <3>2, UsageClosed
  <2> QED
    BY <1>6, <2>1, <2>2 DEF ProviderReturns
<1>7. ASSUME NEW r \in Requests, Store(r) PROVE UsageInv'
  <2>1. usage' = usage /\ sent' = sent /\ access' = access /\ consent' = consent
    BY <1>7 DEF Store, StoreFails, StoreChanged, StoreCompleted, baseVars
  <2>2. Return(r) \/ Goto(r, "verify")
    BY <1>7 DEF Store, StoreFails, StoreChanged, StoreCompleted, Tell
  <2> QED
    BY <1>k, <1>s, <2>1, <2>2
<1>8. ASSUME NEW r \in Requests, Terminalize(r) PROVE UsageInv'
  <2>1. usage' = usage /\ sent' = sent /\ access' = access /\ consent' = consent
    BY <1>8 DEF Terminalize, baseVars
  <2>2. PICK s : Report(r, s)
    BY <1>8 DEF Terminalize
  <2>3. Return(r)
    BY <1>8, <2>2 DEF Terminalize, Terminalizing, Report, Tell
  <2> QED
    BY <1>k, <1>s, <2>1, <2>3
<1>9. ASSUME NEW r \in Requests, TerminalizeFails(r) PROVE UsageInv'
  <2>1. usage' = usage /\ sent' = sent /\ access' = access /\ consent' = consent
    BY <1>9 DEF TerminalizeFails, baseVars
  <2>2. Return(r) \/ Goto(r, "silent")
    BY <1>9 DEF TerminalizeFails
  <2> QED
    BY <1>k, <1>s, <2>1, <2>2
<1>10. ASSUME NEW r \in Requests, Cancel(r) PROVE UsageInv'
  <2>1. sent' = sent /\ access' = access /\ consent' = consent
    BY <1>10 DEF Cancel, baseVars
  <2>2. CASE usage' = usage /\ (Return(r) \/ Goto(r, "silent"))
    BY <1>k, <1>s, <2>1, <2>2
  <2>3. CASE \E a \in UsageStatus :
                /\ Settle(r, a, "silent")
                /\ pc[r] \in Calling \/ (pc[r] = "reserve" /\ usage[op[r]] = "none")
    BY <1>e, <1>s, <2>1, <2>3
  <2> QED
    BY <1>10, <1>s, <2>2, <2>3 DEF Cancel, UsageStatus
<1>11. CASE Crash
  <2>1. /\ usage' = usage /\ sent' = sent /\ access' = access /\ consent' = consent
        /\ \A v \in Requests : pc'[v] = "idle"
    BY <1>11 DEF Crash, baseVars
  <2>2. CallsKept(NoPrompt)
    BY <1>s, <2>1 DEF CallsKept
  <2> QED
    BY <1>t, <2>1, <2>2, UsageKept
<1>12. CASE Timer \/ Cleanup \/ ChangeContent \/ ClearPoison \/ UNCHANGED chatVars
  <2>1. /\ usage' = usage /\ sent' = sent /\ access' = access /\ consent' = consent
        /\ pc' = pc /\ op' = op
    BY <1>12 DEF Timer, Cleanup, ChangeContent, ClearPoison, chatVars, baseVars, requestVars
  <2> QED
    BY <1>u, <2>1
<1>13. CASE SetConsent \/ SetAccess
  <2>1. usage' = usage /\ sent' = sent /\ pc' = pc /\ op' = op
    BY <1>13 DEF SetConsent, SetAccess, requestVars
  <2>2. ASSUME NEW v \in Requests, pc[v] = "provider" PROVE FALSE
    <3>1. usage[op[v]] = "HELD" /\ access = TRUE /\ consent = TRUE /\ op[v] \in Prompts
      BY <1>s, <1>o, <2>2 DEF UsageInv
    <3> QED
      BY <1>13, <3>1 DEF SetConsent, SetAccess, NoLease
  <2> QED
    BY <1>u, <2>1, <2>2
<1>14. ASSUME NEW o \in Prompts, ReconcileUsage(o) PROVE UsageInv'
  <2>1. /\ usage' = [usage EXCEPT ![o] = "CLOSED"] /\ sent' = sent /\ pc' = pc /\ op' = op
        /\ access' = access /\ consent' = consent /\ "CLOSED" \in UsageStatus
    BY <1>14 DEF ReconcileUsage, baseVars, requestVars, UsageStatus
  <2>2. CallsKept(o)
    BY <1>14, <2>1 DEF ReconcileUsage, CallsKept, Calling
  <2> QED
    BY <1>t, <2>1, <2>2, UsageClosed
<1> QED
  BY <1>1, <1>2, <1>3, <1>4, <1>5, <1>6, <1>7, <1>8, <1>9, <1>10, <1>11, <1>12, <1>13, <1>14
     DEF ChatNext, Step

-----------------------------------------------------------------------------
(* The theorems. *)

(* The ledger starts empty. *)
LEMMA ChatStart == ASSUME ChatInit PROVE ChatInv
<1> USE DEF ChatInit
<1>1. ChatTypeOK
  <2>1. /\ "none" \in UsageStatus \cup {"none"} /\ "idle" \in Steps
        /\ "none" \in Outcomes
    BY DEF Steps, Outcomes
  <2>2. /\ usage \in [Prompts -> UsageStatus \cup {"none"}] /\ sent \in [Prompts -> Nat]
        /\ pc \in [Requests -> Steps] /\ body \in [Requests -> Bodies \cup {NoBody}]
        /\ op \in [Requests -> Prompts \cup {NoPrompt}] /\ told \in [Ids -> Outcomes]
    BY <2>1
  <2>3. /\ mine \in [Requests -> 0..MaxCalls] /\ read \in [Requests -> 0..MaxVersion]
        /\ ids \in 0..MaxCalls /\ version \in 1..MaxVersion /\ calls \in 0..MaxCalls
        /\ faults \in 0..MaxFaults
    BY ChatAssumption
  <2> QED
    BY <2>2, <2>3, Zenon DEF ChatTypeOK
<1>2. Claiming = {}
  BY DEF Claiming
<1>3. CountInv
  BY <1>2, FS_EmptySet DEF CountInv
<1>4. \A r \in Requests : /\ pc[r] \notin Executing /\ pc[r] \notin Working
                          /\ pc[r] \notin Calling /\ pc[r] \notin Governed
  BY DEF Executing, Terminalizing, Working, Calling, Governed
<1>5. LedgerInv
  BY <1>4 DEF LedgerInv, AnswerMatchesVersion
<1>6. FaultInv
  BY <1>4 DEF FaultInv
<1>7. UsageInv /\ PromptInv
  BY <1>4 DEF UsageInv, PromptInv, SentOnce, Calling
<1> QED
  BY <1>1, <1>3, <1>5, <1>6, <1>7 DEF ChatInv

(* What execute_chat_query_idempotently, cleanup_chat_idempotency_records and
   GovernedLlmExecutor maintain together, whatever is cancelled, lost or
   revoked in between. *)
THEOREM ChatInvariant == ChatSpec => []ChatInv
<1>1. ChatInit => ChatInv
  BY ChatStart
<1>2. ChatInv /\ [ChatNext]_chatVars => ChatInv'
  BY LedgerInductive, FaultInductive, PromptInductive, UsageInductive DEF ChatInv
<1> QED
  BY <1>1, <1>2, PTL DEF ChatSpec

(* A stored response that is replayed was computed from the content version of
   its claim, rows are well formed, and the chat safety latch is set only after
   a fault: for every number of requests, bodies, versions and faults. *)
THEOREM ChatReplaySound == ChatSpec => []ReplaySound
<1>1. ChatInv => ReplaySound
  BY DEF ChatInv, LedgerInv, FaultInv, ReplaySound, PoisonOnlyByFault, ChatTypeOK
<1> QED
  BY <1>1, ChatInvariant, PTL

(* GovernedLlmExecutor sends each prompt of an idempotency key at most once to a
   provider and model, and no prompt is with a provider while access or consent
   is revoked; token versions may be raised at any time. *)
THEOREM ChatEgressSound == ChatSpec => []EgressSound
<1>1. ChatInv => EgressSound
  BY DEF ChatInv, UsageInv, EgressSound, EgressAuthorized
<1> QED
  BY <1>1, ChatInvariant, PTL

(* A client hears an answer only when it is durable, and after any client has
   heard that a claim failed or its content changed, nobody hears an answer of
   that claim: neither from a replay nor from its late handler. *)
THEOREM ChatOutcomeFinal == ChatSpec => OutcomeFinal
<1> DEFINE Kept == \A i \in Ids :
          /\ told[i] \in {"unknown", "changed"} => told'[i] # "ok"
          /\ told[i] # "ok" /\ told'[i] = "ok" =>
                record' # NoRecord /\ record'.id = i /\ record'.status = "COMPLETED"
<1>1. ASSUME ChatInv, [ChatNext]_chatVars PROVE Kept
  <2>1. CASE \E r \in Requests : ClaimInsert(r)
    <3>1. told' = told
      BY <2>1 DEF ClaimInsert
    <3> QED
      BY <3>1
  <2>2. CASE ~\E r \in Requests : ClaimInsert(r)
    <3>1. ToldMoves
      BY <1>1, <2>2, LedgerSteps DEF LedgerMove
    <3> QED
      BY <1>1, <3>1 DEF ToldMoves, ChatInv, LedgerInv
  <2> QED
    BY <2>1, <2>2
<1>2. ChatInv /\ [ChatNext]_chatVars => [Kept]_chatVars
  BY <1>1
<1> QED
  BY <1>2, ChatInvariant, PTL DEF ChatSpec, OutcomeFinal
=============================================================================
