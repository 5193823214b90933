----------------------- MODULE KnowledgePipelineProofs -----------------------
(***************************************************************************)
(* What the scan and conversion pipeline guarantees for every number of     *)
(* files, knowledge bases, workers and faults.                              *)
(***************************************************************************)
EXTENDS KnowledgePipeline, TLAPS

(* An absent knowledge base has no consent to read: only a file of a knowledge
   base ever gets a job. *)
JobHasBase == \A f \in Files : job[f] # "none" => Base[f] \in Bases

TypeInv == PipelineTypeOK /\ JobHasBase

(* What a claim puts in a worker's memory is well typed. *)
LEMMA FreshType ==
    ASSUME NEW f \in Files \cup {0}, NEW l \in Nat
    PROVE  Fresh(f, l) \in Claims /\ Fresh(f, l).file = f
BY DEF Fresh, Claims

(* So is the file row a worker reads. *)
LEMMA RowType ==
    ASSUME PipelineTypeOK, NEW f \in Files
    PROVE  Row(f) \in (FileStates \cup {""}) \X (ScanStates \cup {""})
                        \X (KnowledgeStates \cup {""})
BY DEF Row, PipelineTypeOK

(* The usage key of a working worker is a key. *)
LEMMA KeyType ==
    ASSUME PipelineTypeOK, NEW w \in Workers, pc[w] # "idle"
    PROVE  Key(w) \in Keys
<1>1. claim[w] \in Claims /\ claim[w].file \in Files
  BY DEF PipelineTypeOK
<1> QED
  BY <1>1 DEF Key, Keys, Claims

(* Moving a usage record between statuses keeps the book well typed. *)
LEMMA BookType ==
    ASSUME PipelineTypeOK, NEW k \in Keys, NEW s \in UsageStates, Book(k, s)
    PROVE  usage' \in [UsageStates -> SUBSET Keys]
BY DEF PipelineTypeOK, Book

(* A worker that goes on, or stops, keeps the types of its memory. *)
LEMMA GotoType ==
    ASSUME PipelineTypeOK, NEW w \in Workers, pc[w] # "idle", NEW s \in Steps,
           Goto(w, s)
    PROVE  /\ pc' \in [Workers -> Steps]
           /\ claim' \in [Workers -> Claims]
           /\ \A v \in Workers : pc'[v] # "idle" => claim'[v].file \in Files
BY DEF PipelineTypeOK, Goto

(* A worker that lets go of its claim stays well typed. *)
LEMMA DoneType ==
    ASSUME PipelineTypeOK, NEW w \in Workers, Done(w)
    PROVE  /\ pc' \in [Workers -> Steps]
           /\ claim' \in [Workers -> Claims]
           /\ \A v \in Workers : pc'[v] # "idle" => claim'[v].file \in Files
BY FreshType DEF PipelineTypeOK, Done, NoClaim, Steps

(* A fresh claim of file f. *)
LEMMA ClaimType ==
    ASSUME PipelineTypeOK, NEW w \in Workers, NEW f \in Files, NEW s \in Steps,
           pc' = [pc EXCEPT ![w] = s],
           claim' = [claim EXCEPT ![w] = Fresh(f, leases[f] + 1)]
    PROVE  /\ pc' \in [Workers -> Steps]
           /\ claim' \in [Workers -> Claims]
           /\ \A v \in Workers : pc'[v] # "idle" => claim'[v].file \in Files
<1>1. Fresh(f, leases[f] + 1) \in Claims /\ Fresh(f, leases[f] + 1).file = f
  BY FreshType DEF PipelineTypeOK
<1> QED
  BY <1>1 DEF PipelineTypeOK

(* CloseJob keeps the job row and the file row well formed. *)
LEMMA CloseJobType ==
    ASSUME TypeInv, NEW w \in Workers, pc[w] # "idle",
           NEW s \in JobStates, NEW k \in KnowledgeStates, CloseJob(w, s, k)
    PROVE  TypeInv'
<1>1. claim[w].file \in Files
  BY DEF TypeInv, PipelineTypeOK
<1>2. /\ job' \in [Files -> JobStates \cup {"none"}]
      /\ lease' \in [Files -> Nat]
      /\ knowledge' \in [Files -> KnowledgeStates]
  BY <1>1 DEF TypeInv, PipelineTypeOK, CloseJob
<1>3. due' \in [Files -> BOOLEAN]
  BY <1>1, Zenon DEF TypeInv, PipelineTypeOK, CloseJob
<1>4. \A f \in Files : job'[f] # "none" => job[f] # "none"
  BY <1>1 DEF TypeInv, PipelineTypeOK, CloseJob, OwnsJob
<1>5. PipelineTypeOK'
  BY <1>2, <1>3, DoneType DEF TypeInv, PipelineTypeOK, CloseJob, entryVars
<1> QED
  BY <1>4, <1>5 DEF TypeInv, JobHasBase

(* Every step keeps the rows and the memory of the workers well formed. *)
LEMMA TypeInductive == TypeInv /\ [PipelineNext]_pipelineVars => TypeInv'
<1> SUFFICES ASSUME TypeInv, [PipelineNext]_pipelineVars PROVE TypeInv'
  OBVIOUS
<1> USE DEF TypeInv, JobHasBase
<1>t. PipelineTypeOK
  OBVIOUS
<1>1. ASSUME NEW w \in Workers, NEW f \in Files, ClaimScan(w, f) PROVE TypeInv'
  <2>1. /\ pc' \in [Workers -> Steps]
        /\ claim' \in [Workers -> Claims]
        /\ \A v \in Workers : pc'[v] # "idle" => claim'[v].file \in Files
    BY <1>1, <1>t, ClaimType DEF ClaimScan, Steps
  <2> QED
    BY <1>1, <2>1 DEF ClaimScan, PipelineTypeOK, ScanStates, jobVars, entryVars
<1>2. ASSUME NEW w \in Workers, NEW f \in Files, ClaimJob(w, f) PROVE TypeInv'
  <2>1. /\ pc' \in [Workers -> Steps]
        /\ claim' \in [Workers -> Claims]
        /\ \A v \in Workers : pc'[v] # "idle" => claim'[v].file \in Files
    BY <1>2, <1>t, ClaimType DEF ClaimJob, Steps
  <2>2. job[f] # "none"
    BY <1>2 DEF ClaimJob, Selects, Convertible
  <2> QED
    BY <1>2, <2>1, <2>2 DEF ClaimJob, PipelineTypeOK, JobStates, fileVars, entryVars
<1>3. ASSUME NEW w \in Workers, NEW v \in {"CLEAN", "INFECTED", "ERROR"},
             FinishScan(w, v)
      PROVE  TypeInv'
  <2>1. claim[w].file \in Files
    BY <1>3 DEF FinishScan, PipelineTypeOK
  <2>2. /\ fileStatus' \in [Files -> FileStates]
        /\ scan' \in [Files -> ScanStates]
        /\ scanLease' \in [Files -> Nat]
    BY <1>3, <2>1 DEF FinishScan, PipelineTypeOK, FileStates, ScanStates, fileVars
  <2>3. scanDue' \in [Files -> BOOLEAN]
    BY <1>3, <2>1, Zenon DEF FinishScan, PipelineTypeOK, fileVars
  <2>4. /\ knowledge' \in [Files -> KnowledgeStates]
        /\ job' \in [Files -> JobStates \cup {"none"}]
    BY <1>3, <2>1 DEF FinishScan, EnqueueConversion, PipelineTypeOK, KnowledgeStates,
       JobStates, fileVars
  <2>5. due' \in [Files -> BOOLEAN]
    BY <1>3, <2>1, Zenon DEF FinishScan, EnqueueConversion, PipelineTypeOK
  <2>6. \A f \in Files : job'[f] # "none" => Base[f] \in Bases
    BY <1>3, <2>1, PipelineAssumption DEF FinishScan, EnqueueConversion,
       PipelineTypeOK, fileVars
  <2> QED
    BY <1>3, <1>t, <2>2, <2>3, <2>4, <2>5, <2>6, DoneType DEF FinishScan, PipelineTypeOK,
       entryVars
<1>4. ASSUME NEW w \in Workers, LoadClaim(w) PROVE TypeInv'
  <2>1. claim[w].file \in Files
    BY <1>4 DEF LoadClaim, PipelineTypeOK
  <2>2. CASE ~OwnsJob(w)
    BY <1>4, <1>t, <2>2, DoneType DEF LoadClaim, PipelineTypeOK, fileVars, jobVars,
       entryVars
  <2>3. CASE OwnsJob(w)
    <3> DEFINE f == claim[w].file
               c == [file |-> f, lease |-> claim[w].lease, gen |-> generation[f],
                     attempt |-> attempts[f], consent |-> consent[Base[f]],
                     row |-> Row(f)]
    <3>1. claim[w].lease \in Nat /\ generation[f] \in Nat /\ attempts[f] \in Nat
      BY <2>1 DEF PipelineTypeOK, Claims
    <3>2. consent[Base[f]] \in BOOLEAN
      BY <2>1, <2>3 DEF OwnsJob, PipelineTypeOK
    <3>3. c \in Claims /\ c.file \in Files
      BY <1>t, <2>1, <3>1, <3>2, RowType DEF Claims
    <3>4. claim' = [claim EXCEPT ![w] = c] /\ pc' = [pc EXCEPT ![w] = "parse"]
      BY <1>4, <2>3 DEF LoadClaim
    <3> HIDE DEF c
    <3> QED
      BY <1>4, <3>3, <3>4 DEF LoadClaim, PipelineTypeOK, Steps, fileVars, jobVars,
         entryVars
  <2> QED
    BY <2>2, <2>3
<1>5. ASSUME NEW w \in Workers, ParseDocument(w) PROVE TypeInv'
  BY <1>5, <1>t, GotoType DEF ParseDocument, PipelineTypeOK, Steps, fileVars,
     jobVars, entryVars
<1>6. ASSUME NEW w \in Workers, CheckCurrent(w) PROVE TypeInv'
  BY <1>6, <1>t, GotoType, DoneType DEF CheckCurrent, PipelineTypeOK, Steps,
     fileVars, jobVars, entryVars
<1>7. ASSUME NEW w \in Workers, ReserveUsage(w) PROVE TypeInv'
  <2>1. usage' \in [UsageStates -> SUBSET Keys]
    BY <1>7, <1>t, KeyType, BookType DEF ReserveUsage, PipelineTypeOK, UsageStates
  <2> QED
    BY <1>7, <1>t, <2>1, GotoType DEF ReserveUsage, PipelineTypeOK, Steps,
       EgressSteps, fileVars, jobVars, entryVars
<1>8. ASSUME NEW w \in Workers, EgressPolicy(w) PROVE TypeInv'
  BY <1>8, <1>t, GotoType DEF EgressPolicy, PipelineTypeOK, Steps, EgressSteps,
     fileVars, jobVars, entryVars
<1>9. ASSUME NEW w \in Workers, RecheckClaim(w) PROVE TypeInv'
  BY <1>9, <1>t, GotoType DEF RecheckClaim, PipelineTypeOK, Steps, EgressSteps,
     fileVars, jobVars, entryVars
<1>10. ASSUME NEW w \in Workers, DenyEgress(w) PROVE TypeInv'
  <2>1. usage' \in [UsageStates -> SUBSET Keys]
    BY <1>10, <1>t, KeyType, BookType DEF DenyEgress, UsageStates
  <2> QED
    BY <1>10, <1>t, <2>1, GotoType DEF DenyEgress, PipelineTypeOK, Steps, fileVars,
       jobVars, entryVars
<1>11. ASSUME NEW w \in Workers, ProviderReturns(w) PROVE TypeInv'
  <2>1. PICK s \in Outcomes : Book(Key(w), "CLOSED") /\ Goto(w, s)
    BY <1>11 DEF ProviderReturns
  <2>2. "CLOSED" \in UsageStates /\ s \in Steps
    BY DEF Outcomes, UsageStates, Steps
  <2>3. usage' \in [UsageStates -> SUBSET Keys]
    BY <1>11, <1>t, <2>1, <2>2, KeyType, BookType DEF ProviderReturns
  <2> QED
    BY <1>11, <1>t, <2>1, <2>2, <2>3, GotoType DEF ProviderReturns, PipelineTypeOK,
       fileVars, jobVars, entryVars
<1>12. ASSUME NEW w \in Workers, PersistResult(w) PROVE TypeInv'
  <2>1. claim[w].file \in Files
    BY <1>12 DEF PersistResult, PipelineTypeOK
  <2>2. /\ job' \in [Files -> JobStates \cup {"none"}]
        /\ lease' \in [Files -> Nat]
        /\ knowledge' \in [Files -> KnowledgeStates]
    BY <1>12, <2>1 DEF PersistResult, PipelineTypeOK, JobStates, KnowledgeStates
  <2>3. /\ entry' \in [Files -> {"none", "DRAFT", "PUBLISHED"}]
        /\ drafts' \in [Files -> Nat]
    BY <1>12, <2>1 DEF PersistResult, PipelineTypeOK, entryVars
  <2>4. \A f \in Files : job'[f] # "none" => job[f] # "none"
    BY <1>12, <2>1 DEF PersistResult, PipelineTypeOK, IsCurrent, OwnsJob
  <2> QED
    BY <1>12, <1>t, <2>2, <2>3, <2>4, DoneType DEF PersistResult, PipelineTypeOK
<1>13. ASSUME NEW w \in Workers, MarkFailure(w) PROVE TypeInv'
  BY <1>13, CloseJobType DEF MarkFailure, JobStates, KnowledgeStates
<1>14. ASSUME NEW w \in Workers, FinishTerminal(w) PROVE TypeInv'
  BY <1>14, CloseJobType DEF FinishTerminal, JobStates, KnowledgeStates
<1>15. ASSUME NEW w \in Workers, Crash(w) PROVE TypeInv'
  BY <1>15, <1>t, DoneType, PipelineAssumption DEF Crash, PipelineTypeOK, fileVars, jobVars,
     entryVars
<1>16. ASSUME NEW w \in Workers, CancelCycle(w) PROVE TypeInv'
  <2>1. usage' \in [UsageStates -> SUBSET Keys]
    BY <1>16, <1>t, KeyType, BookType DEF CancelCycle, UsageStates
  <2> QED
    BY <1>16, <1>t, <2>1, DoneType, PipelineAssumption DEF CancelCycle, PipelineTypeOK, fileVars,
       jobVars, entryVars
<1>17. ASSUME NEW f \in Files, RetryConversion(f) PROVE TypeInv'
  BY <1>17 DEF RetryConversion, PipelineTypeOK, JobStates, KnowledgeStates,
     entryVars, workerVars
<1>18. ASSUME NEW f \in Files, ApproveFile(f) PROVE TypeInv'
  BY <1>18 DEF ApproveFile, PipelineTypeOK, FileStates, KnowledgeStates, jobVars,
     workerVars
<1>19. ASSUME NEW b \in Bases, NEW e \in BOOLEAN, SetConsent(b, e) PROVE TypeInv'
  BY <1>19 DEF SetConsent, PipelineTypeOK, fileVars, jobVars, entryVars, workerVars
<1>20. ASSUME NEW k \in usage["HELD"], ReconcileUsage(k) PROVE TypeInv'
  <2>1. k \in Keys
    BY DEF PipelineTypeOK, UsageStates
  <2>2. usage' \in [UsageStates -> SUBSET Keys]
    BY <1>20, <1>t, <2>1, BookType DEF ReconcileUsage, UsageStates
  <2> QED
    BY <1>20, <2>2 DEF ReconcileUsage, PipelineTypeOK, fileVars, jobVars, entryVars,
       workerVars
<1>21. ASSUME NEW f \in Files, ScanTimer(f) PROVE TypeInv'
  BY <1>21, PipelineAssumption DEF ScanTimer, PipelineTypeOK, jobVars, entryVars, workerVars
<1>22. ASSUME NEW f \in Files, JobTimer(f) PROVE TypeInv'
  BY <1>22, PipelineAssumption DEF JobTimer, PipelineTypeOK, fileVars, entryVars, workerVars
<1>23. CASE UNCHANGED pipelineVars
  BY <1>23 DEF pipelineVars, PipelineTypeOK, fileVars, jobVars, entryVars, workerVars
<1> QED
  BY <1>1, <1>2, <1>3, <1>4, <1>5, <1>6, <1>7, <1>8, <1>9, <1>10, <1>11, <1>12,
     <1>13, <1>14, <1>15, <1>16, <1>17, <1>18, <1>19, <1>20, <1>21, <1>22, <1>23
     DEF PipelineNext, Claim, Step, Operate

(* The types hold at the start. *)
LEMMA TypeInit == PipelineInit => TypeInv
<1> SUFFICES ASSUME PipelineInit PROVE TypeInv
  OBVIOUS
<1>1. NoClaim \in Claims
  BY FreshType DEF NoClaim
<1>2. faults \in 0..MaxFaults
  BY PipelineAssumption DEF PipelineInit
<1> QED
  BY <1>1, <1>2 DEF PipelineInit, TypeInv, JobHasBase, PipelineTypeOK, FileStates,
     ScanStates, JobStates, KnowledgeStates, Steps

(* The rows and the workers' memory are well formed in every reachable state. *)
THEOREM PipelineTypeCorrect == PipelineSpec => []PipelineTypeOK
<1>1. PipelineSpec => []TypeInv
  BY TypeInit, TypeInductive, PTL DEF PipelineSpec
<1>2. TypeInv => PipelineTypeOK
  BY DEF TypeInv
<1> QED
  BY <1>1, <1>2, PTL

-----------------------------------------------------------------------------
(* A lease id is issued to one worker only, and only files of a knowledge base
   are converted. *)
LeaseInv ==
    /\ \A w \in Workers :
          pc[w] \notin {"idle", "scan"} => Base[claim[w].file] \in Bases
    /\ \A w \in Workers : pc[w] # "idle" => claim[w].lease <= leases[claim[w].file]
    /\ \A v, w \in Workers :
          /\ pc[v] # "idle" /\ pc[w] # "idle"
          /\ claim[v].file = claim[w].file /\ claim[v].lease = claim[w].lease
          => v = w

(* Why no two workers send one file, and none without consent.  A hold belongs
   to the one worker that made it and stays HELD until that worker settles it;
   while it does, the job is not reclaimed and consent is not withdrawn. *)
EgressInv ==
    /\ \A w \in Workers : pc[w] \in EgressSteps => Key(w) \in usage["HELD"]
    /\ \A v, w \in Workers :
          pc[v] \in EgressSteps /\ pc[w] \in EgressSteps /\ Key(v) = Key(w) => v = w
    /\ \A w \in Workers : pc[w] = "provider" => OwnsJob(w)
    /\ \A w \in Workers :
          pc[w] \in {"recheck", "provider"} => consent[Base[claim[w].file]] = TRUE

(* No worker takes up a new claim and no lease id is issued. *)
MemoryKept ==
    /\ leases' = leases
    /\ \A v \in Workers : pc'[v] # "idle" =>
          /\ pc[v] # "idle"
          /\ pc[v] = "scan" => pc'[v] = "scan"
          /\ claim'[v].file = claim[v].file
          /\ claim'[v].lease = claim[v].lease

(* A step that issues no lease and starts no claim preserves LeaseInv. *)
LEMMA LeaseFrame == ASSUME LeaseInv, MemoryKept PROVE LeaseInv'
BY DEF LeaseInv, MemoryKept

(* Moving on is such a step. *)
LEMMA GotoKeeps ==
    ASSUME TypeInv, NEW w \in Workers, pc[w] \notin {"idle", "scan"}, NEW s,
           Goto(w, s), leases' = leases
    PROVE  MemoryKept
BY DEF MemoryKept, Goto, TypeInv, PipelineTypeOK

(* So is letting go. *)
LEMMA DoneKeeps ==
    ASSUME TypeInv, NEW w \in Workers, Done(w), leases' = leases
    PROVE  MemoryKept
BY DEF MemoryKept, Done, TypeInv, PipelineTypeOK

(* A claim gets a number above all that were issued for its file. *)
LEMMA LeaseClaim ==
    ASSUME TypeInv, LeaseInv, NEW w \in Workers, NEW f \in Files, NEW s,
           s = "scan" \/ Base[f] \in Bases,
           pc' = [pc EXCEPT ![w] = s],
           leases' = [leases EXCEPT ![f] = @ + 1],
           claim' = [claim EXCEPT ![w] = Fresh(f, leases[f] + 1)]
    PROVE  LeaseInv'
<1>1. Fresh(f, leases[f] + 1).file = f /\ Fresh(f, leases[f] + 1).lease = leases[f] + 1
  BY DEF Fresh
<1>2. claim'[w].file = f /\ claim'[w].lease = leases[f] + 1
  BY <1>1 DEF TypeInv, PipelineTypeOK
<1>3. \A v \in Workers \ {w} : claim'[v] = claim[v] /\ pc'[v] = pc[v]
  BY DEF TypeInv, PipelineTypeOK
<1>4. \A v \in Workers : pc[v] # "idle" =>
         claim[v].file \in Files /\ claim[v].lease \in Nat
  BY DEF TypeInv, PipelineTypeOK, Claims
<1>5. \A g \in Files : leases[g] \in Nat /\ leases'[g] >= leases[g]
  BY DEF TypeInv, PipelineTypeOK
<1>6. leases'[f] = leases[f] + 1
  BY DEF TypeInv, PipelineTypeOK
<1>7. \A v \in Workers \ {w} : pc[v] # "idle" /\ claim[v].file = f =>
         claim[v].lease < leases[f] + 1
  BY <1>4, <1>5 DEF LeaseInv
<1>8. \A v \in Workers : pc'[v] # "idle" => claim'[v].lease <= leases'[claim'[v].file]
  <2> TAKE v \in Workers
  <2> HAVE pc'[v] # "idle"
  <2>1. CASE v = w
    BY <2>1, <1>2, <1>5, <1>6
  <2>2. CASE v # w
    <3>1. claim[v].lease <= leases[claim[v].file] /\ claim'[v] = claim[v]
      BY <2>2, <1>3 DEF LeaseInv
    <3>2. claim[v].file \in Files /\ claim[v].lease \in Nat
      BY <2>2, <1>3, <1>4
    <3>3. leases[claim[v].file] \in Nat /\ leases'[claim[v].file] \in Nat
      BY <3>2 DEF TypeInv, PipelineTypeOK
    <3> QED
      BY <3>1, <3>2, <3>3, <1>5
  <2> QED
    BY <2>1, <2>2
<1>9. ASSUME NEW u \in Workers, NEW v \in Workers, pc'[u] # "idle", pc'[v] # "idle",
             claim'[u].file = claim'[v].file, claim'[u].lease = claim'[v].lease
      PROVE  u = v
  <2>1. CASE u = w /\ v # w
    BY <2>1, <1>9, <1>2, <1>3, <1>4, <1>5, <1>7
  <2>2. CASE v = w /\ u # w
    BY <2>2, <1>9, <1>2, <1>3, <1>4, <1>5, <1>7
  <2>3. CASE u # w /\ v # w
    BY <2>3, <1>9, <1>3 DEF LeaseInv
  <2> QED
    BY <2>1, <2>2, <2>3
<1>10. \A v \in Workers : pc'[v] \notin {"idle", "scan"} => Base[claim'[v].file] \in Bases
  BY <1>2, <1>3 DEF LeaseInv, TypeInv, PipelineTypeOK
<1> QED
  BY <1>8, <1>9, <1>10 DEF LeaseInv

(* Every step preserves the uniqueness of leases. *)
LEMMA LeaseInductive ==
    TypeInv /\ LeaseInv /\ [PipelineNext]_pipelineVars => LeaseInv'
<1> SUFFICES ASSUME TypeInv, LeaseInv, [PipelineNext]_pipelineVars PROVE LeaseInv'
  OBVIOUS
<1>1. ASSUME NEW w \in Workers, NEW f \in Files, ClaimScan(w, f) \/ ClaimJob(w, f)
      PROVE  LeaseInv'
  <2>1. CASE ClaimScan(w, f)
    BY <2>1, LeaseClaim DEF ClaimScan
  <2>2. CASE ClaimJob(w, f)
    <3>1. Base[f] \in Bases
      BY <2>2 DEF ClaimJob, Selects, Convertible, TypeInv, JobHasBase
    <3> QED
      BY <2>2, <3>1, LeaseClaim DEF ClaimJob
  <2> QED
    BY <1>1, <2>1, <2>2
<1>2. ASSUME NEW w \in Workers, Step(w) PROVE MemoryKept
  <2>1. ASSUME NEW v \in {"CLEAN", "INFECTED", "ERROR"}, FinishScan(w, v)
        PROVE  MemoryKept
    BY <2>1, DoneKeeps DEF FinishScan
  <2>2. CASE LoadClaim(w)
    <3>1. CASE OwnsJob(w)
      BY <2>2, <3>1 DEF LoadClaim, MemoryKept, TypeInv, PipelineTypeOK
    <3>2. CASE ~OwnsJob(w)
      BY <2>2, <3>2, DoneKeeps DEF LoadClaim
    <3> QED
      BY <3>1, <3>2
  <2>3. CASE ParseDocument(w) \/ CheckCurrent(w) \/ ReserveUsage(w)
    BY <2>3, GotoKeeps, DoneKeeps DEF ParseDocument, CheckCurrent, ReserveUsage
  <2>4. CASE EgressPolicy(w) \/ RecheckClaim(w) \/ DenyEgress(w) \/ ProviderReturns(w)
    BY <2>4, GotoKeeps DEF EgressPolicy, RecheckClaim, DenyEgress, ProviderReturns
  <2>5. CASE PersistResult(w) \/ MarkFailure(w) \/ FinishTerminal(w)
    BY <2>5, DoneKeeps DEF PersistResult, MarkFailure, FinishTerminal, CloseJob
  <2> QED
    BY <1>2, <2>1, <2>2, <2>3, <2>4, <2>5 DEF Step
<1>3. ASSUME NEW w \in Workers, Crash(w) \/ CancelCycle(w) PROVE MemoryKept
  BY <1>3, DoneKeeps DEF Crash, CancelCycle
<1>4. ASSUME Operate PROVE MemoryKept
  BY <1>4 DEF Operate, RetryConversion, ApproveFile, SetConsent, ReconcileUsage,
     MemoryKept, workerVars
<1>5. ASSUME NEW f \in Files, ScanTimer(f) \/ JobTimer(f) PROVE MemoryKept
  BY <1>5 DEF ScanTimer, JobTimer, MemoryKept, workerVars
<1>6. ASSUME UNCHANGED pipelineVars PROVE MemoryKept
  BY <1>6 DEF pipelineVars, MemoryKept, workerVars
<1> QED
  BY <1>1, <1>2, <1>3, <1>4, <1>5, <1>6, LeaseFrame DEF PipelineNext, Claim

(* A step that starts no egress step, keeps the holds, the jobs of the calls
   under way and the consents they rest on preserves EgressInv. *)
LEMMA EgressFrame ==
    ASSUME EgressInv,
           \A v \in Workers : pc'[v] \in EgressSteps =>
               /\ pc'[v] = pc[v] /\ claim'[v] = claim[v]
               /\ Key(v) \in usage'["HELD"],
           \A v \in Workers : pc'[v] = "provider" =>
               /\ job'[claim[v].file] = job[claim[v].file]
               /\ lease'[claim[v].file] = lease[claim[v].file],
           \A v \in Workers : pc'[v] \in {"recheck", "provider"} =>
               consent'[Base[claim[v].file]] = consent[Base[claim[v].file]]
    PROVE  EgressInv'
<1>1. \A v \in Workers : pc'[v] \in EgressSteps => Key(v)' = Key(v)
  BY DEF Key
<1>2. \A v \in Workers : pc'[v] = "provider" => OwnsJob(v)' = OwnsJob(v)
  BY DEF OwnsJob, EgressSteps
<1>3. \A v \in Workers : pc'[v] \in {"recheck", "provider"} => pc'[v] \in EgressSteps
  BY DEF EgressSteps
<1> QED
  BY <1>1, <1>2, <1>3 DEF EgressInv, EgressSteps

(* A worker that settles its own record leaves the holds of the others. *)
LEMMA BookOwn ==
    ASSUME TypeInv, EgressInv, NEW w \in Workers, pc[w] \in EgressSteps,
           NEW s \in UsageStates, Book(Key(w), s)
    PROVE  \A v \in Workers \ {w} : pc[v] \in EgressSteps => Key(v) \in usage'["HELD"]
<1>1. \A v \in Workers \ {w} : pc[v] \in EgressSteps =>
         Key(v) \in usage["HELD"] /\ Key(v) # Key(w)
  BY DEF EgressInv
<1>2. \A k \in usage["HELD"] : k # Key(w) => k \in usage'["HELD"]
  BY DEF Book, UsageStates
<1> QED
  BY <1>1, <1>2

(* Moving on touches one worker. *)
LEMMA GotoFrame ==
    ASSUME TypeInv, NEW w \in Workers, NEW s, Goto(w, s)
    PROVE  /\ claim' = claim /\ pc'[w] = s
           /\ \A v \in Workers \ {w} : pc'[v] = pc[v]
BY DEF Goto, TypeInv, PipelineTypeOK

(* Letting go touches one worker, which is then outside every egress step. *)
LEMMA DoneFrame ==
    ASSUME TypeInv, NEW w \in Workers, Done(w)
    PROVE  /\ pc'[w] = "idle"
           /\ \A v \in Workers \ {w} : pc'[v] = pc[v] /\ claim'[v] = claim[v]
BY DEF Done, TypeInv, PipelineTypeOK

(* A worker that owns its job is not the one that is calling for another. *)
LEMMA OwnersDiffer ==
    ASSUME TypeInv, LeaseInv, EgressInv, NEW w \in Workers, pc[w] # "idle",
           OwnsJob(w), NEW v \in Workers, v # w, pc[v] = "provider"
    PROVE  claim[v].file # claim[w].file
BY DEF LeaseInv, EgressInv, OwnsJob

(* The order in which the code works: the hold is committed before consent and
   claim are checked, and both the reclaim and the withdrawal look for it. *)
LEMMA EgressInductive ==
    TypeInv /\ LeaseInv /\ EgressInv /\ [PipelineNext]_pipelineVars => EgressInv'
<1> SUFFICES ASSUME TypeInv, LeaseInv, EgressInv, [PipelineNext]_pipelineVars
             PROVE  EgressInv'
  OBVIOUS
<1>k. \A v \in Workers : pc[v] \in EgressSteps =>
         /\ Key(v) \in usage["HELD"] /\ Key(v)[1] = claim[v].file
         /\ claim[v].file \in Files /\ pc[v] # "idle"
  BY DEF EgressInv, Key, TypeInv, PipelineTypeOK, EgressSteps
<1>p. \A v \in Workers : pc[v] = "provider" =>
         job[claim[v].file] = "PROCESSING" /\ pc[v] \in EgressSteps
  BY DEF EgressInv, OwnsJob, EgressSteps
<1>1. ASSUME NEW w \in Workers, NEW f \in Files, ClaimScan(w, f) PROVE EgressInv'
  <2>1. \A v \in Workers \ {w} : pc'[v] = pc[v] /\ claim'[v] = claim[v]
    BY <1>1 DEF ClaimScan, TypeInv, PipelineTypeOK
  <2>2. pc'[w] = "scan" /\ usage' = usage /\ consent' = consent
        /\ job' = job /\ lease' = lease
    BY <1>1 DEF ClaimScan, TypeInv, PipelineTypeOK, jobVars
  <2> QED
    BY <1>k, <2>1, <2>2, EgressFrame DEF EgressSteps
<1>2. ASSUME NEW w \in Workers, NEW f \in Files, ClaimJob(w, f) PROVE EgressInv'
  <2>1. \A v \in Workers \ {w} : pc'[v] = pc[v] /\ claim'[v] = claim[v]
    BY <1>2 DEF ClaimJob, TypeInv, PipelineTypeOK
  <2>2. pc'[w] = "load" /\ usage' = usage /\ consent' = consent
    BY <1>2 DEF ClaimJob, TypeInv, PipelineTypeOK
  <2>3. \A v \in Workers : pc[v] = "provider" => claim[v].file # f
    <3>1. SUFFICES ASSUME NEW v \in Workers, pc[v] = "provider", claim[v].file = f
                   PROVE  FALSE
      OBVIOUS
    <3>2. job[f] = "PROCESSING"
      BY <1>p, <3>1
    <3>3. ActiveEgress(f)
      BY <1>k, <1>p, <3>1 DEF ActiveEgress
    <3> QED
      BY <1>2, <3>2, <3>3 DEF ClaimJob
  <2>4. \A g \in Files \ {f} : job'[g] = job[g] /\ lease'[g] = lease[g]
    BY <1>2 DEF ClaimJob, TypeInv, PipelineTypeOK
  <2>5. \A v \in Workers : pc'[v] \in EgressSteps => v # w
    BY <2>2 DEF EgressSteps
  <2>6. \A v \in Workers : pc'[v] = "provider" =>
           v # w /\ pc[v] = "provider" /\ claim[v].file \in Files \ {f}
    BY <1>k, <1>p, <2>1, <2>2, <2>3
  <2>7. \A v \in Workers : pc'[v] = "provider" =>
           job'[claim[v].file] = job[claim[v].file]
           /\ lease'[claim[v].file] = lease[claim[v].file]
    BY <2>4, <2>6
  <2> QED
    BY <1>k, <2>1, <2>2, <2>5, <2>7, EgressFrame
<1>3. ASSUME NEW w \in Workers, NEW v \in {"CLEAN", "INFECTED", "ERROR"},
             FinishScan(w, v)
      PROVE  EgressInv'
  <2>1. \A g \in Files : job[g] # "none" => job'[g] = job[g]
    BY <1>3 DEF FinishScan, EnqueueConversion, TypeInv, PipelineTypeOK, fileVars
  <2>2. lease' = lease /\ usage' = usage /\ consent' = consent /\ Done(w)
    BY <1>3 DEF FinishScan
  <2> QED
    BY <1>k, <1>p, <2>1, <2>2, DoneFrame, EgressFrame DEF EgressSteps
<1>4. ASSUME NEW w \in Workers, LoadClaim(w) PROVE EgressInv'
  <2>1. \A v \in Workers \ {w} : pc'[v] = pc[v] /\ claim'[v] = claim[v]
    BY <1>4 DEF LoadClaim, Done, TypeInv, PipelineTypeOK
  <2>2. pc'[w] \in {"parse", "idle"}
    BY <1>4 DEF LoadClaim, Done, TypeInv, PipelineTypeOK
  <2>3. job' = job /\ lease' = lease /\ usage' = usage /\ consent' = consent
    BY <1>4 DEF LoadClaim, jobVars
  <2> QED
    BY <1>k, <2>1, <2>2, <2>3, EgressFrame DEF EgressSteps
<1>5. ASSUME NEW w \in Workers, ParseDocument(w) PROVE EgressInv'
  <2>1. job' = job /\ lease' = lease /\ usage' = usage /\ consent' = consent
    BY <1>5 DEF ParseDocument, jobVars
  <2> QED
    BY <1>5, <1>k, <2>1, GotoFrame, EgressFrame DEF ParseDocument, EgressSteps
<1>6. ASSUME NEW w \in Workers, CheckCurrent(w) PROVE EgressInv'
  <2>1. job' = job /\ lease' = lease /\ usage' = usage /\ consent' = consent
    BY <1>6 DEF CheckCurrent, jobVars
  <2>2. \A v \in Workers \ {w} : pc'[v] = pc[v] /\ claim'[v] = claim[v]
    BY <1>6, GotoFrame, DoneFrame DEF CheckCurrent
  <2>3. pc'[w] \notin EgressSteps
    BY <1>6, GotoFrame, DoneFrame DEF CheckCurrent, EgressSteps
  <2> QED
    BY <1>k, <2>1, <2>2, <2>3, EgressFrame DEF EgressSteps
<1>7. ASSUME NEW w \in Workers, ReserveUsage(w) PROVE EgressInv'
  <2>1. job' = job /\ lease' = lease /\ consent' = consent
    BY <1>7 DEF ReserveUsage, jobVars
  <2>2. CASE usage' = usage /\ (Goto(w, "fail") \/ Goto(w, "retry"))
    BY <1>k, <2>1, <2>2, GotoFrame, EgressFrame DEF EgressSteps
  <2>3. CASE ~KeyUsed(Key(w)) /\ Goto(w, "policy") /\ Book(Key(w), "HELD")
    <3>1. claim' = claim /\ pc'[w] = "policy"
          /\ \A v \in Workers \ {w} : pc'[v] = pc[v]
      BY <2>3, GotoFrame
    <3>2. \A v \in Workers : Key(v)' = Key(v) /\ OwnsJob(v)' = OwnsJob(v)
      BY <2>1, <3>1 DEF Key, OwnsJob
    <3>3. usage'["HELD"] = usage["HELD"] \cup {Key(w)}
      BY <2>3 DEF Book, UsageStates
    <3>4. \A v \in Workers \ {w} : pc[v] \in EgressSteps => Key(v) # Key(w)
      BY <1>k, <2>3 DEF KeyUsed, UsageStates
    <3> QED
      BY <2>1, <3>1, <3>2, <3>3, <3>4 DEF EgressInv
  <2> QED
    BY <1>7, <2>2, <2>3 DEF ReserveUsage
<1>8. ASSUME NEW w \in Workers, EgressPolicy(w) PROVE EgressInv'
  <2>1. job' = job /\ lease' = lease /\ consent' = consent /\ usage' = usage
    BY <1>8 DEF EgressPolicy, jobVars
  <2>2. /\ claim' = claim
        /\ \A v \in Workers \ {w} : pc'[v] = pc[v]
        /\ \/ consent[Base[claim[w].file]] /\ pc'[w] = "recheck"
           \/ pc'[w] = "deny"
    BY <1>8, GotoFrame DEF EgressPolicy
  <2>3. \A v \in Workers : Key(v)' = Key(v) /\ OwnsJob(v)' = OwnsJob(v)
    BY <2>1, <2>2 DEF Key, OwnsJob
  <2>4. pc[w] = "policy" /\ pc[w] \in EgressSteps
    BY <1>8 DEF EgressPolicy, EgressSteps
  <2>5. \A v \in Workers : pc'[v] \in EgressSteps => pc[v] \in EgressSteps
    BY <2>2, <2>4
  <2>6. pc'[w] # "provider" /\ (pc'[w] = "recheck" => consent[Base[claim[w].file]])
    BY <2>2
  <2> QED
    BY <2>1, <2>2, <2>3, <2>5, <2>6 DEF EgressInv
<1>9. ASSUME NEW w \in Workers, RecheckClaim(w) PROVE EgressInv'
  <2>1. job' = job /\ lease' = lease /\ consent' = consent /\ usage' = usage
    BY <1>9 DEF RecheckClaim, jobVars
  <2>2. /\ claim' = claim
        /\ \A v \in Workers \ {w} : pc'[v] = pc[v]
        /\ pc'[w] = IF IsCurrent(w) THEN "provider" ELSE "deny"
    BY <1>9, GotoFrame DEF RecheckClaim
  <2>3. \A v \in Workers : Key(v)' = Key(v) /\ OwnsJob(v)' = OwnsJob(v)
    BY <2>1, <2>2 DEF Key, OwnsJob
  <2>4. pc[w] = "recheck" /\ pc[w] \in EgressSteps
    BY <1>9 DEF RecheckClaim, EgressSteps
  <2>5. \A v \in Workers : pc'[v] \in EgressSteps => pc[v] \in EgressSteps
    BY <2>2, <2>4
  <2>6. pc'[w] # "recheck" /\ (pc'[w] = "provider" => OwnsJob(w))
    BY <2>2 DEF IsCurrent
  <2> QED
    BY <2>1, <2>2, <2>3, <2>4, <2>5, <2>6 DEF EgressInv
<1>10. ASSUME NEW w \in Workers, DenyEgress(w) \/ ProviderReturns(w) PROVE EgressInv'
  <2>1. job' = job /\ lease' = lease /\ consent' = consent
    BY <1>10 DEF DenyEgress, ProviderReturns, jobVars
  <2>2. pc[w] \in EgressSteps
    BY <1>10 DEF DenyEgress, ProviderReturns, EgressSteps
  <2>3. PICK s \in UsageStates, t \in {"persist", "retry", "fail"} :
           Book(Key(w), s) /\ Goto(w, t)
    BY <1>10 DEF DenyEgress, ProviderReturns, Outcomes, UsageStates
  <2> QED
    BY <2>1, <2>2, <2>3, BookOwn, GotoFrame, EgressFrame DEF EgressSteps
<1>11. ASSUME NEW w \in Workers, PersistResult(w) \/ MarkFailure(w) \/ FinishTerminal(w)
       PROVE  EgressInv'
  <2>1. usage' = usage /\ consent' = consent /\ Done(w) /\ pc[w] # "idle"
    BY <1>11 DEF PersistResult, MarkFailure, FinishTerminal, CloseJob
  <2>2. \A g \in Files : job'[g] # job[g] \/ lease'[g] # lease[g] =>
           OwnsJob(w) /\ g = claim[w].file
    BY <1>11 DEF PersistResult, MarkFailure, FinishTerminal, CloseJob, IsCurrent,
       TypeInv, PipelineTypeOK
  <2>3. \A v \in Workers \ {w} : pc[v] = "provider" /\ OwnsJob(w) =>
           claim[v].file # claim[w].file
    BY <2>1, OwnersDiffer
  <2>4. \A v \in Workers : pc'[v] \in EgressSteps => v # w
    BY <2>1, DoneFrame DEF EgressSteps
  <2>5. \A v \in Workers : pc'[v] = "provider" =>
           /\ job'[claim[v].file] = job[claim[v].file]
           /\ lease'[claim[v].file] = lease[claim[v].file]
    BY <1>k, <1>p, <2>1, <2>2, <2>3, <2>4, DoneFrame
  <2> QED
    BY <1>k, <2>1, <2>4, <2>5, DoneFrame, EgressFrame
<1>12. ASSUME NEW w \in Workers, Crash(w) PROVE EgressInv'
  <2>1. job' = job /\ lease' = lease /\ usage' = usage /\ consent' = consent
    BY <1>12 DEF Crash, jobVars
  <2> QED
    BY <1>12, <1>k, <2>1, DoneFrame, EgressFrame DEF Crash, EgressSteps
<1>13. ASSUME NEW w \in Workers, CancelCycle(w) PROVE EgressInv'
  <2>1. job' = job /\ lease' = lease /\ consent' = consent
    BY <1>13 DEF CancelCycle, jobVars
  <2>2. pc[w] \in EgressSteps /\ Done(w)
        /\ \E s \in UsageStates : Book(Key(w), s)
    BY <1>13 DEF CancelCycle, EgressSteps, UsageStates
  <2> QED
    BY <2>1, <2>2, BookOwn, DoneFrame, EgressFrame DEF EgressSteps
<1>14. ASSUME NEW f \in Files, RetryConversion(f) PROVE EgressInv'
  <2>1. usage' = usage /\ consent' = consent /\ pc' = pc /\ claim' = claim
    BY <1>14 DEF RetryConversion, workerVars
  <2>2. \A g \in Files : job[g] = "PROCESSING" => job'[g] = job[g] /\ lease'[g] = lease[g]
    BY <1>14 DEF RetryConversion, TypeInv, PipelineTypeOK
  <2> QED
    BY <1>k, <1>p, <2>1, <2>2, EgressFrame
<1>15. ASSUME NEW b \in Bases, NEW e \in BOOLEAN, SetConsent(b, e) PROVE EgressInv'
  <2>1. usage' = usage /\ job' = job /\ lease' = lease /\ pc' = pc /\ claim' = claim
    BY <1>15 DEF SetConsent, jobVars, workerVars
  <2>2. \A v \in Workers : pc[v] \in {"recheck", "provider"} =>
           pc[v] \in EgressSteps /\ consent[Base[claim[v].file]] = TRUE
    BY DEF EgressInv, EgressSteps
  <2>3. \A c \in Bases : c # b => consent'[c] = consent[c]
    BY <1>15 DEF SetConsent, TypeInv, PipelineTypeOK
  <2>4. consent'[b] = e
    BY <1>15 DEF SetConsent, TypeInv, PipelineTypeOK
  <2>5. \A v \in Workers : pc[v] \in {"recheck", "provider"} =>
           Base[claim[v].file] \in Bases
    BY DEF LeaseInv
  <2>6. ASSUME NEW v \in Workers, pc[v] \in {"recheck", "provider"}
        PROVE  consent'[Base[claim[v].file]] = consent[Base[claim[v].file]]
    <3>1. CASE Base[claim[v].file] # b
      BY <2>3, <2>5, <2>6, <3>1
    <3>2. CASE Base[claim[v].file] = b
      <4>1. Key(v) \in usage["HELD"] /\ Base[Key(v)[1]] = b
        BY <1>k, <2>2, <2>6, <3>2
      <4>2. consent[b] = TRUE
        BY <2>2, <2>6, <3>2
      <4>3. e # FALSE
        BY <1>15, <4>1, <4>2 DEF SetConsent
      <4> QED
        BY <2>4, <3>2, <4>2, <4>3
    <3> QED
      BY <3>1, <3>2
  <2> QED
    BY <1>k, <2>1, <2>6, EgressFrame
<1>16. ASSUME NEW k \in usage["HELD"], ReconcileUsage(k) PROVE EgressInv'
  <2>1. job' = job /\ lease' = lease /\ consent' = consent /\ pc' = pc /\ claim' = claim
    BY <1>16 DEF ReconcileUsage, jobVars, workerVars
  <2>2. \A h \in usage["HELD"] : h # k => h \in usage'["HELD"]
    BY <1>16 DEF ReconcileUsage, Book, UsageStates
  <2>3. \A v \in Workers : pc[v] \in EgressSteps => Key(v) # k
    BY <1>16 DEF ReconcileUsage
  <2> QED
    BY <1>k, <2>1, <2>2, <2>3, EgressFrame
<1>17. ASSUME NEW f \in Files, ApproveFile(f) \/ ScanTimer(f) \/ JobTimer(f)
       PROVE  EgressInv'
  <2>1. job' = job /\ lease' = lease /\ consent' = consent /\ pc' = pc /\ claim' = claim
        /\ usage' = usage
    BY <1>17 DEF ApproveFile, ScanTimer, JobTimer, jobVars, workerVars
  <2> QED
    BY <1>k, <2>1, EgressFrame
<1>18. CASE UNCHANGED pipelineVars
  <2>1. job' = job /\ lease' = lease /\ consent' = consent /\ pc' = pc /\ claim' = claim
        /\ usage' = usage
    BY <1>18 DEF pipelineVars, jobVars, workerVars
  <2> QED
    BY <1>k, <2>1, EgressFrame
<1> QED
  BY <1>1, <1>2, <1>3, <1>4, <1>5, <1>6, <1>7, <1>8, <1>9, <1>10, <1>11, <1>12,
     <1>13, <1>14, <1>15, <1>16, <1>17, <1>18
     DEF PipelineNext, Claim, Step, Operate

(* Initially no worker holds anything. *)
LEMMA OwnershipInit == PipelineInit => LeaseInv /\ EgressInv
BY DEF PipelineInit, LeaseInv, EgressInv, EgressSteps

(* The three invariants together, along every behaviour. *)
LEMMA OwnershipHolds == PipelineSpec => [](TypeInv /\ LeaseInv /\ EgressInv)
<1>1. PipelineInit => TypeInv /\ LeaseInv /\ EgressInv
  BY TypeInit, OwnershipInit
<1>2. TypeInv /\ LeaseInv /\ EgressInv /\ [PipelineNext]_pipelineVars
        => (TypeInv /\ LeaseInv /\ EgressInv)'
  BY TypeInductive, LeaseInductive, EgressInductive
<1> QED
  BY <1>1, <1>2, PTL DEF PipelineSpec

(* For any number of files, workers and knowledge bases and any attempt limit:
   while compile_okf is under way its worker owns the job, its usage record is
   HELD, and no other worker is sending the same file, although leases are
   reclaimed by time alone (_claim_job, find_active_llm_egress). *)
THEOREM PipelineEgressExclusive == PipelineSpec => []EgressExclusive
<1>1. TypeInv /\ LeaseInv /\ EgressInv => EgressExclusive
  <2> SUFFICES ASSUME TypeInv, LeaseInv, EgressInv,
                      NEW w \in Workers, pc[w] = "provider"
               PROVE  /\ OwnsJob(w)
                      /\ Key(w) \in usage["HELD"]
                      /\ \A v \in Workers :
                            pc[v] = "provider" /\ claim[v].file = claim[w].file
                              => v = w
    BY DEF EgressExclusive
  <2>1. OwnsJob(w) /\ Key(w) \in usage["HELD"]
    BY DEF EgressInv, EgressSteps
  <2>2. ASSUME NEW v \in Workers, pc[v] = "provider", claim[v].file = claim[w].file
        PROVE  v = w
    <3>1. OwnsJob(v)
      BY <2>2 DEF EgressInv
    <3>2. claim[v].lease = claim[w].lease
      BY <2>1, <2>2, <3>1 DEF OwnsJob
    <3> QED
      BY <2>2, <3>2 DEF LeaseInv
  <2> QED
    BY <2>1, <2>2
<1> QED
  BY <1>1, OwnershipHolds, PTL

(* For any constants: no call is under way for a knowledge base whose
   external_llm_processing_enabled is off, however PATCH /knowledge-bases races
   the claim, the hold and the egress policy check. *)
THEOREM PipelineConsentRespected == PipelineSpec => []ConsentRespected
<1>1. EgressInv => ConsentRespected
  BY DEF EgressInv, ConsentRespected
<1> QED
  BY <1>1, OwnershipHolds, PTL

-----------------------------------------------------------------------------
(* Files, jobs and drafts agree.  The three invariants support one another: a
   draft is inserted only for a PROCESSING job, which has none yet; a verdict
   is stored only for a quarantined file, which has no job. *)
ContentInv == OneDraft /\ PublishedIsClean /\ KnowledgeFollowsJob

contentVars == <<fileStatus, scan, knowledge, job, entry, drafts>>

(* The steps that touch none of the columns the invariant speaks of. *)
LEMMA ContentFrame ==
    ASSUME ContentInv, UNCHANGED contentVars
    PROVE  ContentInv'
BY DEF ContentInv, contentVars, OneDraft, PublishedIsClean, KnowledgeFollowsJob

(* What the invariant says of one file, and that nothing else matters to it. *)
FileInv(f) ==
    /\ drafts[f] <= 1
    /\ job[f] = "SUCCEEDED" <=> drafts[f] = 1
    /\ entry[f] # "none" <=> drafts[f] = 1
    /\ fileStatus[f] # "QUARANTINED" <=> scan[f] = "CLEAN"
    /\ job[f] # "none" => scan[f] = "CLEAN"
    /\ entry[f] = "PUBLISHED" <=> fileStatus[f] = "AVAILABLE"
    /\ job[f] = "none" => knowledge[f] = "NOT_REQUESTED"
    /\ job[f] \in {"PENDING", "PROCESSING", "RETRY_WAIT"} => knowledge[f] = "PENDING"
    /\ job[f] = "SUCCEEDED" =>
          knowledge[f] = IF entry[f] = "PUBLISHED" THEN "INDEXED" ELSE "DRAFT_READY"
    /\ job[f] \in {"FAILED", "UNSUPPORTED"} => knowledge[f] = job[f]

(* ContentInv is FileInv of every file. *)
LEMMA ContentPerFile == TypeInv => (ContentInv <=> \A f \in Files : FileInv(f))
<1> SUFFICES ASSUME TypeInv PROVE ContentInv <=> \A f \in Files : FileInv(f)
  OBVIOUS
<1>1. ASSUME NEW f \in Files
      PROVE  job[f] \in {"none", "PENDING", "PROCESSING", "RETRY_WAIT", "SUCCEEDED",
                         "FAILED", "UNSUPPORTED"}
  BY DEF TypeInv, PipelineTypeOK, JobStates
<1> QED
  BY <1>1 DEF ContentInv, OneDraft, PublishedIsClean, KnowledgeFollowsJob, FileInv

(* A step that changes the columns of one file at most has only that file to
   account for. *)
LEMMA ContentOne ==
    ASSUME TypeInv, TypeInv', ContentInv, NEW f \in Files,
           \A g \in Files \ {f} :
               /\ fileStatus'[g] = fileStatus[g] /\ scan'[g] = scan[g]
               /\ knowledge'[g] = knowledge[g] /\ job'[g] = job[g]
               /\ entry'[g] = entry[g] /\ drafts'[g] = drafts[g],
           FileInv(f) => FileInv(f)'
    PROVE  ContentInv'
<1>1. \A g \in Files : FileInv(g)
  BY ContentPerFile
<1>2. \A g \in Files \ {f} : FileInv(g)'
  BY <1>1 DEF FileInv
<1>3. \A g \in Files : FileInv(g)'
  BY <1>1, <1>2
<1>4. ASSUME NEW g \in Files
      PROVE  job'[g] \in {"none", "PENDING", "PROCESSING", "RETRY_WAIT", "SUCCEEDED",
                          "FAILED", "UNSUPPORTED"}
  BY DEF TypeInv, PipelineTypeOK, JobStates
<1> QED
  BY <1>3, <1>4 DEF ContentInv, OneDraft, PublishedIsClean, KnowledgeFollowsJob, FileInv

(* Every step preserves the agreement of files, jobs and drafts. *)
LEMMA ContentInductive ==
    TypeInv /\ TypeInv' /\ ContentInv /\ [PipelineNext]_pipelineVars => ContentInv'
<1> SUFFICES ASSUME TypeInv, TypeInv', ContentInv, [PipelineNext]_pipelineVars
             PROVE  ContentInv'
  OBVIOUS
<1> USE DEF contentVars
<1>t. \A w \in Workers : pc[w] # "idle" => claim[w].file \in Files
  BY DEF TypeInv, PipelineTypeOK
<1>1. ASSUME NEW w \in Workers, NEW f \in Files, ClaimScan(w, f) PROVE ContentInv'
  <2>1. fileStatus[f] = "QUARANTINED" /\ scan'[f] = "PROCESSING"
    BY <1>1 DEF ClaimScan, Selects, Scannable, TypeInv, PipelineTypeOK
  <2>2. fileStatus' = fileStatus /\ knowledge' = knowledge /\ job' = job
        /\ entry' = entry /\ drafts' = drafts
        /\ \A g \in Files \ {f} : scan'[g] = scan[g]
    BY <1>1 DEF ClaimScan, jobVars, entryVars, TypeInv, PipelineTypeOK
  <2>3. FileInv(f) => FileInv(f)'
    BY <2>1, <2>2 DEF FileInv
  <2> QED
    BY <2>2, <2>3, ContentOne
<1>2. ASSUME NEW w \in Workers, NEW f \in Files, ClaimJob(w, f) PROVE ContentInv'
  <2>1. job[f] \in {"PENDING", "RETRY_WAIT", "PROCESSING"} /\ job'[f] = "PROCESSING"
    BY <1>2 DEF ClaimJob, Selects, Convertible, TypeInv, PipelineTypeOK
  <2>2. fileStatus' = fileStatus /\ scan' = scan /\ knowledge' = knowledge
        /\ entry' = entry /\ drafts' = drafts
        /\ \A g \in Files \ {f} : job'[g] = job[g]
    BY <1>2 DEF ClaimJob, fileVars, entryVars, TypeInv, PipelineTypeOK
  <2>3. FileInv(f) => FileInv(f)'
    BY <2>1, <2>2 DEF FileInv
  <2> QED
    BY <2>2, <2>3, ContentOne
<1>3. ASSUME NEW w \in Workers, NEW v \in {"CLEAN", "INFECTED", "ERROR"},
             FinishScan(w, v)
      PROVE  ContentInv'
  <2>1. PICK f \in Files : f = claim[w].file
    BY <1>3, <1>t DEF FinishScan
  <2>2. entry' = entry /\ drafts' = drafts
    BY <1>3 DEF FinishScan, entryVars
  <2>3. CASE ~OwnsScan(w)
    BY <1>3, <2>2, <2>3, ContentFrame DEF FinishScan, fileVars
  <2>4. CASE OwnsScan(w)
    <3>1. fileStatus[f] = "QUARANTINED" /\ scan[f] = "PROCESSING" /\ scan'[f] = v
      BY <1>3, <2>1, <2>4 DEF FinishScan, OwnsScan, TypeInv, PipelineTypeOK
    <3>2. \A g \in Files \ {f} :
             /\ fileStatus'[g] = fileStatus[g] /\ scan'[g] = scan[g]
             /\ knowledge'[g] = knowledge[g] /\ job'[g] = job[g]
      BY <2>1, <1>3, <2>4 DEF FinishScan, EnqueueConversion, TypeInv, PipelineTypeOK
    <3>3. CASE v = "CLEAN"
      <4>1. fileStatus'[f] = "PROCESSING"
        BY <1>3, <2>1, <2>4, <3>3 DEF FinishScan, TypeInv, PipelineTypeOK
      <4>2. \/ job'[f] = job[f] /\ knowledge'[f] = knowledge[f]
            \/ job'[f] = "PENDING" /\ knowledge'[f] = "PENDING"
        BY <1>3, <2>1, <2>4, <3>3
           DEF FinishScan, EnqueueConversion, TypeInv, PipelineTypeOK
      <4>3. FileInv(f) => FileInv(f)'
        BY <2>1, <2>2, <3>1, <3>3, <4>1, <4>2 DEF FileInv
      <4> QED
        BY <2>1, <2>2, <3>2, <4>3, ContentOne
    <3>4. CASE v # "CLEAN"
      <4>1. fileStatus' = fileStatus /\ job' = job /\ knowledge' = knowledge
        BY <2>1, <1>3, <2>4, <3>4 DEF FinishScan
      <4>2. FileInv(f) => FileInv(f)'
        BY <2>1, <2>2, <3>1, <3>4, <4>1 DEF FileInv
      <4> QED
        BY <2>1, <2>2, <3>2, <4>2, ContentOne
    <3> QED
      BY <2>1, <3>3, <3>4
  <2> QED
    BY <2>3, <2>4
<1>4. ASSUME NEW w \in Workers,
             \/ LoadClaim(w) \/ ParseDocument(w) \/ CheckCurrent(w)
             \/ ReserveUsage(w) \/ EgressPolicy(w) \/ RecheckClaim(w)
             \/ DenyEgress(w) \/ ProviderReturns(w) \/ Crash(w) \/ CancelCycle(w)
      PROVE  ContentInv'
  <2>1. UNCHANGED <<fileVars, jobVars, entryVars>>
    BY <1>4 DEF LoadClaim, ParseDocument, CheckCurrent, ReserveUsage, EgressPolicy,
       RecheckClaim, DenyEgress, ProviderReturns, Crash, CancelCycle
  <2> QED
    BY <2>1, ContentFrame DEF fileVars, jobVars, entryVars
<1>5. ASSUME NEW w \in Workers, PersistResult(w) PROVE ContentInv'
  <2>1. PICK f \in Files : f = claim[w].file
    BY <1>5, <1>t DEF PersistResult
  <2>2. fileStatus' = fileStatus /\ scan' = scan
    BY <1>5 DEF PersistResult
  <2>3. CASE ~IsCurrent(w)
    BY <1>5, <2>2, <2>3, ContentFrame DEF PersistResult, entryVars
  <2>4. CASE IsCurrent(w)
    <3>1. job[f] = "PROCESSING"
      BY <2>1, <2>4 DEF IsCurrent, OwnsJob
    <3>2. /\ job'[f] = "SUCCEEDED" /\ knowledge'[f] = "DRAFT_READY"
          /\ entry'[f] = "DRAFT" /\ drafts'[f] = drafts[f] + 1
      BY <1>5, <2>1, <2>4 DEF PersistResult, TypeInv, PipelineTypeOK
    <3>3. \A g \in Files \ {f} :
             /\ knowledge'[g] = knowledge[g] /\ job'[g] = job[g]
             /\ entry'[g] = entry[g] /\ drafts'[g] = drafts[g]
      BY <2>1, <1>5, <2>4 DEF PersistResult, TypeInv, PipelineTypeOK
    <3>4. drafts[f] \in Nat
      BY <2>1 DEF TypeInv, PipelineTypeOK
    <3>5. FileInv(f) => FileInv(f)'
      BY <2>1, <2>2, <3>1, <3>2, <3>4 DEF FileInv
    <3> QED
      BY <2>1, <2>2, <3>3, <3>5, ContentOne
  <2> QED
    BY <2>3, <2>4
<1>6. ASSUME NEW w \in Workers, pc[w] # "idle",
             NEW s \in {"FAILED", "RETRY_WAIT", "UNSUPPORTED"},
             NEW k, k = IF s = "RETRY_WAIT" THEN "PENDING" ELSE s,
             CloseJob(w, s, k)
      PROVE  ContentInv'
  <2>1. PICK f \in Files : f = claim[w].file
    BY <1>6, <1>t
  <2>2. fileStatus' = fileStatus /\ scan' = scan /\ entry' = entry /\ drafts' = drafts
    BY <1>6 DEF CloseJob, entryVars
  <2>3. CASE ~OwnsJob(w)
    BY <1>6, <2>2, <2>3, ContentFrame DEF CloseJob
  <2>4. CASE OwnsJob(w)
    <3>1. job[f] = "PROCESSING"
      BY <2>1, <2>4 DEF OwnsJob
    <3>2. job'[f] = s /\ knowledge'[f] = k
      BY <1>6, <2>1, <2>4 DEF CloseJob, TypeInv, PipelineTypeOK
    <3>3. \A g \in Files \ {f} : knowledge'[g] = knowledge[g] /\ job'[g] = job[g]
      BY <2>1, <1>6, <2>4 DEF CloseJob, TypeInv, PipelineTypeOK
    <3>4. FileInv(f) => FileInv(f)'
      BY <2>1, <1>6, <2>2, <3>1, <3>2 DEF FileInv
    <3> QED
      BY <2>1, <2>2, <3>3, <3>4, ContentOne
  <2> QED
    BY <2>3, <2>4
<1>7. ASSUME NEW w \in Workers, MarkFailure(w) \/ FinishTerminal(w) PROVE ContentInv'
  BY <1>6, <1>7 DEF MarkFailure, FinishTerminal
<1>8. ASSUME NEW f \in Files, RetryConversion(f) PROVE ContentInv'
  <2>1. /\ job[f] \in {"FAILED", "UNSUPPORTED"}
        /\ job'[f] = "PENDING" /\ knowledge'[f] = "PENDING"
    BY <1>8 DEF RetryConversion, TypeInv, PipelineTypeOK
  <2>2. fileStatus' = fileStatus /\ scan' = scan /\ entry' = entry /\ drafts' = drafts
        /\ \A g \in Files \ {f} : job'[g] = job[g] /\ knowledge'[g] = knowledge[g]
    BY <1>8 DEF RetryConversion, entryVars, TypeInv, PipelineTypeOK
  <2>3. FileInv(f) => FileInv(f)'
    BY <2>1, <2>2 DEF FileInv
  <2> QED
    BY <2>2, <2>3, ContentOne
<1>9. ASSUME NEW f \in Files, ApproveFile(f) PROVE ContentInv'
  <2>1. /\ scan[f] = "CLEAN" /\ fileStatus[f] = "PROCESSING"
        /\ job[f] = "SUCCEEDED" /\ entry[f] = "DRAFT"
        /\ fileStatus'[f] = "AVAILABLE" /\ entry'[f] = "PUBLISHED"
        /\ knowledge'[f] = "INDEXED"
    BY <1>9 DEF ApproveFile, TypeInv, PipelineTypeOK
  <2>2. scan' = scan /\ job' = job /\ drafts' = drafts
        /\ \A g \in Files \ {f} :
              /\ fileStatus'[g] = fileStatus[g] /\ entry'[g] = entry[g]
              /\ knowledge'[g] = knowledge[g]
    BY <1>9 DEF ApproveFile, jobVars, TypeInv, PipelineTypeOK
  <2>3. FileInv(f) => FileInv(f)'
    BY <2>1, <2>2 DEF FileInv
  <2> QED
    BY <2>2, <2>3, ContentOne
<1>10. ASSUME NEW b \in Bases, NEW e \in BOOLEAN, SetConsent(b, e) PROVE ContentInv'
  BY <1>10, ContentFrame DEF SetConsent, fileVars, jobVars, entryVars
<1>11. ASSUME NEW k \in usage["HELD"], ReconcileUsage(k) PROVE ContentInv'
  BY <1>11, ContentFrame DEF ReconcileUsage, fileVars, jobVars, entryVars
<1>12. ASSUME NEW f \in Files, ScanTimer(f) \/ JobTimer(f) PROVE ContentInv'
  BY <1>12, ContentFrame DEF ScanTimer, JobTimer, fileVars, jobVars, entryVars
<1>13. CASE UNCHANGED pipelineVars
  BY <1>13, ContentFrame DEF pipelineVars, fileVars, jobVars, entryVars
<1> QED
  BY <1>1, <1>2, <1>3, <1>4, <1>5, <1>7, <1>8, <1>9, <1>10, <1>11, <1>12, <1>13
     DEF PipelineNext, Claim, Step, Operate

(* The agreement holds along every behaviour. *)
LEMMA ContentHolds == PipelineSpec => []ContentInv
<1>1. PipelineInit => ContentInv
  BY DEF PipelineInit, ContentInv, OneDraft, PublishedIsClean, KnowledgeFollowsJob
<1>2. TypeInv /\ ContentInv /\ [PipelineNext]_pipelineVars => (TypeInv /\ ContentInv)'
  BY TypeInductive, ContentInductive
<1> QED
  BY <1>1, <1>2, TypeInit, PTL DEF PipelineSpec

(* For any constants: a job never yields a second draft and is SUCCEEDED exactly
   when its draft exists, whatever late workers do (_persist_result). *)
THEOREM PipelineOneDraft == PipelineSpec => []OneDraft
BY ContentHolds, PTL DEF ContentInv

(* For any constants: only a file that was scanned clean leaves quarantine, gets
   a job or is published (process_malware_scan_batch, approve_file). *)
THEOREM PipelinePublishedIsClean == PipelineSpec => []PublishedIsClean
BY ContentHolds, PTL DEF ContentInv

(* For any constants: the knowledge status of a file follows its job through
   failures, reclaims, retries and approval. *)
THEOREM PipelineKnowledgeFollowsJob == PipelineSpec => []KnowledgeFollowsJob
BY ContentHolds, PTL DEF ContentInv

-----------------------------------------------------------------------------
(* A usage key names an attempt of a file: the attempts that are over, and the
   one the job row counts now. *)
NowKey(f) == <<f, generation[f], attempts[f]>>
Spent(k) ==
    \/ k[2] < generation[k[1]]
    \/ k[2] = generation[k[1]] /\ k[3] < attempts[k[1]]
Past(k) == Spent(k) \/ k = NowKey(k[1])

Preparing == {"parse", "current", "reserve"}

(* Why a current attempt never meets a used key.  Every used key belongs to an
   attempt the row has counted; a worker on its way to reserve carries the key
   of the attempt it read, which is over once its lease is replaced; and the
   attempt of a worker that owns the job is unused until it reserves. *)
KeyInv ==
    /\ \A s \in UsageStates : \A k \in usage[s] : Past(k)
    /\ \A w \in Workers : pc[w] \in Preparing =>
          /\ Past(Key(w))
          /\ OwnsJob(w) => Key(w) = NowKey(claim[w].file)
          /\ job[claim[w].file] = "PROCESSING" /\ ~OwnsJob(w) => Spent(Key(w))
    /\ \A w \in Workers : pc[w] \in Preparing \cup {"load"} /\ OwnsJob(w) =>
          ~KeyUsed(NowKey(claim[w].file))

(* A step that counts no attempt, books no new key, brings no worker on its way
   and starts no job preserves KeyInv. *)
LEMMA KeyFrame ==
    ASSUME TypeInv, KeyInv,
           generation' = generation, attempts' = attempts,
           \A k : KeyUsed(k)' => KeyUsed(k),
           \A v \in Workers : pc'[v] \in Preparing \cup {"load"} =>
               /\ pc[v] \in Preparing \cup {"load"}
               /\ pc'[v] \in Preparing => pc[v] \in Preparing
               /\ claim'[v] = claim[v],
           \A f \in Files : job'[f] = "PROCESSING" =>
               job[f] = "PROCESSING" /\ lease'[f] = lease[f]
    PROVE  KeyInv'
<1>1. \A k : Past(k)' = Past(k) /\ Spent(k)' = Spent(k)
  BY DEF Past, Spent, NowKey
<1>2. \A s \in UsageStates : \A k \in usage'[s] : Past(k)'
  BY <1>1 DEF KeyInv, KeyUsed
<1>3. ASSUME NEW v \in Workers, pc'[v] \in Preparing \cup {"load"}
      PROVE  /\ Key(v)' = Key(v) /\ claim[v].file \in Files
             /\ NowKey(claim[v].file)' = NowKey(claim[v].file)
             /\ OwnsJob(v)' => OwnsJob(v)
             /\ job'[claim[v].file] = "PROCESSING" /\ ~OwnsJob(v)' =>
                   job[claim[v].file] = "PROCESSING" /\ ~OwnsJob(v)
  <2>1. pc[v] # "idle" /\ claim'[v] = claim[v]
    BY <1>3 DEF Preparing
  <2>2. claim[v].file \in Files
    BY <2>1 DEF TypeInv, PipelineTypeOK
  <2> QED
    BY <2>1, <2>2 DEF Key, NowKey, OwnsJob
<1>4. ASSUME NEW v \in Workers, pc'[v] \in Preparing
      PROVE  /\ Past(Key(v))'
             /\ OwnsJob(v)' => Key(v)' = NowKey(claim[v].file)'
             /\ job'[claim[v].file] = "PROCESSING" /\ ~OwnsJob(v)' => Spent(Key(v))'
  <2>1. pc[v] \in Preparing /\ claim'[v] = claim[v]
    BY <1>4
  <2>2. PICK k : k = Key(v)
    OBVIOUS
  <2>3. k = Key(v)' /\ (Past(Key(v))' <=> Past(k)') /\ (Spent(Key(v))' <=> Spent(k)')
    BY <2>1, <2>2 DEF Key, Past, Spent, NowKey
  <2>4. /\ Past(k)
        /\ OwnsJob(v) => k = NowKey(claim[v].file)
        /\ job[claim[v].file] = "PROCESSING" /\ ~OwnsJob(v) => Spent(k)
    BY <2>1, <2>2 DEF KeyInv
  <2> QED
    BY <1>1, <1>3, <1>4, <2>3, <2>4
<1>5. ASSUME NEW v \in Workers, pc'[v] \in Preparing \cup {"load"}, OwnsJob(v)'
      PROVE  ~KeyUsed(NowKey(claim[v].file))'
  <2>1. PICK k : k = NowKey(claim[v].file)
    OBVIOUS
  <2>2. ~KeyUsed(k)
    BY <1>3, <1>5, <2>1 DEF KeyInv
  <2>3. ~KeyUsed(k)'
    BY <2>2
  <2>4. k = NowKey(claim[v].file)'
    BY <1>3, <1>5, <2>1
  <2> QED
    BY <2>3, <2>4 DEF KeyUsed
<1> QED
  BY <1>2, <1>4, <1>5 DEF KeyInv, NowKey, Preparing

(* Moving a record that exists uses no new key. *)
LEMMA BookUsed ==
    ASSUME NEW k, KeyUsed(k), NEW s \in UsageStates, Book(k, s)
    PROVE  \A j : KeyUsed(j)' => KeyUsed(j)
BY DEF Book, KeyUsed

(* A job is owned by one worker. *)
LEMMA OneOwner ==
    ASSUME LeaseInv, NEW v \in Workers, NEW w \in Workers,
           pc[v] # "idle", pc[w] # "idle", OwnsJob(v), OwnsJob(w),
           claim[v].file = claim[w].file
    PROVE  v = w
BY DEF LeaseInv, OwnsJob

(* _claim_job counts an attempt: what was current is over, and the new attempt
   has no key yet. *)
LEMMA KeyClaim ==
    ASSUME TypeInv, LeaseInv, KeyInv, NEW w \in Workers, NEW f \in Files, ClaimJob(w, f)
    PROVE  KeyInv'
<1> USE DEF TypeInv, PipelineTypeOK
<1>1. /\ generation' = generation /\ usage' = usage
      /\ attempts'[f] = attempts[f] + 1 /\ lease'[f] = leases[f] + 1
      /\ \A g \in Files \ {f} :
            attempts'[g] = attempts[g] /\ job'[g] = job[g] /\ lease'[g] = lease[g]
  BY DEF ClaimJob
<1>2. /\ pc'[w] = "load" /\ claim'[w] = Fresh(f, leases[f] + 1)
      /\ \A v \in Workers \ {w} : pc'[v] = pc[v] /\ claim'[v] = claim[v]
  BY DEF ClaimJob
<1>3. ASSUME NEW k \in Keys, Past(k)
      PROVE  Past(k)' /\ (k[1] = f => Spent(k)')
  <2>1. /\ k[1] \in Files /\ k[2] \in Nat /\ k[3] \in Nat
        /\ attempts[k[1]] \in Nat /\ generation[k[1]] \in Nat
    BY DEF Keys
  <2>2. CASE k[1] = f
    <3>1. Spent(k)'
      BY <1>1, <1>3, <2>1, <2>2 DEF Past, Spent, NowKey
    <3> QED
      BY <3>1 DEF Past
  <2>3. CASE k[1] # f
    BY <1>1, <1>3, <2>1, <2>3 DEF Past, Spent, NowKey
  <2> QED
    BY <2>2, <2>3
<1>4. \A s \in UsageStates : \A k \in usage'[s] : Past(k)'
  BY <1>1, <1>3 DEF KeyInv
<1>5. ASSUME NEW v \in Workers, pc'[v] \in Preparing
      PROVE  /\ Past(Key(v))'
             /\ OwnsJob(v)' => Key(v)' = NowKey(claim[v].file)'
             /\ job'[claim'[v].file] = "PROCESSING" /\ ~OwnsJob(v)' => Spent(Key(v))'
  <2>1. v # w /\ pc[v] \in Preparing /\ pc[v] # "idle" /\ claim'[v] = claim[v]
    BY <1>2, <1>5 DEF Preparing
  <2>2. PICK k : k = Key(v)
    OBVIOUS
  <2>3. k \in Keys /\ k[1] = claim[v].file /\ claim[v].file \in Files
    BY <2>1, <2>2, KeyType DEF Key
  <2>4. Past(k)' /\ (k[1] = f => Spent(k)')
    BY <1>3, <2>1, <2>2, <2>3 DEF KeyInv
  <2>5. k = Key(v)' /\ (Past(Key(v))' <=> Past(k)') /\ (Spent(Key(v))' <=> Spent(k)')
    BY <2>1, <2>2 DEF Key, Past, Spent, NowKey
  <2>6. CASE k[1] = f
    <3>1. claim[v].lease <= leases[f] /\ claim[v].lease \in Nat /\ leases[f] \in Nat
      BY <2>1, <2>3, <2>6 DEF LeaseInv, Claims
    <3>2. ~OwnsJob(v)'
      BY <1>1, <2>1, <2>3, <2>6, <3>1 DEF OwnsJob
    <3> QED
      BY <2>4, <2>5, <2>6, <3>2
  <2>7. CASE k[1] # f
    <3>1. /\ OwnsJob(v)' <=> OwnsJob(v)
          /\ job'[claim'[v].file] = job[claim[v].file]
          /\ NowKey(claim[v].file)' = NowKey(claim[v].file)
      BY <1>1, <2>1, <2>3, <2>7 DEF OwnsJob, NowKey
    <3>2. Spent(k)' <=> Spent(k)
      BY <1>1, <2>3, <2>7 DEF Spent
    <3>3. /\ OwnsJob(v) => k = NowKey(claim[v].file)
          /\ job[claim[v].file] = "PROCESSING" /\ ~OwnsJob(v) => Spent(k)
      BY <2>1, <2>2 DEF KeyInv
    <3> QED
      BY <2>4, <2>5, <3>1, <3>2, <3>3
  <2> QED
    BY <2>6, <2>7
<1>6. ASSUME NEW v \in Workers, pc'[v] \in Preparing \cup {"load"}, OwnsJob(v)'
      PROVE  ~KeyUsed(NowKey(claim[v].file))'
  <2>1. CASE claim'[v].file = f
    <3>1. ~KeyUsed(<<f, generation[f], attempts[f] + 1>>)
      <4>1. SUFFICES ASSUME NEW s \in UsageStates,
                            <<f, generation[f], attempts[f] + 1>> \in usage[s]
                     PROVE  FALSE
        BY DEF KeyUsed
      <4>2. Past(<<f, generation[f], attempts[f] + 1>>)
        BY <4>1 DEF KeyInv
      <4> QED
        BY <4>2 DEF Past, Spent, NowKey
    <3>2. NowKey(claim[v].file)' = <<f, generation[f], attempts[f] + 1>>
      BY <1>1, <2>1 DEF NowKey
    <3> QED
      BY <1>1, <3>1, <3>2 DEF KeyUsed
  <2>2. CASE claim'[v].file # f
    <3>1. claim'[w].file = f
      <4>1. Fresh(f, leases[f] + 1).file = f
        BY DEF Fresh
      <4> QED
        BY <1>2, <4>1
    <3>2. pc[v] \in Preparing \cup {"load"} /\ claim'[v] = claim[v] /\ claim[v].file \in Files
      <4>1. v # w
        BY <2>2, <3>1
      <4> QED
        BY <1>2, <1>6, <4>1 DEF Preparing
    <3>3. OwnsJob(v) /\ NowKey(claim[v].file)' = NowKey(claim[v].file)
      BY <1>1, <1>6, <2>2, <3>2 DEF OwnsJob, NowKey
    <3> QED
      BY <1>1, <3>2, <3>3 DEF KeyInv, KeyUsed
  <2> QED
    BY <2>1, <2>2
<1> QED
  BY <1>4, <1>5, <1>6 DEF KeyInv, NowKey

(* _process_claimed_job reads the attempt it was claimed for. *)
LEMMA KeyLoad ==
    ASSUME TypeInv, KeyInv, NEW w \in Workers, LoadClaim(w), OwnsJob(w)
    PROVE  KeyInv'
<1> USE DEF TypeInv, PipelineTypeOK
<1>1. /\ generation' = generation /\ attempts' = attempts /\ usage' = usage
      /\ job' = job /\ lease' = lease
  BY DEF LoadClaim, jobVars
<1>2. \A v \in Workers \ {w} : pc'[v] = pc[v] /\ claim'[v] = claim[v]
  BY DEF LoadClaim
<1>3. /\ pc[w] = "load" /\ pc'[w] = "parse"
      /\ claim[w].file \in Files /\ claim'[w].file = claim[w].file
      /\ Key(w)' = NowKey(claim[w].file) /\ OwnsJob(w)'
  BY <1>1 DEF LoadClaim, NowKey, Key, OwnsJob
<1>4. \A k : Past(k)' = Past(k) /\ Spent(k)' = Spent(k) /\ KeyUsed(k)' = KeyUsed(k)
  BY <1>1 DEF Past, Spent, NowKey, KeyUsed
<1>5. \A v \in Workers : NowKey(claim[v].file)' = NowKey(claim[v].file)
                         /\ OwnsJob(v)' = OwnsJob(v) /\ claim'[v].file = claim[v].file
  BY <1>1, <1>2, <1>3 DEF NowKey, OwnsJob
<1>6. Past(Key(w))'
  BY <1>3, <1>5 DEF Past, NowKey
<1>7. \A v \in Workers \ {w} :
         Key(v)' = Key(v) /\ Past(Key(v))' = Past(Key(v)) /\ Spent(Key(v))' = Spent(Key(v))
  BY <1>1, <1>2 DEF Key, Past, Spent, NowKey
<1>8. \A v \in Workers :
         KeyUsed(NowKey(claim[v].file))' = KeyUsed(NowKey(claim[v].file))
  BY <1>1, <1>5 DEF KeyUsed
<1>9. \A s \in UsageStates : \A k \in usage'[s] : Past(k)'
  BY <1>1, <1>4 DEF KeyInv
<1>10. ASSUME NEW v \in Workers, pc'[v] \in Preparing
       PROVE  /\ Past(Key(v))'
              /\ OwnsJob(v)' => Key(v)' = NowKey(claim[v].file)'
              /\ job'[claim'[v].file] = "PROCESSING" /\ ~OwnsJob(v)' => Spent(Key(v))'
  BY <1>1, <1>2, <1>3, <1>5, <1>6, <1>7, <1>10 DEF KeyInv
<1>11. ASSUME NEW v \in Workers, pc'[v] \in Preparing \cup {"load"}, OwnsJob(v)'
       PROVE  ~KeyUsed(NowKey(claim[v].file))'
  BY <1>2, <1>3, <1>5, <1>8, <1>11 DEF KeyInv
<1> QED
  BY <1>9, <1>10, <1>11 DEF KeyInv

(* reserve uses the key of its own attempt: its owner leaves the way, and no
   other worker owns the job. *)
LEMMA KeyReserve ==
    ASSUME TypeInv, LeaseInv, KeyInv, NEW w \in Workers, pc[w] = "reserve",
           Goto(w, "policy"), Book(Key(w), "HELD"),
           generation' = generation, attempts' = attempts, job' = job, lease' = lease
    PROVE  KeyInv'
<1>1. claim' = claim /\ pc'[w] = "policy" /\ \A v \in Workers \ {w} : pc'[v] = pc[v]
  BY GotoFrame
<1>2. \A v \in Workers :
         /\ Key(v)' = Key(v) /\ Past(Key(v))' = Past(Key(v))
         /\ Spent(Key(v))' = Spent(Key(v)) /\ OwnsJob(v)' = OwnsJob(v)
         /\ NowKey(claim[v].file)' = NowKey(claim[v].file)
  BY <1>1 DEF Key, Past, Spent, NowKey, OwnsJob
<1>3. \A k : Past(k)' = Past(k)
  BY DEF Past, Spent, NowKey
<1>4. Past(Key(w))
  BY DEF KeyInv, Preparing
<1>5. \A s \in UsageStates : \A k \in usage'[s] : k = Key(w) \/ \E t \in UsageStates : k \in usage[t]
  BY DEF Book
<1>6. \A s \in UsageStates : \A k \in usage'[s] : Past(k)'
  BY <1>3, <1>4, <1>5 DEF KeyInv
<1>7. ASSUME NEW v \in Workers, pc'[v] \in Preparing \cup {"load"}, OwnsJob(v)
      PROVE  ~KeyUsed(NowKey(claim[v].file))'
  <2>1. v # w /\ pc[v] \in Preparing \cup {"load"} /\ pc[v] # "idle"
    BY <1>1, <1>7 DEF Preparing
  <2>2. ~KeyUsed(NowKey(claim[v].file))
    BY <1>7, <2>1 DEF KeyInv
  <2>3. NowKey(claim[v].file) # Key(w)
    <3>1. SUFFICES ASSUME NowKey(claim[v].file) = Key(w) PROVE FALSE
      OBVIOUS
    <3>2. claim[v].file = claim[w].file /\ claim[w].file \in Files
      BY <3>1 DEF NowKey, Key, TypeInv, PipelineTypeOK
    <3>3. ~OwnsJob(w)
      BY <1>7, <2>1, <3>2, OneOwner
    <3>4. Spent(Key(w))
      BY <1>7, <3>2, <3>3 DEF KeyInv, Preparing, OwnsJob
    <3>5. generation[claim[w].file] \in Nat /\ attempts[claim[w].file] \in Nat
      BY <3>2 DEF TypeInv, PipelineTypeOK
    <3>6. Spent(NowKey(claim[w].file))
      BY <3>1, <3>2, <3>4
    <3> QED
      BY <3>5, <3>6 DEF NowKey, Spent
  <2>4. PICK k : k = NowKey(claim[v].file)
    OBVIOUS
  <2>5. ~KeyUsed(k)'
    BY <1>5, <2>2, <2>3, <2>4 DEF KeyUsed
  <2> QED
    BY <1>2, <2>4, <2>5 DEF KeyUsed
<1>8. \A v \in Workers : pc'[v] \in Preparing => pc[v] \in Preparing
  BY <1>1 DEF Preparing
<1> QED
  BY <1>1, <1>2, <1>6, <1>7, <1>8 DEF KeyInv

(* A manual retry starts a new generation: every key so far is over. *)
LEMMA KeyRetry ==
    ASSUME TypeInv, KeyInv, NEW f \in Files, RetryConversion(f)
    PROVE  KeyInv'
<1> USE DEF TypeInv, PipelineTypeOK
<1>1. /\ usage' = usage /\ pc' = pc /\ claim' = claim
      /\ generation'[f] = generation[f] + 1 /\ job'[f] = "PENDING"
      /\ \A g \in Files \ {f} : /\ attempts'[g] = attempts[g] /\ job'[g] = job[g]
                                /\ lease'[g] = lease[g] /\ generation'[g] = generation[g]
  BY DEF RetryConversion, workerVars
<1>2. ASSUME NEW k \in Keys, Past(k) PROVE Past(k)'
  <2>1. /\ k[1] \in Files /\ k[2] \in Nat /\ k[3] \in Nat
        /\ attempts[k[1]] \in Nat /\ generation[k[1]] \in Nat
    BY DEF Keys
  <2> QED
    BY <1>1, <1>2, <2>1 DEF Past, Spent, NowKey
<1>3. \A s \in UsageStates : \A k \in usage'[s] : Past(k)'
  BY <1>1, <1>2 DEF KeyInv
<1>4. ASSUME NEW v \in Workers, pc[v] \in Preparing \cup {"load"}
      PROVE  claim[v].file \in Files /\ pc[v] # "idle"
  BY <1>4 DEF Preparing
<1>5. ASSUME NEW v \in Workers, pc[v] \in Preparing
      PROVE  Past(Key(v))'
  <2>1. PICK k \in Keys : k = Key(v)
    BY <1>4, <1>5, KeyType
  <2>2. Past(k)' /\ k = Key(v)'
    BY <1>1, <1>2, <1>5, <2>1 DEF KeyInv, Key
  <2> QED
    BY <2>2 DEF Past, Spent, NowKey
<1>6. ASSUME NEW v \in Workers, pc[v] \in Preparing \cup {"load"}, claim[v].file # f
      PROVE  /\ Key(v)' = Key(v) /\ Spent(Key(v))' = Spent(Key(v))
             /\ OwnsJob(v)' = OwnsJob(v) /\ job'[claim[v].file] = job[claim[v].file]
             /\ NowKey(claim[v].file)' = NowKey(claim[v].file)
             /\ KeyUsed(NowKey(claim[v].file))' = KeyUsed(NowKey(claim[v].file))
  <2>1. /\ Key(v)' = Key(v) /\ OwnsJob(v)' = OwnsJob(v)
        /\ job'[claim[v].file] = job[claim[v].file]
        /\ NowKey(claim[v].file)' = NowKey(claim[v].file)
    BY <1>1, <1>4, <1>6 DEF Key, OwnsJob, NowKey
  <2>2. Spent(Key(v))' = Spent(Key(v))
    BY <1>1, <1>4, <1>6, <2>1 DEF Spent, Key
  <2> QED
    BY <1>1, <2>1, <2>2 DEF KeyUsed
<1>7. ASSUME NEW v \in Workers, claim[v].file = f
      PROVE  ~OwnsJob(v)' /\ job'[claim[v].file] # "PROCESSING"
  BY <1>1, <1>7 DEF OwnsJob
<1>8. ASSUME NEW v \in Workers, pc'[v] \in Preparing
      PROVE  /\ Past(Key(v))'
             /\ OwnsJob(v)' => Key(v)' = NowKey(claim[v].file)'
             /\ job'[claim[v].file] = "PROCESSING" /\ ~OwnsJob(v)' => Spent(Key(v))'
  BY <1>1, <1>5, <1>6, <1>7, <1>8 DEF KeyInv
<1>9. ASSUME NEW v \in Workers, pc'[v] \in Preparing \cup {"load"}, OwnsJob(v)'
      PROVE  ~KeyUsed(NowKey(claim[v].file))'
  BY <1>1, <1>6, <1>7, <1>9 DEF KeyInv
<1> QED
  BY <1>1, <1>3, <1>8, <1>9 DEF KeyInv

(* Every step preserves KeyInv. *)
LEMMA KeyInductive ==
    TypeInv /\ LeaseInv /\ EgressInv /\ KeyInv /\ [PipelineNext]_pipelineVars => KeyInv'
<1> SUFFICES ASSUME TypeInv, LeaseInv, EgressInv, KeyInv, [PipelineNext]_pipelineVars
             PROVE  KeyInv'
  OBVIOUS
<1>u. ASSUME usage' = usage PROVE \A k : KeyUsed(k)' => KeyUsed(k)
  BY <1>u DEF KeyUsed
<1>h. \A w \in Workers : pc[w] \in EgressSteps => KeyUsed(Key(w))
  BY DEF EgressInv, KeyUsed, UsageStates
<1>e. \A s \in Preparing \cup {"load"} : s \notin EgressSteps /\ s # "idle" /\ s # "scan"
  BY DEF Preparing, EgressSteps
<1>d. ASSUME NEW w \in Workers, Done(w)
      PROVE  \A v \in Workers : pc'[v] \in Preparing \cup {"load"} =>
                pc'[v] = pc[v] /\ claim'[v] = claim[v]
  BY <1>d, <1>e, DoneFrame
<1>g. ASSUME NEW w \in Workers, NEW s, Goto(w, s), s \notin Preparing \cup {"load"}
      PROVE  \A v \in Workers : pc'[v] \in Preparing \cup {"load"} =>
                pc'[v] = pc[v] /\ claim'[v] = claim[v]
  BY <1>g, GotoFrame
<1>1. ASSUME NEW w \in Workers, NEW f \in Files, ClaimScan(w, f) PROVE KeyInv'
  <2>1. /\ generation' = generation /\ attempts' = attempts /\ usage' = usage
        /\ job' = job /\ lease' = lease
    BY <1>1 DEF ClaimScan, jobVars
  <2>2. \A v \in Workers : pc'[v] \in Preparing \cup {"load"} =>
           pc'[v] = pc[v] /\ claim'[v] = claim[v]
    BY <1>1, <1>e DEF ClaimScan, TypeInv, PipelineTypeOK
  <2> QED
    BY <1>u, <2>1, <2>2, KeyFrame
<1>2. ASSUME NEW w \in Workers, NEW f \in Files, ClaimJob(w, f) PROVE KeyInv'
  BY <1>2, KeyClaim
<1>3. ASSUME NEW w \in Workers, NEW v \in {"CLEAN", "INFECTED", "ERROR"},
             FinishScan(w, v)
      PROVE  KeyInv'
  <2>1. /\ generation' = generation /\ attempts' = attempts /\ usage' = usage
        /\ lease' = lease /\ Done(w)
    BY <1>3 DEF FinishScan
  <2>2. \A g \in Files : job'[g] = "PROCESSING" => job[g] = "PROCESSING"
    BY <1>3 DEF FinishScan, EnqueueConversion, TypeInv, PipelineTypeOK
  <2> QED
    BY <1>d, <1>u, <2>1, <2>2, KeyFrame
<1>4. ASSUME NEW w \in Workers, LoadClaim(w) PROVE KeyInv'
  <2>1. CASE OwnsJob(w)
    BY <1>4, <2>1, KeyLoad
  <2>2. CASE ~OwnsJob(w)
    <3>1. /\ generation' = generation /\ attempts' = attempts /\ usage' = usage
          /\ job' = job /\ lease' = lease /\ Done(w)
      BY <1>4, <2>2 DEF LoadClaim, jobVars
    <3> QED
      BY <1>d, <1>u, <3>1, KeyFrame
  <2> QED
    BY <2>1, <2>2
<1>5. ASSUME NEW w \in Workers, ParseDocument(w) \/ CheckCurrent(w) PROVE KeyInv'
  <2>1. /\ generation' = generation /\ attempts' = attempts /\ usage' = usage
        /\ job' = job /\ lease' = lease /\ pc[w] \in Preparing
    BY <1>5 DEF ParseDocument, CheckCurrent, jobVars, Preparing
  <2>2. \A v \in Workers \ {w} : pc'[v] = pc[v] /\ claim'[v] = claim[v]
    BY <1>5, GotoFrame, DoneFrame DEF ParseDocument, CheckCurrent
  <2>3. pc'[w] = "idle" \/ claim'[w] = claim[w]
    BY <1>5, GotoFrame, DoneFrame DEF ParseDocument, CheckCurrent
  <2>4. \A v \in Workers : pc'[v] \in Preparing \cup {"load"} =>
           /\ pc[v] \in Preparing \cup {"load"}
           /\ pc'[v] \in Preparing => pc[v] \in Preparing
           /\ claim'[v] = claim[v]
    BY <1>e, <2>1, <2>2, <2>3
  <2> QED
    BY <1>u, <2>1, <2>4, KeyFrame
<1>6. ASSUME NEW w \in Workers, ReserveUsage(w) PROVE KeyInv'
  <2>1. /\ generation' = generation /\ attempts' = attempts
        /\ job' = job /\ lease' = lease /\ pc[w] = "reserve"
    BY <1>6 DEF ReserveUsage, jobVars
  <2>2. CASE usage' = usage /\ (Goto(w, "fail") \/ Goto(w, "retry"))
    <3>1. \A v \in Workers : pc'[v] \in Preparing \cup {"load"} =>
             pc'[v] = pc[v] /\ claim'[v] = claim[v]
      BY <1>g, <2>2 DEF Preparing
    <3> QED
      BY <1>u, <2>1, <2>2, <3>1, KeyFrame
  <2>3. CASE Goto(w, "policy") /\ Book(Key(w), "HELD")
    BY <2>1, <2>3, KeyReserve
  <2> QED
    BY <1>6, <2>2, <2>3 DEF ReserveUsage
<1>7. ASSUME NEW w \in Workers, EgressPolicy(w) \/ RecheckClaim(w) PROVE KeyInv'
  <2>1. /\ generation' = generation /\ attempts' = attempts /\ usage' = usage
        /\ job' = job /\ lease' = lease
    BY <1>7 DEF EgressPolicy, RecheckClaim, jobVars
  <2>2. PICK s \in {"recheck", "deny", "provider"} : Goto(w, s)
    BY <1>7 DEF EgressPolicy, RecheckClaim
  <2>3. \A v \in Workers : pc'[v] \in Preparing \cup {"load"} =>
           pc'[v] = pc[v] /\ claim'[v] = claim[v]
    BY <1>g, <2>2 DEF Preparing
  <2> QED
    BY <1>u, <2>1, <2>3, KeyFrame
<1>8. ASSUME NEW w \in Workers, DenyEgress(w) \/ ProviderReturns(w) PROVE KeyInv'
  <2>1. /\ generation' = generation /\ attempts' = attempts
        /\ job' = job /\ lease' = lease /\ pc[w] \in EgressSteps
    BY <1>8 DEF DenyEgress, ProviderReturns, jobVars, EgressSteps
  <2>2. PICK s \in UsageStates, t \in {"persist", "retry", "fail"} :
           Book(Key(w), s) /\ Goto(w, t)
    BY <1>8 DEF DenyEgress, ProviderReturns, Outcomes, UsageStates
  <2>3. \A k : KeyUsed(k)' => KeyUsed(k)
    BY <1>h, <2>1, <2>2, BookUsed
  <2>4. \A v \in Workers : pc'[v] \in Preparing \cup {"load"} =>
           pc'[v] = pc[v] /\ claim'[v] = claim[v]
    BY <1>g, <2>2 DEF Preparing
  <2> QED
    BY <2>1, <2>3, <2>4, KeyFrame
<1>9. ASSUME NEW w \in Workers, PersistResult(w) \/ MarkFailure(w) \/ FinishTerminal(w)
      PROVE  KeyInv'
  <2>1. /\ generation' = generation /\ attempts' = attempts /\ usage' = usage
        /\ Done(w) /\ pc[w] # "idle"
    BY <1>9 DEF PersistResult, MarkFailure, FinishTerminal, CloseJob
  <2>2. \A g \in Files : job'[g] = "PROCESSING" =>
           job[g] = "PROCESSING" /\ lease'[g] = lease[g]
    BY <1>9 DEF PersistResult, MarkFailure, FinishTerminal, CloseJob, IsCurrent,
       TypeInv, PipelineTypeOK
  <2> QED
    BY <1>d, <1>u, <2>1, <2>2, KeyFrame
<1>10. ASSUME NEW w \in Workers, Crash(w) PROVE KeyInv'
  <2>1. /\ generation' = generation /\ attempts' = attempts /\ usage' = usage
        /\ job' = job /\ lease' = lease /\ Done(w)
    BY <1>10 DEF Crash, jobVars
  <2> QED
    BY <1>d, <1>u, <2>1, KeyFrame
<1>11. ASSUME NEW w \in Workers, CancelCycle(w) PROVE KeyInv'
  <2>1. /\ generation' = generation /\ attempts' = attempts
        /\ job' = job /\ lease' = lease /\ Done(w) /\ pc[w] \in EgressSteps
        /\ \E s \in UsageStates : Book(Key(w), s)
    BY <1>11 DEF CancelCycle, jobVars, EgressSteps, UsageStates
  <2>2. \A k : KeyUsed(k)' => KeyUsed(k)
    BY <1>h, <2>1, BookUsed
  <2> QED
    BY <1>d, <2>1, <2>2, KeyFrame
<1>12. ASSUME NEW f \in Files, RetryConversion(f) PROVE KeyInv'
  BY <1>12, KeyRetry
<1>13. ASSUME NEW k \in usage["HELD"], ReconcileUsage(k) PROVE KeyInv'
  <2>1. /\ generation' = generation /\ attempts' = attempts
        /\ job' = job /\ lease' = lease /\ pc' = pc /\ claim' = claim
        /\ Book(k, "CLOSED")
    BY <1>13 DEF ReconcileUsage, jobVars, workerVars
  <2>2. KeyUsed(k) /\ "CLOSED" \in UsageStates
    BY DEF KeyUsed, UsageStates
  <2>3. \A j : KeyUsed(j)' => KeyUsed(j)
    BY <2>1, <2>2, BookUsed
  <2> QED
    BY <2>1, <2>3, KeyFrame
<1>14. ASSUME \/ \E f \in Files : ApproveFile(f) \/ ScanTimer(f) \/ JobTimer(f)
              \/ \E b \in Bases, e \in BOOLEAN : SetConsent(b, e)
              \/ UNCHANGED pipelineVars
       PROVE  KeyInv'
  <2>1. /\ generation' = generation /\ attempts' = attempts /\ usage' = usage
        /\ job' = job /\ lease' = lease /\ pc' = pc /\ claim' = claim
    BY <1>14, Zenon DEF ApproveFile, ScanTimer, JobTimer, SetConsent, pipelineVars, jobVars,
       workerVars
  <2> QED
    BY <1>u, <2>1, KeyFrame
<1> QED
  BY <1>1, <1>2, <1>3, <1>4, <1>5, <1>6, <1>7, <1>8, <1>9, <1>10, <1>11, <1>12,
     <1>13, <1>14 DEF PipelineNext, Claim, Step, Operate

(* For any constants: an attempt that still owns its job never finds its usage
   key taken, so reserve never refuses a retry as a duplicate, whatever earlier
   attempts, late workers and manual retries have booked (claim key of file,
   retry generation and attempt). *)
THEOREM PipelineFreshKey == PipelineSpec => []FreshKey
<1>1. PipelineInit => KeyInv
  BY DEF PipelineInit, KeyInv, Preparing, UsageStates
<1>2. PipelineSpec => []KeyInv
  BY <1>1, KeyInductive, OwnershipHolds, PTL DEF PipelineSpec
<1>3. KeyInv => FreshKey
  BY DEF KeyInv, FreshKey, Preparing
<1> QED
  BY <1>2, <1>3, PTL

-----------------------------------------------------------------------------
(* The columns a worker read cannot change under it while it owns the job. *)
Settled == <<"PROCESSING", "CLEAN", "PENDING">>

(* What a worker remembers: nothing when idle; else a lease id that was issued,
   which is not the job's when the claim is a scan's; and, once loaded, the
   file row as every conversion finds it. *)
ClaimInv ==
    /\ \A f \in Files : lease[f] <= leases[f]
    /\ \A w \in Workers : pc[w] = "idle" => claim[w] = NoClaim
    /\ \A w \in Workers : pc[w] # "idle" => claim[w].lease > 0
    /\ \A w \in Workers : pc[w] = "scan" => claim[w].lease # lease[claim[w].file]
    /\ \A w \in Workers : pc[w] \notin {"idle", "scan", "load"} => claim[w].row = Settled

(* A step in which workers keep or drop their claims, and jobs their leases. *)
LEMMA ClaimFrame ==
    ASSUME TypeInv, ClaimInv, leases' = leases,
           \A f \in Files : lease'[f] = lease[f] \/ lease'[f] = 0,
           \A v \in Workers :
               \/ pc'[v] = "idle" /\ claim'[v] = NoClaim
               \/ claim'[v] = claim[v] /\ pc'[v] = pc[v]
               \/ claim'[v] = claim[v] /\ pc[v] \notin {"idle", "scan", "load"}
                  /\ pc'[v] \notin {"idle", "scan", "load"}
    PROVE  ClaimInv'
<1>1. \A f \in Files : leases[f] \in Nat /\ lease[f] \in Nat
  BY DEF TypeInv, PipelineTypeOK
<1>2. \A v \in Workers : claim[v].lease \in Nat /\ (pc[v] # "idle" => claim[v].file \in Files)
  BY DEF TypeInv, PipelineTypeOK, Claims
<1>3. \A f \in Files : lease'[f] <= leases'[f]
  BY <1>1 DEF ClaimInv
<1>4. \A v \in Workers : pc'[v] # "idle" => claim'[v] = claim[v] /\ pc[v] # "idle"
  OBVIOUS
<1>5. \A v \in Workers : pc'[v] = "scan" => pc[v] = "scan"
  OBVIOUS
<1>6. \A v \in Workers : pc'[v] \notin {"idle", "scan", "load"} =>
                         pc[v] \notin {"idle", "scan", "load"}
  OBVIOUS
<1>7. \A v \in Workers : pc'[v] = "idle" => claim'[v] = NoClaim
  BY DEF ClaimInv
<1>8. \A v \in Workers : pc'[v] = "scan" => claim'[v].lease # lease'[claim'[v].file]
  BY <1>2, <1>4, <1>5 DEF ClaimInv
<1>9. \A v \in Workers : pc'[v] # "idle" => claim'[v].lease > 0
  BY <1>4 DEF ClaimInv
<1>10. \A v \in Workers : pc'[v] \notin {"idle", "scan", "load"} => claim'[v].row = Settled
  BY <1>4, <1>6 DEF ClaimInv
<1> QED
  BY <1>3, <1>7, <1>8, <1>9, <1>10 DEF ClaimInv, Settled, NoClaim, Fresh

(* A claim takes the next lease id, above every one a job or a scan has. *)
LEMMA ClaimClaim ==
    ASSUME TypeInv, LeaseInv, ClaimInv, NEW w \in Workers, NEW f \in Files,
           ClaimScan(w, f) \/ ClaimJob(w, f)
    PROVE  ClaimInv'
<1> USE DEF TypeInv, PipelineTypeOK
<1>1. \A g \in Files : leases[g] \in Nat /\ lease[g] \in Nat
  OBVIOUS
<1>2. \A v \in Workers : claim[v].lease \in Nat /\ (pc[v] # "idle" => claim[v].file \in Files)
  BY DEF Claims
<1>3. /\ claim'[w] = Fresh(f, leases[f] + 1) /\ pc'[w] \in {"scan", "load"}
      /\ \A v \in Workers \ {w} : pc'[v] = pc[v] /\ claim'[v] = claim[v]
  BY DEF ClaimScan, ClaimJob
<1>4. Fresh(f, leases[f] + 1).file = f /\ Fresh(f, leases[f] + 1).lease = leases[f] + 1
  BY DEF Fresh
<1>5. claim'[w].file = f /\ claim'[w].lease = leases[f] + 1
  BY <1>3, <1>4
<1>6. /\ leases'[f] = leases[f] + 1
      /\ \A g \in Files \ {f} : leases'[g] = leases[g] /\ lease'[g] = lease[g]
      /\ pc'[w] = "scan" => lease'[f] = lease[f]
      /\ lease'[f] = lease[f] \/ lease'[f] = leases[f] + 1
  BY DEF ClaimScan, ClaimJob, jobVars
<1>7. \A g \in Files : lease'[g] <= leases'[g]
  BY <1>1, <1>6 DEF ClaimInv
<1>8. ASSUME NEW v \in Workers, pc'[v] = "scan"
      PROVE  claim'[v].lease # lease'[claim'[v].file]
  <2>1. CASE v = w
    BY <1>1, <1>5, <1>6, <1>8, <2>1 DEF ClaimInv
  <2>2. CASE v # w
    <3>1. /\ claim'[v] = claim[v] /\ pc[v] = "scan" /\ claim[v].file \in Files
          /\ claim[v].lease <= leases[claim[v].file]
          /\ claim[v].lease # lease[claim[v].file]
      BY <1>2, <1>3, <1>8, <2>2 DEF LeaseInv, ClaimInv
    <3> QED
      BY <1>1, <1>2, <1>6, <3>1
  <2> QED
    BY <2>1, <2>2
<1>9. \A v \in Workers : pc'[v] # "idle" => claim'[v].lease > 0
  BY <1>1, <1>3, <1>5 DEF ClaimInv
<1>10. \A v \in Workers : pc'[v] = "idle" => claim'[v] = NoClaim
  BY <1>3 DEF ClaimInv
<1>11. \A v \in Workers : pc'[v] \notin {"idle", "scan", "load"} => claim'[v].row = Settled
  BY <1>3 DEF ClaimInv
<1> QED
  BY <1>7, <1>8, <1>9, <1>10, <1>11 DEF ClaimInv, NoClaim, Settled, Fresh

(* A file whose job is PROCESSING is clean, released and not yet drafted. *)
LEMMA OwnedRow ==
    ASSUME TypeInv, ContentInv, NEW f \in Files, job[f] = "PROCESSING"
    PROVE  Row(f) = Settled
<1>1. FileInv(f)
  BY ContentPerFile
<1>2. fileStatus[f] \in FileStates /\ drafts[f] # 1 /\ entry[f] = "none"
  BY <1>1 DEF FileInv, TypeInv, PipelineTypeOK
<1> QED
  BY <1>1, <1>2 DEF FileInv, FileStates, Row, Settled

(* Every step preserves ClaimInv. *)
LEMMA ClaimInductive ==
    TypeInv /\ LeaseInv /\ ContentInv /\ ClaimInv /\ [PipelineNext]_pipelineVars => ClaimInv'
<1> SUFFICES ASSUME TypeInv, LeaseInv, ContentInv, ClaimInv, [PipelineNext]_pipelineVars
             PROVE  ClaimInv'
  OBVIOUS
<1>d. ASSUME NEW w \in Workers, Done(w), leases' = leases,
             \A f \in Files : lease'[f] = lease[f] \/ lease'[f] = 0
      PROVE  ClaimInv'
  <2>1. claim'[w] = NoClaim
    BY <1>d DEF Done, TypeInv, PipelineTypeOK
  <2> QED
    BY <1>d, <2>1, DoneFrame, ClaimFrame
<1>g. ASSUME NEW w \in Workers, NEW s, Goto(w, s), leases' = leases, lease' = lease,
             s \notin {"idle", "scan", "load"}, pc[w] \notin {"idle", "scan", "load"}
      PROVE  ClaimInv'
  BY <1>g, GotoFrame, ClaimFrame
<1>1. ASSUME NEW w \in Workers, NEW f \in Files, ClaimScan(w, f) \/ ClaimJob(w, f)
      PROVE  ClaimInv'
  BY <1>1, ClaimClaim
<1>2. ASSUME NEW w \in Workers, NEW v \in {"CLEAN", "INFECTED", "ERROR"},
             FinishScan(w, v)
      PROVE  ClaimInv'
  BY <1>2, <1>d DEF FinishScan
<1>3. ASSUME NEW w \in Workers, LoadClaim(w) PROVE ClaimInv'
  <2>1. leases' = leases /\ lease' = lease
    BY <1>3 DEF LoadClaim, jobVars
  <2>2. CASE ~OwnsJob(w)
    BY <1>3, <1>d, <2>1, <2>2 DEF LoadClaim
  <2>3. CASE OwnsJob(w)
    <3>1. claim[w].file \in Files /\ pc[w] = "load"
      BY <1>3 DEF LoadClaim, TypeInv, PipelineTypeOK
    <3>2. Row(claim[w].file) = Settled
      BY <2>3, <3>1, OwnedRow DEF OwnsJob
    <3>3. /\ pc'[w] = "parse"
          /\ claim'[w].lease = claim[w].lease /\ claim'[w].row = Settled
          /\ \A v \in Workers \ {w} : pc'[v] = pc[v] /\ claim'[v] = claim[v]
      BY <1>3, <2>3, <3>2 DEF LoadClaim, TypeInv, PipelineTypeOK
    <3> QED
      BY <2>1, <3>1, <3>3 DEF ClaimInv, NoClaim, Settled, Fresh
  <2> QED
    BY <2>2, <2>3
<1>4. ASSUME NEW w \in Workers, ParseDocument(w) \/ CheckCurrent(w) \/ ReserveUsage(w)
      PROVE  ClaimInv'
  <2>1. leases' = leases /\ lease' = lease /\ pc[w] \notin {"idle", "scan", "load"}
    BY <1>4 DEF ParseDocument, CheckCurrent, ReserveUsage, jobVars
  <2>2. Done(w) \/ \E s : Goto(w, s) /\ s \notin {"idle", "scan", "load"}
    BY <1>4 DEF ParseDocument, CheckCurrent, ReserveUsage
  <2> QED
    BY <1>d, <1>g, <2>1, <2>2
<1>5. ASSUME NEW w \in Workers,
             EgressPolicy(w) \/ RecheckClaim(w) \/ DenyEgress(w) \/ ProviderReturns(w)
      PROVE  ClaimInv'
  <2>1. leases' = leases /\ lease' = lease /\ pc[w] \notin {"idle", "scan", "load"}
    BY <1>5 DEF EgressPolicy, RecheckClaim, DenyEgress, ProviderReturns, jobVars
  <2>2. \E s : Goto(w, s) /\ s \notin {"idle", "scan", "load"}
    BY <1>5 DEF EgressPolicy, RecheckClaim, DenyEgress, ProviderReturns, Outcomes
  <2> QED
    BY <1>g, <2>1, <2>2
<1>6. ASSUME NEW w \in Workers, PersistResult(w) \/ MarkFailure(w) \/ FinishTerminal(w)
      PROVE  ClaimInv'
  <2>1. leases' = leases /\ Done(w)
    BY <1>6 DEF PersistResult, MarkFailure, FinishTerminal, CloseJob
  <2>2. \A f \in Files : lease'[f] = lease[f] \/ lease'[f] = 0
    BY <1>6 DEF PersistResult, MarkFailure, FinishTerminal, CloseJob, TypeInv, PipelineTypeOK
  <2> QED
    BY <1>d, <2>1, <2>2
<1>7. ASSUME NEW w \in Workers, Crash(w) \/ CancelCycle(w) PROVE ClaimInv'
  BY <1>7, <1>d DEF Crash, CancelCycle, jobVars
<1>8. ASSUME NEW f \in Files, RetryConversion(f) PROVE ClaimInv'
  <2>1. leases' = leases /\ pc' = pc /\ claim' = claim
    BY <1>8 DEF RetryConversion, workerVars
  <2>2. \A g \in Files : lease'[g] = lease[g] \/ lease'[g] = 0
    BY <1>8 DEF RetryConversion, TypeInv, PipelineTypeOK
  <2> QED
    BY <2>1, <2>2, ClaimFrame
<1>9. ASSUME \/ \E f \in Files : ApproveFile(f) \/ ScanTimer(f) \/ JobTimer(f)
             \/ \E b \in Bases, e \in BOOLEAN : SetConsent(b, e)
             \/ \E k \in usage["HELD"] : ReconcileUsage(k)
             \/ UNCHANGED pipelineVars
      PROVE  ClaimInv'
  <2>1. leases' = leases /\ lease' = lease /\ pc' = pc /\ claim' = claim
    BY <1>9, Zenon DEF ApproveFile, ScanTimer, JobTimer, SetConsent, ReconcileUsage,
       pipelineVars, jobVars, workerVars
  <2> QED
    BY <2>1, ClaimFrame
<1> QED
  BY <1>1, <1>2, <1>3, <1>4, <1>5, <1>6, <1>7, <1>8, <1>9
     DEF PipelineNext, Claim, Step, Operate

-----------------------------------------------------------------------------
(* The attempts of a job are paid for: those within the limit by the limit, a
   reclaim of a lease that ran out by the fault that let it run out.  A job
   whose worker is gone, or late, has a fault to spend. *)
PaidFor(f) ==
    /\ attempts[f] <= MaxAttempts + faults
    /\ job[f] \in {"none", "PENDING"} => attempts[f] = 0
    /\ job[f] = "RETRY_WAIT" => attempts[f] < MaxAttempts
    /\ job[f] = "PROCESSING" /\ (due[f] \/ ~Alive(f, lease[f])) =>
          attempts[f] < MaxAttempts + faults

AttemptInv == \A f \in Files : PaidFor(f)

(* A file whose job row a step leaves alone, and whose worker it leaves alive
   or stops at the price of a fault. *)
LEMMA PaidFrame ==
    ASSUME TypeInv, NEW f \in Files, PaidFor(f),
           job'[f] = job[f], lease'[f] = lease[f], due'[f] = due[f],
           attempts'[f] = attempts[f],
           faults' = faults \/ faults' = faults + 1,
           \/ faults' = faults + 1
           \/ job[f] = "PROCESSING" /\ Alive(f, lease[f]) => Alive(f, lease[f])'
    PROVE  PaidFor(f)'
<1>1. attempts[f] \in Nat /\ faults \in Nat /\ MaxAttempts \in Nat
  BY PipelineAssumption DEF TypeInv, PipelineTypeOK
<1> QED
  BY <1>1 DEF PaidFor

(* A worker that is claiming held no claim, so everyone else lives on. *)
LEMMA AliveClaim ==
    ASSUME TypeInv, ClaimInv, NEW w \in Workers, pc[w] = "idle",
           \A v \in Workers \ {w} : claim'[v] = claim[v],
           NEW f \in Files, NEW l, Alive(f, l)
    PROVE  \E v \in Workers : claim'[v].file = f /\ claim'[v].lease = l
<1>1. NoClaim.file = 0
  BY DEF NoClaim, Fresh
<1>2. claim[w].file = 0
  BY <1>1 DEF ClaimInv
<1>3. f # 0
  BY PipelineAssumption
<1> QED
  BY <1>2, <1>3 DEF Alive

(* A worker that lets go of a claim it has lost takes no owner with it. *)
LEMMA AliveDone ==
    ASSUME TypeInv, ClaimInv, NEW w \in Workers, pc[w] # "idle", Done(w),
           NEW f \in Files, job[f] = "PROCESSING", Alive(f, lease[f]),
           ~(OwnsJob(w) /\ claim[w].file = f), lease'[f] = lease[f]
    PROVE  Alive(f, lease[f])'
<1>1. ~(claim[w].file = f /\ claim[w].lease = lease[f])
  BY DEF OwnsJob
<1>2. \A v \in Workers \ {w} : claim'[v] = claim[v]
  BY DoneFrame
<1> QED
  BY <1>1, <1>2 DEF Alive

(* Without a change of memory everyone lives on. *)
LEMMA AliveKept ==
    ASSUME NEW f \in Files, lease'[f] = lease[f],
           \A v \in Workers : claim'[v].file = claim[v].file
                              /\ claim'[v].lease = claim[v].lease
    PROVE  Alive(f, lease[f]) => Alive(f, lease[f])'
BY DEF Alive

(* The job row of file f is not touched. *)
RowKept(f) ==
    /\ job'[f] = job[f] /\ lease'[f] = lease[f] /\ due'[f] = due[f]
    /\ attempts'[f] = attempts[f]

(* A step of w that ends its work: the files whose row it leaves alone stay
   paid for. *)
LEMMA PaidDone ==
    ASSUME TypeInv, ClaimInv, AttemptInv, NEW w \in Workers, pc[w] # "idle", Done(w),
           NEW f \in Files, RowKept(f), faults' = faults,
           OwnsJob(w) => claim[w].file # f
    PROVE  PaidFor(f)'
<1>1. job[f] = "PROCESSING" /\ Alive(f, lease[f]) => Alive(f, lease[f])'
  BY AliveDone DEF RowKept
<1> QED
  BY <1>1, PaidFrame DEF RowKept, AttemptInv

(* A worker's claim counts an attempt that a limit or a fault pays for. *)
LEMMA AttemptClaim ==
    ASSUME TypeInv, ClaimInv, AttemptInv, NEW w \in Workers, NEW f \in Files,
           ClaimScan(w, f) \/ ClaimJob(w, f)
    PROVE  AttemptInv'
<1> USE DEF TypeInv, PipelineTypeOK
<1>1. /\ pc[w] = "idle" /\ faults' = faults
      /\ claim'[w] = Fresh(f, leases[f] + 1)
      /\ \A v \in Workers \ {w} : claim'[v] = claim[v]
  BY DEF ClaimScan, ClaimJob
<1>2. ASSUME NEW g \in Files, RowKept(g) PROVE PaidFor(g)'
  <2>1. Alive(g, lease[g]) => \E v \in Workers : claim'[v].file = g /\ claim'[v].lease = lease[g]
    BY <1>1, AliveClaim
  <2>2. Alive(g, lease[g]) => Alive(g, lease[g])'
    BY <1>2, <2>1 DEF Alive, RowKept
  <2> QED
    BY <1>1, <1>2, <2>2, PaidFrame DEF RowKept, AttemptInv
<1>3. CASE ClaimScan(w, f)
  <2>1. \A g \in Files : RowKept(g)
    BY <1>3 DEF ClaimScan, RowKept, jobVars
  <2> QED
    BY <1>2, <2>1 DEF AttemptInv
<1>4. CASE ClaimJob(w, f)
  <2>1. \A g \in Files \ {f} : RowKept(g)
    BY <1>4 DEF ClaimJob, RowKept
  <2>2. /\ job[f] \in {"PENDING", "RETRY_WAIT", "PROCESSING"} /\ due[f]
        /\ job'[f] = "PROCESSING" /\ due'[f] = FALSE
        /\ attempts'[f] = attempts[f] + 1 /\ lease'[f] = leases[f] + 1
    BY <1>4 DEF ClaimJob, Selects, Convertible
  <2>3. Fresh(f, leases[f] + 1).file = f /\ Fresh(f, leases[f] + 1).lease = leases[f] + 1
    BY DEF Fresh
  <2>4. claim'[w].file = f /\ claim'[w].lease = lease'[f]
    BY <1>1, <2>2, <2>3
  <2>5. Alive(f, lease[f])'
    BY <2>4 DEF Alive
  <2>6. attempts[f] \in Nat /\ faults \in Nat /\ MaxAttempts \in Nat \ {0}
    BY PipelineAssumption
  <2>7. attempts[f] < MaxAttempts + faults
    BY <2>2, <2>6 DEF AttemptInv, PaidFor
  <2>8. PaidFor(f)'
    BY <1>1, <2>2, <2>5, <2>6, <2>7 DEF PaidFor
  <2> QED
    BY <1>2, <2>1, <2>8 DEF AttemptInv
<1> QED
  BY <1>3, <1>4

(* Every step preserves AttemptInv. *)
LEMMA AttemptInductive ==
    TypeInv /\ ContentInv /\ ClaimInv /\ AttemptInv /\ [PipelineNext]_pipelineVars
      => AttemptInv'
<1> SUFFICES ASSUME TypeInv, ContentInv, ClaimInv, AttemptInv, [PipelineNext]_pipelineVars
             PROVE  AttemptInv'
  OBVIOUS
<1>n. \A f \in Files : attempts[f] \in Nat /\ faults \in Nat /\ MaxAttempts \in Nat \ {0}
  BY PipelineAssumption DEF TypeInv, PipelineTypeOK
<1>f. \A w \in Workers : pc[w] # "idle" => claim[w].file \in Files
  BY DEF TypeInv, PipelineTypeOK
<1>k. ASSUME \A f \in Files : RowKept(f), faults' = faults,
             \A v \in Workers : claim'[v].file = claim[v].file
                                /\ claim'[v].lease = claim[v].lease
      PROVE  AttemptInv'
  BY <1>k, AliveKept, PaidFrame DEF RowKept, AttemptInv
<1>c. ASSUME NEW w \in Workers, pc[w] # "idle",
             pc[w] \notin {"idle", "scan", "load"}, OwnsJob(w)
      PROVE  IsCurrent(w)
  BY <1>c, <1>f, OwnedRow DEF IsCurrent, OwnsJob, ClaimInv
<1>1. ASSUME NEW w \in Workers, NEW f \in Files, ClaimScan(w, f) \/ ClaimJob(w, f)
      PROVE  AttemptInv'
  BY <1>1, AttemptClaim
<1>2. ASSUME NEW w \in Workers, NEW v \in {"CLEAN", "INFECTED", "ERROR"},
             FinishScan(w, v)
      PROVE  AttemptInv'
  <2>1. /\ pc[w] = "scan" /\ Done(w) /\ faults' = faults
        /\ lease' = lease /\ attempts' = attempts
    BY <1>2 DEF FinishScan
  <2>2. ~OwnsJob(w)
    BY <2>1 DEF ClaimInv, OwnsJob
  <2>3. \A g \in Files : \/ RowKept(g)
                         \/ job[g] = "none" /\ job'[g] = "PENDING"
    BY <1>2, <2>1 DEF FinishScan, EnqueueConversion, RowKept, TypeInv, PipelineTypeOK
  <2>4. ASSUME NEW g \in Files, job[g] = "none" /\ job'[g] = "PENDING"
        PROVE  PaidFor(g)'
    BY <1>n, <2>1, <2>4 DEF AttemptInv, PaidFor
  <2> QED
    BY <2>1, <2>2, <2>3, <2>4, PaidDone DEF AttemptInv
<1>3. ASSUME NEW w \in Workers, LoadClaim(w) PROVE AttemptInv'
  <2>1. (\A g \in Files : RowKept(g)) /\ faults' = faults /\ pc[w] = "load"
    BY <1>3 DEF LoadClaim, RowKept, jobVars
  <2>2. CASE OwnsJob(w)
    BY <1>3, <1>k, <2>1, <2>2 DEF LoadClaim, TypeInv, PipelineTypeOK
  <2>3. CASE ~OwnsJob(w)
    BY <1>3, <2>1, <2>3, PaidDone DEF LoadClaim, AttemptInv
  <2> QED
    BY <2>2, <2>3
<1>4. ASSUME NEW w \in Workers, ParseDocument(w) \/ CheckCurrent(w) \/ ReserveUsage(w)
      PROVE  AttemptInv'
  <2>1. (\A g \in Files : RowKept(g)) /\ faults' = faults
        /\ pc[w] \notin {"idle", "scan", "load"}
    BY <1>4 DEF ParseDocument, CheckCurrent, ReserveUsage, RowKept, jobVars
  <2>2. claim' = claim \/ (Done(w) /\ ~IsCurrent(w))
    BY <1>4 DEF ParseDocument, CheckCurrent, ReserveUsage, Goto
  <2>3. CASE claim' = claim
    BY <1>k, <2>1, <2>3
  <2>4. CASE Done(w) /\ ~IsCurrent(w)
    BY <1>c, <2>1, <2>4, PaidDone DEF AttemptInv
  <2> QED
    BY <2>2, <2>3, <2>4
<1>5. ASSUME NEW w \in Workers,
             EgressPolicy(w) \/ RecheckClaim(w) \/ DenyEgress(w) \/ ProviderReturns(w)
      PROVE  AttemptInv'
  <2>1. (\A g \in Files : RowKept(g)) /\ faults' = faults /\ claim' = claim
    BY <1>5 DEF EgressPolicy, RecheckClaim, DenyEgress, ProviderReturns, RowKept, jobVars,
       Goto
  <2> QED
    BY <1>k, <2>1
<1>6. ASSUME NEW w \in Workers, PersistResult(w) PROVE AttemptInv'
  <2>1. Done(w) /\ faults' = faults /\ pc[w] = "persist" /\ attempts' = attempts
        /\ due' = due
    BY <1>6 DEF PersistResult
  <2>2. ASSUME NEW g \in Files, IsCurrent(w) => claim[w].file # g
        PROVE  PaidFor(g)'
    <3>1. RowKept(g)
      BY <1>6, <2>1, <2>2 DEF PersistResult, RowKept, TypeInv, PipelineTypeOK
    <3> QED
      BY <1>c, <2>1, <2>2, <3>1, PaidDone
  <2>3. ASSUME NEW g \in Files, IsCurrent(w), claim[w].file = g
        PROVE  PaidFor(g)'
    <3>1. job'[g] = "SUCCEEDED"
      BY <1>6, <2>3 DEF PersistResult, TypeInv, PipelineTypeOK
    <3> QED
      BY <2>1, <3>1 DEF AttemptInv, PaidFor
  <2> QED
    BY <2>2, <2>3 DEF AttemptInv
<1>7. ASSUME NEW w \in Workers, pc[w] # "idle",
             NEW s \in {"FAILED", "RETRY_WAIT", "UNSUPPORTED"}, NEW k,
             CloseJob(w, s, k), s = "RETRY_WAIT" => attempts[claim[w].file] < MaxAttempts
      PROVE  AttemptInv'
  <2>1. Done(w) /\ faults' = faults /\ attempts' = attempts
    BY <1>7 DEF CloseJob
  <2>2. ASSUME NEW g \in Files, OwnsJob(w) => claim[w].file # g
        PROVE  PaidFor(g)'
    <3>1. RowKept(g)
      BY <1>7, <2>1, <2>2 DEF CloseJob, RowKept, TypeInv, PipelineTypeOK
    <3> QED
      BY <1>7, <2>1, <2>2, <3>1, PaidDone
  <2>3. ASSUME NEW g \in Files, OwnsJob(w), claim[w].file = g
        PROVE  PaidFor(g)'
    <3>1. job'[g] = s
      BY <1>7, <2>3 DEF CloseJob, TypeInv, PipelineTypeOK
    <3> QED
      BY <1>7, <2>1, <2>3, <3>1 DEF AttemptInv, PaidFor
  <2> QED
    BY <2>2, <2>3 DEF AttemptInv
<1>8. ASSUME NEW w \in Workers, MarkFailure(w) \/ FinishTerminal(w) PROVE AttemptInv'
  <2>1. CASE FinishTerminal(w)
    BY <1>7, <2>1 DEF FinishTerminal
  <2>2. CASE MarkFailure(w)
    <3>1. pc[w] # "idle" /\ attempts[claim[w].file] \in Nat /\ MaxAttempts \in Nat
      BY <1>f, <1>n, <2>2 DEF MarkFailure
    <3>2. CloseJob(w, "FAILED", "FAILED") => AttemptInv'
      BY <1>7, <3>1
    <3>3. CloseJob(w, "RETRY_WAIT", "PENDING") /\ attempts[claim[w].file] < MaxAttempts
            => AttemptInv'
      BY <1>7, <3>1
    <3> QED
      BY <2>2, <3>1, <3>2, <3>3 DEF MarkFailure
  <2> QED
    BY <1>8, <2>1, <2>2
<1>9. ASSUME NEW w \in Workers, Crash(w) \/ CancelCycle(w) PROVE AttemptInv'
  <2>1. (\A g \in Files : RowKept(g)) /\ faults' = faults + 1
    BY <1>9 DEF Crash, CancelCycle, RowKept, jobVars
  <2> QED
    BY <2>1, PaidFrame DEF RowKept, AttemptInv
<1>10. ASSUME NEW f \in Files, RetryConversion(f) PROVE AttemptInv'
  <2>1. claim' = claim /\ faults' = faults
    BY <1>10 DEF RetryConversion, workerVars
  <2>2. \A g \in Files \ {f} : RowKept(g)
    BY <1>10 DEF RetryConversion, RowKept, TypeInv, PipelineTypeOK
  <2>3. job'[f] = "PENDING" /\ attempts'[f] = 0
    BY <1>10 DEF RetryConversion, TypeInv, PipelineTypeOK
  <2>4. PaidFor(f)'
    BY <1>n, <2>1, <2>3 DEF PaidFor
  <2>5. ASSUME NEW g \in Files \ {f} PROVE PaidFor(g)'
    BY <2>1, <2>2, AliveKept, PaidFrame DEF RowKept, AttemptInv
  <2> QED
    BY <2>4, <2>5 DEF AttemptInv
<1>11. ASSUME NEW f \in Files, JobTimer(f) PROVE AttemptInv'
  <2>1. claim' = claim /\ job' = job /\ lease' = lease /\ attempts' = attempts
        /\ (faults' = faults \/ faults' = faults + 1)
    BY <1>11 DEF JobTimer, workerVars
  <2>2. \A g \in Files \ {f} : due'[g] = due[g]
    BY <1>11 DEF JobTimer, TypeInv, PipelineTypeOK
  <2>3. job[f] = "PROCESSING" /\ Alive(f, lease[f]) => faults' = faults + 1
    BY <1>11 DEF JobTimer
  <2>4. Alive(f, lease[f])' <=> Alive(f, lease[f])
    BY <2>1 DEF Alive
  <2>5. PaidFor(f)'
    BY <1>n, <2>1, <2>3, <2>4 DEF AttemptInv, PaidFor
  <2>6. ASSUME NEW g \in Files \ {f} PROVE PaidFor(g)'
    BY <2>1, <2>2, AliveKept, PaidFrame DEF AttemptInv
  <2> QED
    BY <2>5, <2>6 DEF AttemptInv
<1>12. ASSUME NEW f \in Files, ScanTimer(f) PROVE AttemptInv'
  <2>1. claim' = claim /\ (\A g \in Files : RowKept(g))
        /\ (faults' = faults \/ faults' = faults + 1)
    BY <1>12 DEF ScanTimer, workerVars, RowKept, jobVars
  <2> QED
    BY <2>1, AliveKept, PaidFrame DEF RowKept, AttemptInv
<1>13. ASSUME \/ \E f \in Files : ApproveFile(f)
              \/ \E b \in Bases, e \in BOOLEAN : SetConsent(b, e)
              \/ \E k \in usage["HELD"] : ReconcileUsage(k)
              \/ UNCHANGED pipelineVars
       PROVE  AttemptInv'
  <2>1. claim' = claim /\ faults' = faults /\ (\A g \in Files : RowKept(g))
    BY <1>13, Zenon DEF ApproveFile, SetConsent, ReconcileUsage, pipelineVars, jobVars,
       workerVars, RowKept
  <2> QED
    BY <1>k, <2>1
<1> QED
  BY <1>1, <1>2, <1>3, <1>4, <1>5, <1>6, <1>8, <1>9, <1>10, <1>11, <1>12, <1>13
     DEF PipelineNext, Claim, Step, Operate

(* For any constants: a job passes its attempt limit only by attempts that
   reclaim a lease, and each of those was let go by a crash, a cancellation or
   an outlived lease (_claim_job, _mark_failure). *)
THEOREM PipelineAttemptsWithinFaults == PipelineSpec => []AttemptsWithinFaults
<1>1. PipelineInit => ClaimInv /\ AttemptInv
  <2> SUFFICES ASSUME PipelineInit PROVE ClaimInv /\ AttemptInv
    OBVIOUS
  <2>1. ClaimInv
    BY DEF PipelineInit, ClaimInv
  <2>2. AttemptInv
    BY PipelineAssumption DEF PipelineInit, AttemptInv, PaidFor
  <2> QED
    BY <2>1, <2>2
<1>2. PipelineSpec => [](ClaimInv /\ AttemptInv)
  BY <1>1, ClaimInductive, AttemptInductive, OwnershipHolds, ContentHolds, PTL
     DEF PipelineSpec
<1>3. AttemptInv => AttemptsWithinFaults
  BY DEF AttemptInv, PaidFor, AttemptsWithinFaults
<1> QED
  BY <1>2, <1>3, PTL

(* For any number of files, workers, attempts, retries and faults: the job stays
   coherent through _claim_job, _mark_failure, _persist_result and
   retry_okf_conversion, whichever workers come late. *)
THEOREM PipelineJobSound == PipelineSpec => []JobSound
BY PipelineOneDraft, PipelineKnowledgeFollowsJob, PipelineFreshKey,
   PipelineAttemptsWithinFaults, PTL DEF JobSound
=============================================================================
