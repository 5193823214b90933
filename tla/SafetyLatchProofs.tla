------------------------- MODULE SafetyLatchProofs -------------------------
(***************************************************************************)
(* The safety latch holds for every number of faults.  LatchHolds is not   *)
(* inductive: that a restart refuses chat depends on which witness each    *)
(* half-finished write, boot and clear step has left, so LatchInv says     *)
(* what the files look like at every step of the worker and of the host.   *)
(* The chat ingress fence (ChatIngress) runs over the same latch: it       *)
(* implements it, and its own promises hold for any number of requests.    *)
(***************************************************************************)
EXTENDS ChatIngress, FiniteSetTheorems, TLAPS

\* LatchTypeOK in two parts, because no backend takes arithmetic and flags
\* together.
Places ==
    /\ sentinel \in {"absent", "partial", "linked", "valid"}
    /\ run \in {"absent", "clean", "running"}
    /\ api \in {"missing", "created", "booting", "up", "exited"}
    /\ code \in {0, 1, 78}
    /\ pc \in {"none", "look", "arm", "entry", "fill", "clean", "left"}
    /\ host \in {"idle", "link", "unlink", "witness", "handoff", "mark",
                 "clear", "unpend"}
    /\ faults \in 0 .. MaxFaults

Flags ==
    temp \in BOOLEAN /\ pending \in BOOLEAN /\ poisoned \in BOOLEAN
      /\ incident \in BOOLEAN

\* What a worker that exists knows of its own position.
WorkerShape ==
    /\ api = "booting" => pc \in {"look", "arm", "entry", "fill", "clean"} /\ ~poisoned
    /\ api = "up" => pc \in {"none", "entry", "fill", "clean", "left"}
    /\ api \notin {"booting", "up"} => pc = "none" /\ ~poisoned
    /\ api = "up" /\ pc \in {"entry", "fill", "clean"} => poisoned

\* What the worker's persistence step says of the files.
FileShape ==
    /\ pc = "arm" => sentinel = "absent" /\ run # "running"
    /\ pc = "entry" => run = "running" \/ sentinel # "absent"
    /\ pc = "fill" => sentinel # "absent"
    /\ pc = "clean" => sentinel # "absent"
    /\ api = "up" /\ pc = "none" => poisoned \/ run = "running"
    /\ api = "up" /\ pc \in {"none", "left"} /\ poisoned => sentinel # "absent"

\* What the host script's step says of them.
HostShape ==
    /\ host \notin {"idle", "witness"} => api \notin {"booting", "up"}
    /\ host = "unlink" => sentinel # "absent"
    /\ host = "clear" => sentinel # "absent"
    /\ host \in {"handoff", "mark"} /\ incident => sentinel # "absent"
    /\ host = "witness" /\ sentinel = "absent" => ~incident
    /\ host \in {"witness", "handoff", "mark", "clear", "unpend"} => pending
    /\ host = "unpend" => ~incident
    /\ pending /\ sentinel = "absent" => ~incident /\ api \notin {"booting", "up"}

\* An uncleared incident: known to a worker that is up, witnessed otherwise.
IncidentShape ==
    /\ incident /\ api = "up" => poisoned
    /\ WitnessRemains

LatchInv == Places /\ Flags /\ WorkerShape /\ FileShape /\ HostShape /\ IncidentShape


(* The empty state directory of a first installation satisfies it. *)
LEMMA LatchInvInit == LatchInit => LatchInv
<1> SUFFICES ASSUME LatchInit PROVE LatchInv
  OBVIOUS
<1>1. Places
  BY MaxFaultsAssumption DEF LatchInit, Places
<1>6. Flags
  BY DEF LatchInit, Flags
<1>2. WorkerShape
  BY DEF LatchInit, WorkerShape
<1>3. FileShape
  BY DEF LatchInit, FileShape
<1>4. HostShape
  BY DEF LatchInit, HostShape
<1>5. IncidentShape
  BY DEF LatchInit, IncidentShape, WitnessRemains
<1> QED
  BY <1>1, <1>2, <1>3, <1>4, <1>5, <1>6 DEF LatchInv

(* Every step keeps the invariant: one case per action of the worker and of
   the host scripts. *)
LEMMA LatchInvStep == LatchInv /\ [LatchNext]_latchVars => LatchInv'
<1> SUFFICES ASSUME LatchInv, [LatchNext]_latchVars
             PROVE  LatchInv'
  OBVIOUS
<1> USE MaxFaultsAssumption
    DEF LatchInv, Places, Flags, WorkerShape, FileShape, HostShape, IncidentShape,
        WitnessRemains, diskOfHost
<1>1. CASE BootLook
  <2>1. Places'
    BY <1>1 DEF BootLook, Exit
  <2>6. Flags'
    BY <1>1 DEF BootLook, Exit
  <2>2. WorkerShape'
    BY <1>1 DEF BootLook, Exit
  <2>3. FileShape'
    BY <1>1 DEF BootLook, Exit
  <2>4. HostShape'
    BY <1>1 DEF BootLook, Exit
  <2>5. IncidentShape'
    BY <1>1 DEF BootLook, Exit
  <2> QED
    BY <2>1, <2>2, <2>3, <2>4, <2>5, <2>6
<1>2. CASE BootArm
  BY <1>2 DEF BootArm
<1>3. CASE Poison
  <2>1. Places'
    BY <1>3 DEF Poison, Serving
  <2>6. Flags'
    BY <1>3 DEF Poison, Serving
  <2>2. WorkerShape'
    BY <1>3 DEF Poison, Serving
  <2>3. FileShape'
    BY <1>3 DEF Poison, Serving
  <2>4. HostShape'
    BY <1>3 DEF Poison, Serving
  <2>5. IncidentShape'
    BY <1>3 DEF Poison, Serving
  <2> QED
    BY <2>1, <2>2, <2>3, <2>4, <2>5, <2>6
<1>4. CASE PersistEntry
  <2>1. Places'
    BY <1>4 DEF PersistEntry, Exit
  <2>6. Flags'
    BY <1>4 DEF PersistEntry, Exit
  <2>2. WorkerShape'
    BY <1>4 DEF PersistEntry, Exit
  <2>3. FileShape'
    BY <1>4 DEF PersistEntry, Exit
  <2>4. HostShape'
    BY <1>4 DEF PersistEntry, Exit
  <2>5. IncidentShape'
    BY <1>4 DEF PersistEntry, Exit
  <2> QED
    BY <2>1, <2>2, <2>3, <2>4, <2>5, <2>6
<1>5. CASE PersistFill
  BY <1>5 DEF PersistFill
<1>6. CASE PersistClean
  <2>1. Places'
    BY <1>6 DEF PersistClean
  <2>6. Flags'
    BY <1>6 DEF PersistClean
  <2>2. WorkerShape'
    BY <1>6 DEF PersistClean
  <2>3. FileShape'
    BY <1>6 DEF PersistClean
  <2>4. HostShape'
    BY <1>6 DEF PersistClean
  <2>5. IncidentShape'
    BY <1>6 DEF PersistClean
  <2> QED
    BY <2>1, <2>2, <2>3, <2>4, <2>5, <2>6
<1>7. CASE PersistFails
  <2>1. Places'
    BY <1>7 DEF PersistFails, Exit
  <2>6. Flags'
    BY <1>7 DEF PersistFails, Exit
  <2>2. WorkerShape'
    BY <1>7 DEF PersistFails, Exit
  <2>3. FileShape'
    BY <1>7 DEF PersistFails, Exit
  <2>4. HostShape'
    BY <1>7 DEF PersistFails, Exit
  <2>5. IncidentShape'
    BY <1>7 DEF PersistFails, Exit
  <2> QED
    BY <2>1, <2>2, <2>3, <2>4, <2>5, <2>6
<1>8. CASE Shutdown
  <2>1. Places'
    BY <1>8 DEF Shutdown, Serving, Exit
  <2>6. Flags'
    BY <1>8 DEF Shutdown, Serving, Exit
  <2>2. WorkerShape'
    BY <1>8 DEF Shutdown, Serving, Exit
  <2>3. FileShape'
    BY <1>8 DEF Shutdown, Serving, Exit
  <2>4. HostShape'
    BY <1>8 DEF Shutdown, Serving, Exit
  <2>5. IncidentShape'
    BY <1>8 DEF Shutdown, Serving, Exit
  <2> QED
    BY <2>1, <2>2, <2>3, <2>4, <2>5, <2>6
<1>9. CASE Start
  BY <1>9 DEF Start, NoHold
<1>10. CASE MaterializeTemp
  BY <1>10 DEF MaterializeTemp, NoHold
<1>11. CASE MaterializeLink
  BY <1>11 DEF MaterializeLink
<1>12. CASE MaterializeUnlink
  BY <1>12 DEF MaterializeUnlink
<1>13. CASE ClearAuthorize
  BY <1>13 DEF ClearAuthorize, Clearable
<1>14. CASE ClearWitness
  <2>1. Places'
    BY <1>14 DEF ClearWitness
  <2>2. WorkerShape'
    BY <1>14 DEF ClearWitness
  <2>3. FileShape'
    BY <1>14 DEF ClearWitness
  <2>4. HostShape'
    BY <1>14 DEF ClearWitness
  <2>5. IncidentShape'
    BY <1>14 DEF ClearWitness
  <2>6. Flags'
    BY <1>14 DEF ClearWitness
  <2> QED
    BY <2>1, <2>2, <2>3, <2>4, <2>5, <2>6
<1>15. CASE ClearHandoff
  BY <1>15 DEF ClearHandoff
<1>16. CASE ClearMark
  BY <1>16 DEF ClearMark
<1>17. CASE ClearSentinel
  BY <1>17 DEF ClearSentinel
<1>18. CASE ClearUnpend
  BY <1>18 DEF ClearUnpend
<1>19. CASE HoldKill
  <2>1. Places'
    BY <1>19 DEF HoldKill, NoHold, Exit
  <2>6. Flags'
    BY <1>19 DEF HoldKill, NoHold, Exit
  <2>2. WorkerShape'
    BY <1>19 DEF HoldKill, NoHold, Exit
  <2>3. FileShape'
    BY <1>19 DEF HoldKill, NoHold, Exit
  <2>4. HostShape'
    BY <1>19 DEF HoldKill, NoHold, Exit
  <2>5. IncidentShape'
    BY <1>19 DEF HoldKill, NoHold, Exit
  <2> QED
    BY <2>1, <2>2, <2>3, <2>4, <2>5, <2>6
<1>20. CASE HostDies
  BY <1>20 DEF HostDies
<1>21. ASSUME NEW st \in {0, 1}, Leave(st)
      PROVE  LatchInv'
  <2>1. Places'
    BY <1>21 DEF Leave, Exit
  <2>6. Flags'
    BY <1>21 DEF Leave, Exit
  <2>2. WorkerShape'
    BY <1>21 DEF Leave, Exit
  <2>3. FileShape'
    BY <1>21 DEF Leave, Exit
  <2>4. HostShape'
    BY <1>21 DEF Leave, Exit
  <2>5. IncidentShape'
    BY <1>21 DEF Leave, Exit
  <2> QED
    BY <2>1, <2>2, <2>3, <2>4, <2>5, <2>6
<1>22. ASSUME NEW st \in {0, 1}, Crash(st)
      PROVE  LatchInv'
  <2>1. Places'
    BY <1>22 DEF Crash, Exit
  <2>6. Flags'
    BY <1>22 DEF Crash, Exit
  <2>2. WorkerShape'
    BY <1>22 DEF Crash, Exit
  <2>3. FileShape'
    BY <1>22 DEF Crash, Exit
  <2>4. HostShape'
    BY <1>22 DEF Crash, Exit
  <2>5. IncidentShape'
    BY <1>22 DEF Crash, Exit
  <2> QED
    BY <2>1, <2>2, <2>3, <2>4, <2>5, <2>6
<1>23. CASE UNCHANGED latchVars
  BY <1>23 DEF latchVars
<1> QED
  BY <1>1, <1>2, <1>3, <1>4, <1>5, <1>6, <1>7, <1>8, <1>9, <1>10, <1>11, <1>12, <1>13, <1>14, <1>15, <1>16, <1>17, <1>18, <1>19, <1>20, <1>21, <1>22, <1>23 DEF LatchNext, BootStep, HostStep

(* LatchInv implies what the runs check. *)
LEMMA LatchInvImplies ==
    LatchInv => LatchTypeOK /\ LatchHolds /\ WitnessRemains /\ PoisonDurable
BY DEF LatchInv, Places, Flags, LatchTypeOK, FileShape, IncidentShape, LatchHolds, PoisonDurable, Open,
       Serving, chat_safety_poisoned

(* The invariant holds in every reachable state. *)
LEMMA LatchInvariant == LatchSpec => []LatchInv
BY LatchInvInit, LatchInvStep, PTL DEF LatchSpec

(* The whole promise of the latch, for any number of faults: its parts follow
   from the inductive invariant. *)
THEOREM LatchAlwaysSound == LatchSpec => []LatchSound
<1>1. LatchInv => LatchSound
  BY LatchInvImplies DEF LatchSound
<1>2. QED
  BY <1>1, LatchInvariant, PTL

(* chat_safety.py and the host scripts never reopen chat over an uncleared
   incident, however often the worker and the scripts die. *)
THEOREM LatchHoldsAlways == LatchSpec => []LatchHolds
BY LatchInvariant, LatchInvImplies, PTL

(* The last witness of an uncleared incident is never lost. *)
THEOREM WitnessAlwaysRemains == LatchSpec => []WitnessRemains
BY LatchInvariant, LatchInvImplies, PTL

(* A worker never serves with a poison that a restart would forget. *)
THEOREM PoisonAlwaysDurable == LatchSpec => []PoisonDurable
BY LatchInvariant, LatchInvImplies, PTL

-----------------------------------------------------------------------------
(* The ingress fence over the latch. *)

Clocks == 0 .. 3
Request ==
    [mid : {"idle", "admitted", "waiting", "cleaning", "sending", "done"},
     reply : {"none", "answer", "relay", "error"},
     route : {"none", "budget", "op", "ending", "ok", "failed", "cancelled"},
     text : {"empty", "answer", "error"},
     op : {"none", "running", "done", "failed", "cancelled"},
     clock : Clocks,
     stop : BOOLEAN, cut : BOOLEAN, pull : BOOLEAN, closed : BOOLEAN,
     outer : BOOLEAN, lease : BOOLEAN, opSup : BOOLEAN,
     routeSup : BOOLEAN, sendSup : BOOLEAN]

\* Who holds the lease: the call until its end, then a supervised route; and no
\* route is at work without it.
LeaseShape(q) ==
    /\ q.mid \in {"admitted", "waiting", "cleaning"} => q.lease
    /\ q.mid \in {"idle", "admitted"} => q.route = "none"
    /\ q.mid = "idle" => ~q.lease
    /\ q.mid = "done" /\ q.lease => q.routeSup
    /\ q.routeSup => q.lease /\ q.mid \in {"sending", "done"}
    /\ RouteLive(q) => q.lease
    /\ RouteLive(q) /\ q.mid \in {"sending", "done"} => q.routeSup

\* Whose the operation is: its route's, or the supervisor's.
OpShape(q) ==
    /\ q.route \in {"none", "budget"} => q.op = "none"
    /\ q.route \in {"op", "ending"} => q.op # "none"
    /\ q.op = "running" => q.route \in {"op", "ending"} \/ q.opSup
    /\ q.opSup => q.op = "running"
    /\ q.route \in {"none", "budget", "op"} => ~q.stop /\ ~q.opSup

\* What is on its way to the client.
ReplyShape(q) ==
    /\ q.text = "answer" => q.op = "done" /\ ~q.stop /\ RouteDone(q)
    /\ q.reply = "answer" => q.op = "done" /\ ~q.stop /\ ~q.cut /\ RouteDone(q)

\* A result that came after its cancellation, and that nobody will look at.
LateResult(q) == q.op = "done" /\ q.stop /\ RouteDone(q) /\ ~q.opSup

\* A waiting call whose route is at work.
Exposed(q) == q.mid = "waiting" /\ RouteLive(q)

RequestInv ==
    /\ req \in [Requests -> Request]
    /\ \A r \in Requests : LeaseShape(req[r]) /\ OpShape(req[r]) /\ ReplyShape(req[r])
    /\ \A r \in Requests : LateResult(req[r]) => poisoned = TRUE

\* The admission counter.
Leased == {r \in Requests : req[r].lease}
LeaseInv ==
    /\ IsFiniteSet(Leased)
    /\ active = Cardinality(Leased) /\ active <= MaxActive

\* The poison's fan-out: pending while the poison is being written, then every
\* exposed route has been reached; a worker that is not up has no request.
FanoutInv ==
    /\ callbacks \subseteq Requests
    /\ fanout \in BOOLEAN
    /\ fanout => api = "up" /\ pc \in {"entry", "fill", "clean"}
    /\ api # "up" => \A r \in Requests : ~Exposed(req[r])
    /\ poisoned /\ ~fanout =>
          \A r \in Requests : Exposed(req[r]) => req[r].cut \/ r \in callbacks

IngressInv == LatchInv /\ RequestInv /\ LeaseInv /\ FanoutInv

(* The request nobody sent, and the one that was lost. *)
LEMMA FreshLost ==
    /\ Fresh \in Request /\ Fresh.mid = "idle" /\ Fresh.reply = "none" /\ Fresh.text = "empty"
    /\ Fresh.route = "none" /\ Fresh.op = "none" /\ Fresh.lease = FALSE
    /\ Fresh.routeSup = FALSE /\ Fresh.opSup = FALSE /\ Fresh.stop = FALSE
    /\ Lost \in Request /\ Lost.mid = "done" /\ Lost.reply = "none" /\ Lost.text = "empty"
    /\ Lost.route = "none" /\ Lost.op = "none" /\ Lost.lease = FALSE
    /\ Lost.routeSup = FALSE /\ Lost.opSup = FALSE /\ Lost.stop = FALSE
<1>c. 0 \in Clocks
  BY DEF Clocks
<1>1. /\ Fresh \in Request /\ Fresh.mid = "idle" /\ Fresh.reply = "none" /\ Fresh.text = "empty"
      /\ Fresh.route = "none" /\ Fresh.op = "none" /\ Fresh.lease = FALSE
      /\ Fresh.routeSup = FALSE /\ Fresh.opSup = FALSE /\ Fresh.stop = FALSE
  BY <1>c DEF Fresh, Request
<1>2. Lost \in Request
  BY <1>1 DEF Lost, Request
<1>3. /\ Lost.mid = "done" /\ Lost.reply = "none" /\ Lost.text = "empty"
      /\ Lost.route = "none" /\ Lost.op = "none" /\ Lost.lease = FALSE
      /\ Lost.routeSup = FALSE /\ Lost.opSup = FALSE /\ Lost.stop = FALSE
  BY <1>1 DEF Lost, Request
<1> QED
  BY <1>1, <1>2, <1>3

(* Forgetting a finished request loses nothing that matters. *)
LEMMA SettledShape ==
    ASSUME NEW q \in Request, LeaseShape(q), OpShape(q), ReplyShape(q)
    PROVE  /\ Settled(q) \in Request
           /\ LeaseShape(Settled(q)) /\ OpShape(Settled(q)) /\ ReplyShape(Settled(q))
           /\ Settled(q).lease = q.lease
           /\ LateResult(Settled(q)) => LateResult(q)
           /\ Exposed(Settled(q)) => Exposed(q) /\ Settled(q).cut = q.cut
<1>1. CASE Settled(q) = q
  BY <1>1
<1>2. CASE Settled(q) # q
  <2>1. q.mid = "done" /\ q.op # "running" /\ ~RouteLive(q) /\ ~q.routeSup
    BY <1>2 DEF Settled
  <2>2. q.lease = FALSE /\ q.opSup = FALSE
    BY <2>1 DEF LeaseShape, OpShape, Request
  <2>3. CASE q.op = "done" /\ q.stop
    <3>1. RouteDone(q)
      BY <2>1, <2>3 DEF OpShape, RouteDone, RouteLive, Request
    <3>2. Settled(q) = [Lost EXCEPT !.op = "done", !.stop = TRUE, !.route = "failed"]
      BY <1>2, <2>3 DEF Settled, Request
    <3>m. Settled(q) \in Request
      BY <3>2, FreshLost DEF Request
    <3>3. /\ Settled(q).mid = "done" /\ Settled(q).reply = "none"
          /\ Settled(q).text = "empty" /\ Settled(q).route = "failed" /\ Settled(q).op = "done"
          /\ Settled(q).lease = FALSE /\ Settled(q).routeSup = FALSE
          /\ Settled(q).opSup = FALSE
      BY <3>2, FreshLost DEF Request
    <3>4. LateResult(q) /\ ~Exposed(Settled(q))
      BY <2>2, <2>3, <3>1, <3>3 DEF LateResult, Exposed
    <3> QED
      BY <2>2, <3>m, <3>3, <3>4 DEF LeaseShape, OpShape, ReplyShape, RouteLive
  <2>4. CASE ~(q.op = "done" /\ q.stop)
    <3>1. Settled(q) = [Lost EXCEPT !.op = "none", !.stop = FALSE, !.route = "none"]
      BY <1>2, <2>4 DEF Settled
    <3>m. Settled(q) \in Request
      BY <3>1, FreshLost DEF Request
    <3>2. /\ Settled(q).mid = "done" /\ Settled(q).reply = "none"
          /\ Settled(q).text = "empty" /\ Settled(q).route = "none" /\ Settled(q).op = "none"
          /\ Settled(q).lease = FALSE /\ Settled(q).routeSup = FALSE
          /\ Settled(q).opSup = FALSE /\ Settled(q).stop = FALSE
      BY <3>1, FreshLost DEF Request
    <3>3. ~LateResult(Settled(q)) /\ ~Exposed(Settled(q))
      BY <3>2 DEF LateResult, Exposed
    <3> QED
      BY <2>2, <3>m, <3>2, <3>3 DEF LeaseShape, OpShape, ReplyShape, RouteLive
  <2> QED
    BY <2>3, <2>4
<1> QED
  BY <1>1, <1>2

(* What a step of one request owes to the others. *)
LeaseMoves(r, q) ==
    \/ q.lease = req[r].lease /\ active' = active
    \/ q.lease = TRUE /\ req[r].lease = FALSE /\ active < MaxActive /\ active' = active + 1
    \/ q.lease = FALSE /\ req[r].lease = TRUE /\ active' = active - 1

(* A step of the worker that leaves the latch alone or poisons it is a step of
   the latch. *)
LEMMA BecomeLatch ==
    ASSUME NEW r, NEW q, NEW p \in BOOLEAN, Become(r, q, p), Serving
    PROVE  /\ [LatchNext]_latchVars /\ api' = "up"
           /\ IF p THEN poisoned' = TRUE /\ fanout' = ~poisoned /\ pc' = "entry"
                   ELSE poisoned' = poisoned /\ fanout' = fanout /\ pc' = pc
BY DEF Become, LatchNext, latchVars, Poison, Serving

(* A request's own step keeps the invariant when its new state is well shaped. *)
LEMMA RequestStep ==
    ASSUME IngressInv, Serving, NEW r \in Requests, NEW q \in Request, NEW p \in BOOLEAN,
           Become(r, q, p), LeaseShape(q), OpShape(q), ReplyShape(q),
           LateResult(q) => poisoned = TRUE \/ p,
           poisoned /\ Exposed(q) => q.cut \/ r \in callbacks',
           callbacks' \subseteq callbacks, callbacks \ {r} \subseteq callbacks',
           LeaseMoves(r, q)
    PROVE  IngressInv' /\ [LatchNext]_latchVars
<1>1. /\ [LatchNext]_latchVars /\ api' = "up"
      /\ IF p THEN poisoned' = TRUE /\ fanout' = ~poisoned /\ pc' = "entry"
              ELSE poisoned' = poisoned /\ fanout' = fanout /\ pc' = pc
  BY BecomeLatch
<1>2. LatchInv'
  BY <1>1, LatchInvStep DEF IngressInv
<1> DEFINE n == Settled(q)
<1>3. /\ n \in Request /\ LeaseShape(n) /\ OpShape(n) /\ ReplyShape(n) /\ n.lease = q.lease
      /\ LateResult(n) => LateResult(q)
      /\ Exposed(n) => Exposed(q) /\ n.cut = q.cut
  BY SettledShape
<1>4. req' = [req EXCEPT ![r] = n]
  BY DEF Become
<1> HIDE DEF n
<1>t. req \in [Requests -> Request]
  BY DEF IngressInv, RequestInv
<1>5. req'[r] = n /\ \A v \in Requests \ {r} : req'[v] = req[v]
  BY <1>4, <1>t
<1>6. RequestInv'
  <2>1. req' \in [Requests -> Request]
    BY <1>3, <1>4, <1>t
  <2>2. \A v \in Requests : LeaseShape(req'[v]) /\ OpShape(req'[v]) /\ ReplyShape(req'[v])
    BY <1>3, <1>5 DEF IngressInv, RequestInv
  <2>3. \A v \in Requests : LateResult(req'[v]) => poisoned' = TRUE
    BY <1>1, <1>3, <1>5 DEF IngressInv, RequestInv
  <2> QED
    BY <2>1, <2>2, <2>3 DEF RequestInv
<1>7. LeaseInv'
  <2>t. /\ IsFiniteSet(Leased) /\ active = Cardinality(Leased) /\ active <= MaxActive
        /\ MaxActive \in Nat /\ active \in Nat
    BY MaxActiveAssumption, FS_CardinalityType DEF IngressInv, LeaseInv
  <2>b. q.lease \in BOOLEAN /\ req[r].lease \in BOOLEAN
    BY <1>t DEF Request
  <2>1. CASE q.lease = req[r].lease /\ active' = active
    <3>1. Leased' = Leased
      BY <1>3, <1>5, <2>1 DEF Leased
    <3> QED
      BY <2>t, <2>1, <3>1 DEF LeaseInv
  <2>2. CASE q.lease = TRUE /\ req[r].lease = FALSE /\ active < MaxActive /\ active' = active + 1
    <3>1. Leased' = Leased \cup {r} /\ r \notin Leased
      BY <1>3, <1>5, <2>2 DEF Leased
    <3>2. IsFiniteSet(Leased') /\ Cardinality(Leased') = Cardinality(Leased) + 1
      BY <2>t, <3>1, FS_AddElement
    <3> QED
      BY <2>t, <2>2, <3>2 DEF LeaseInv
  <2>3. CASE q.lease = FALSE /\ req[r].lease = TRUE /\ active' = active - 1
    <3>1. Leased' = Leased \ {r} /\ r \in Leased
      BY <1>3, <1>5, <2>3 DEF Leased
    <3>2. IsFiniteSet(Leased') /\ Cardinality(Leased') = Cardinality(Leased) - 1
      BY <2>t, <3>1, FS_RemoveElement
    <3> QED
      BY <2>t, <2>3, <3>2 DEF LeaseInv
  <2> QED
    BY <2>1, <2>2, <2>3 DEF LeaseMoves
<1>8. FanoutInv'
  <2>t. /\ poisoned \in BOOLEAN /\ fanout \in BOOLEAN /\ callbacks \subseteq Requests
        /\ fanout = FALSE
        /\ poisoned => \A v \in Requests : Exposed(req[v]) => req[v].cut \/ v \in callbacks
    BY DEF IngressInv, FanoutInv, LatchInv, Flags, Serving
  <2>1. callbacks' \subseteq Requests /\ fanout' \in BOOLEAN
    BY <1>1, <2>t
  <2>2. fanout' => api' = "up" /\ pc' \in {"entry", "fill", "clean"}
    BY <1>1, <2>t
  <2>3. ASSUME poisoned', ~fanout', NEW v \in Requests, Exposed(req'[v])
        PROVE  req'[v].cut \/ v \in callbacks'
    <3>1. poisoned
      BY <1>1, <2>3, <2>t
    <3>2. CASE v = r
      BY <1>3, <1>5, <2>3, <3>1, <3>2
    <3>3. CASE v # r
      BY <1>5, <2>t, <2>3, <3>1, <3>3
    <3> QED
      BY <3>2, <3>3
  <2> QED
    BY <1>1, <2>1, <2>2, <2>3 DEF FanoutInv
<1> QED
  BY <1>1, <1>2, <1>6, <1>7, <1>8 DEF IngressInv

(* The call returns: its lease goes back unless a supervised route keeps it. *)
(* Its record stays a record. *)
LEMMA ReturnedType == ASSUME NEW q \in Request PROVE Returned(q) \in Request
<1>1. /\ (IF q.sendSup THEN q.reply ELSE "none") \in {"none", "answer", "relay", "error"}
      /\ (q.lease /\ q.routeSup) \in BOOLEAN
  BY DEF Request
<1>2. ASSUME NEW a \in {"none", "answer", "relay", "error"}, NEW b \in BOOLEAN
      PROVE  [q EXCEPT !.mid = "done", !.text = "empty", !.clock = 0, !.outer = FALSE,
                       !.closed = TRUE, !.reply = a, !.lease = b] \in Request
  <2> DEFINE m == [q EXCEPT !.mid = "done", !.text = "empty", !.clock = 0]
             k == [m EXCEPT !.outer = FALSE, !.closed = TRUE]
  <2>c. 0 \in Clocks
    BY DEF Clocks
  <2>1. m \in Request
    BY <2>c DEF Request
  <2>2. k \in Request
    <3> HIDE DEF m
    <3> QED BY <2>1 DEF Request
  <2>3. [k EXCEPT !.reply = a, !.lease = b] \in Request
    <3> HIDE DEF k
    <3> QED BY <2>2 DEF Request
  <2> QED
    BY <2>3
<1> QED
  BY <1>1, <1>2 DEF Returned

LEMMA FinishStep ==
    ASSUME IngressInv, Serving, NEW r \in Requests, NEW q \in Request, NEW p \in BOOLEAN,
           Finish(r, q, p), q.lease = req[r].lease, OpShape(q), ReplyShape(q),
           LateResult(q) => poisoned = TRUE \/ p,
           RouteLive(q) => q.routeSup, q.routeSup => q.lease
    PROVE  IngressInv' /\ [LatchNext]_latchVars
<1> DEFINE n == Returned(q)
<1>1. n \in Request
  BY ReturnedType
<1>a. n.mid = "done" /\ n.text = "empty" /\ n.route = q.route
  BY DEF Returned, Request
<1>d. n.op = q.op /\ n.stop = q.stop /\ n.cut = q.cut
  BY DEF Returned, Request
<1>e. n.opSup = q.opSup /\ n.routeSup = q.routeSup
  BY DEF Returned, Request
<1>b. n.reply = q.reply \/ n.reply = "none"
  BY DEF Returned, Request
<1>c. n.lease = (q.lease /\ q.routeSup)
  BY DEF Returned, Request
<1>2. /\ n.mid = "done" /\ n.text = "empty" /\ (n.reply = q.reply \/ n.reply = "none")
      /\ n.lease = (q.lease /\ q.routeSup) /\ n.route = q.route /\ n.op = q.op
      /\ n.stop = q.stop /\ n.cut = q.cut /\ n.opSup = q.opSup /\ n.routeSup = q.routeSup
  BY <1>a, <1>b, <1>c, <1>d, <1>e
<1>3. /\ Become(r, n, p) /\ callbacks' = callbacks
      /\ active' = IF q.lease /\ ~q.routeSup THEN active - 1 ELSE active
  BY DEF Finish
<1> HIDE DEF n
<1>t. q.lease \in BOOLEAN /\ q.routeSup \in BOOLEAN /\ req[r].lease \in BOOLEAN
  BY DEF Request, IngressInv, RequestInv
<1>4. LeaseShape(n)
  BY <1>2, <1>t DEF LeaseShape, RouteLive
<1>5. OpShape(n) /\ ReplyShape(n)
  BY <1>2 DEF OpShape, ReplyShape, RouteDone
<1>6. LateResult(n) => poisoned = TRUE \/ p
  BY <1>2 DEF LateResult, RouteDone
<1>7. ~Exposed(n)
  BY <1>2 DEF Exposed
<1>8. LeaseMoves(r, n)
  BY <1>2, <1>3, <1>t DEF LeaseMoves
<1> QED
  BY <1>1, <1>3, <1>4, <1>5, <1>6, <1>7, <1>8, RequestStep

(* What is known of a request before its step. *)
RequestFacts(r, q) ==
    /\ q \in Request /\ q = req[r] /\ poisoned \in BOOLEAN
    /\ LeaseShape(q) /\ OpShape(q) /\ ReplyShape(q)
    /\ LateResult(q) => poisoned = TRUE
    /\ Serving /\ poisoned /\ Exposed(q) => q.cut \/ r \in callbacks
    /\ active \in Nat /\ MaxActive \in Nat

(* The invariant says so. *)
LEMMA RequestKnown == ASSUME IngressInv, NEW r \in Requests PROVE RequestFacts(r, req[r])
<1>1. active \in Nat /\ MaxActive \in Nat
  BY MaxActiveAssumption, FS_CardinalityType DEF IngressInv, LeaseInv
<1>2. req[r] \in Request /\ poisoned \in BOOLEAN
  BY DEF IngressInv, RequestInv, LatchInv, Flags
<1>3. /\ LeaseShape(req[r]) /\ OpShape(req[r]) /\ ReplyShape(req[r])
      /\ LateResult(req[r]) => poisoned = TRUE
  BY DEF IngressInv, RequestInv
<1>4. Serving /\ poisoned /\ Exposed(req[r]) => req[r].cut \/ r \in callbacks
  BY DEF IngressInv, FanoutInv, Serving
<1> QED
  BY <1>1, <1>2, <1>3, <1>4 DEF RequestFacts

(* A route is created and registered. *)
LEMMA RegisterKeeps ==
    ASSUME IngressInv, NEW r \in Requests, Register(r)
    PROVE  IngressInv' /\ [LatchNext]_latchVars
<1> DEFINE q == req[r]
<1>t. RequestFacts(r, q)
  BY RequestKnown
<1> DEFINE n == [q EXCEPT !.mid = "waiting", !.route = "budget", !.cut = chat_safety_poisoned]
<1>g. Serving /\ q.mid = "admitted"
  BY DEF Register
<1>b. Become(r, n, FALSE) /\ active' = active /\ callbacks' = callbacks
  BY <1>t, <1>g DEF RequestFacts, Register
<1>p. FALSE \in BOOLEAN
  OBVIOUS
<1>m. n \in Request
  BY <1>t, <1>g DEF RequestFacts, Request, chat_safety_poisoned
<1>f1. n.mid = "waiting" /\ n.reply = q.reply /\ n.route = "budget" /\ n.text = q.text
  BY <1>t DEF RequestFacts, Request
<1>f2. n.op = q.op /\ n.stop = q.stop /\ n.cut = chat_safety_poisoned /\ n.lease = q.lease
  BY <1>t DEF RequestFacts, Request
<1>f3. n.opSup = q.opSup /\ n.routeSup = q.routeSup
  BY <1>t DEF RequestFacts, Request
<1> HIDE DEF n
<1>s1. LeaseShape(n)
  BY <1>t, <1>g, <1>f1, <1>f2, <1>f3 DEF RequestFacts, LeaseShape, RouteLive, RouteDone
<1>s2. OpShape(n)
  BY <1>t, <1>g, <1>f1, <1>f2, <1>f3 DEF RequestFacts, OpShape, RouteLive, RouteDone, OpDone,
     LeaseShape
<1>s3. ReplyShape(n)
  BY <1>t, <1>g, <1>f1, <1>f2, <1>f3 DEF RequestFacts, ReplyShape, OpShape, RouteLive,
     RouteDone, OpDone, LeaseShape
<1>s4. LateResult(n) => poisoned = TRUE
  BY <1>t, <1>g, <1>f1, <1>f2, <1>f3 DEF RequestFacts, LateResult, OpShape, RouteLive,
     RouteDone, OpDone, LeaseShape
<1>s5. poisoned /\ Exposed(n) => n.cut \/ r \in callbacks'
  BY <1>t, <1>g, <1>f1, <1>f2, <1>f3, <1>b DEF RequestFacts, Exposed, RouteLive, RouteDone,
     LeaseShape, chat_safety_poisoned
<1>s6. LeaseMoves(r, n)
  BY <1>t, <1>g, <1>f1, <1>f2, <1>f3, <1>b DEF RequestFacts, LeaseMoves, LeaseShape, Request
<1> QED
  BY <1>g, <1>b, <1>p, <1>m, <1>s1, <1>s2, <1>s3, <1>s4, <1>s5, <1>s6, RequestStep

(* The operation budget ends. *)
LEMMA GivesKeeps ==
    ASSUME IngressInv, NEW r \in Requests, MidGivesUp(r)
    PROVE  IngressInv' /\ [LatchNext]_latchVars
<1> DEFINE q == req[r]
<1>t. RequestFacts(r, q)
  BY RequestKnown
<1> DEFINE n == [q EXCEPT !.mid = "cleaning", !.closed = TRUE, !.text = "empty",
                          !.cut = (q.cut \/ ~RouteDone(q))]
<1>g. Serving /\ q.mid = "waiting"
  BY DEF MidGivesUp
<1>b. Become(r, n, FALSE) /\ active' = active /\ callbacks' = callbacks
  BY <1>t, <1>g DEF RequestFacts, MidGivesUp
<1>p. FALSE \in BOOLEAN
  OBVIOUS
<1>m. n \in Request
  BY <1>t, <1>g DEF RequestFacts, Request, RouteDone
<1>f1. n.mid = "cleaning" /\ n.reply = q.reply /\ n.route = q.route /\ n.text = "empty"
  BY <1>t DEF RequestFacts, Request
<1>f2. n.op = q.op /\ n.stop = q.stop /\ n.cut = (q.cut \/ ~RouteDone(q)) /\ n.lease = q.lease
  BY <1>t DEF RequestFacts, Request
<1>f3. n.opSup = q.opSup /\ n.routeSup = q.routeSup
  BY <1>t DEF RequestFacts, Request
<1> HIDE DEF n
<1>s1. LeaseShape(n)
  BY <1>t, <1>g, <1>f1, <1>f2, <1>f3 DEF RequestFacts, LeaseShape, RouteLive, RouteDone
<1>s2. OpShape(n)
  BY <1>t, <1>g, <1>f1, <1>f2, <1>f3 DEF RequestFacts, OpShape, RouteLive, RouteDone, OpDone
<1>s3. ReplyShape(n)
  BY <1>t, <1>g, <1>f1, <1>f2, <1>f3 DEF RequestFacts, ReplyShape, OpShape, RouteLive,
     RouteDone, OpDone
<1>s4. LateResult(n) => poisoned = TRUE
  BY <1>t, <1>g, <1>f1, <1>f2, <1>f3 DEF RequestFacts, LateResult, OpShape, RouteLive,
     RouteDone, OpDone
<1>s5. poisoned /\ Exposed(n) => n.cut \/ r \in callbacks'
  BY <1>t, <1>g, <1>f1, <1>f2, <1>f3, <1>b DEF RequestFacts, Exposed, RouteLive, RouteDone
<1>s6. LeaseMoves(r, n)
  BY <1>t, <1>g, <1>f1, <1>f2, <1>f3, <1>b DEF RequestFacts, LeaseMoves, LeaseShape, Request
<1> QED
  BY <1>g, <1>b, <1>p, <1>m, <1>s1, <1>s2, <1>s3, <1>s4, <1>s5, <1>s6, RequestStep

(* The server cancels the request. *)
LEMMA OuterKeeps ==
    ASSUME IngressInv, NEW r \in Requests, OuterCancel(r)
    PROVE  IngressInv' /\ [LatchNext]_latchVars
<1> DEFINE q == req[r]
<1>t. RequestFacts(r, q)
  BY RequestKnown
<1> DEFINE n == [q EXCEPT !.outer = TRUE]
<1>g. Serving /\ q.mid \in {"waiting", "cleaning", "sending"}
  BY DEF OuterCancel
<1>b. Become(r, n, FALSE) /\ active' = active /\ callbacks' = callbacks
  BY <1>t, <1>g DEF RequestFacts, OuterCancel
<1>p. FALSE \in BOOLEAN
  OBVIOUS
<1>m. n \in Request
  BY <1>t, <1>g DEF RequestFacts, Request
<1>f1. n.mid = q.mid /\ n.reply = q.reply /\ n.route = q.route /\ n.text = q.text
  BY <1>t DEF RequestFacts, Request
<1>f2. n.op = q.op /\ n.stop = q.stop /\ n.cut = q.cut /\ n.lease = q.lease
  BY <1>t DEF RequestFacts, Request
<1>f3. n.opSup = q.opSup /\ n.routeSup = q.routeSup
  BY <1>t DEF RequestFacts, Request
<1> HIDE DEF n
<1>s1. LeaseShape(n)
  BY <1>t, <1>g, <1>f1, <1>f2, <1>f3 DEF RequestFacts, LeaseShape, RouteLive, RouteDone
<1>s2. OpShape(n)
  BY <1>t, <1>g, <1>f1, <1>f2, <1>f3 DEF RequestFacts, OpShape, RouteLive, RouteDone, OpDone
<1>s3. ReplyShape(n)
  BY <1>t, <1>g, <1>f1, <1>f2, <1>f3 DEF RequestFacts, ReplyShape, OpShape, RouteLive,
     RouteDone, OpDone
<1>s4. LateResult(n) => poisoned = TRUE
  BY <1>t, <1>g, <1>f1, <1>f2, <1>f3 DEF RequestFacts, LateResult, OpShape, RouteLive,
     RouteDone, OpDone
<1>s5. poisoned /\ Exposed(n) => n.cut \/ r \in callbacks'
  BY <1>t, <1>g, <1>f1, <1>f2, <1>f3, <1>b DEF RequestFacts, Exposed, RouteLive, RouteDone
<1>s6. LeaseMoves(r, n)
  BY <1>t, <1>g, <1>f1, <1>f2, <1>f3, <1>b DEF RequestFacts, LeaseMoves, LeaseShape, Request
<1> QED
  BY <1>g, <1>b, <1>p, <1>m, <1>s1, <1>s2, <1>s3, <1>s4, <1>s5, <1>s6, RequestStep

(* A deadline passes. *)
LEMMA TickKeeps ==
    ASSUME IngressInv, NEW r \in Requests, Tick(r)
    PROVE  IngressInv' /\ [LatchNext]_latchVars
<1> DEFINE q == req[r]
<1>t. RequestFacts(r, q)
  BY RequestKnown
<1> DEFINE n == [q EXCEPT !.clock = (q.clock + 1)]
<1>g. Serving /\ q.clock < 3
  BY DEF Tick
<1>b. Become(r, n, FALSE) /\ active' = active /\ callbacks' = callbacks
  BY <1>t, <1>g DEF RequestFacts, Tick
<1>p. FALSE \in BOOLEAN
  OBVIOUS
<1>m. n \in Request
  BY <1>t, <1>g DEF RequestFacts, Request, Clocks
<1>f1. n.mid = q.mid /\ n.reply = q.reply /\ n.route = q.route /\ n.text = q.text
  BY <1>t DEF RequestFacts, Request
<1>f2. n.op = q.op /\ n.stop = q.stop /\ n.cut = q.cut /\ n.lease = q.lease
  BY <1>t DEF RequestFacts, Request
<1>f3. n.opSup = q.opSup /\ n.routeSup = q.routeSup
  BY <1>t DEF RequestFacts, Request
<1> HIDE DEF n
<1>s1. LeaseShape(n)
  BY <1>t, <1>g, <1>f1, <1>f2, <1>f3 DEF RequestFacts, LeaseShape, RouteLive, RouteDone
<1>s2. OpShape(n)
  BY <1>t, <1>g, <1>f1, <1>f2, <1>f3 DEF RequestFacts, OpShape, RouteLive, RouteDone, OpDone
<1>s3. ReplyShape(n)
  BY <1>t, <1>g, <1>f1, <1>f2, <1>f3 DEF RequestFacts, ReplyShape, OpShape, RouteLive,
     RouteDone, OpDone
<1>s4. LateResult(n) => poisoned = TRUE
  BY <1>t, <1>g, <1>f1, <1>f2, <1>f3 DEF RequestFacts, LateResult, OpShape, RouteLive,
     RouteDone, OpDone
<1>s5. poisoned /\ Exposed(n) => n.cut \/ r \in callbacks'
  BY <1>t, <1>g, <1>f1, <1>f2, <1>f3, <1>b DEF RequestFacts, Exposed, RouteLive, RouteDone
<1>s6. LeaseMoves(r, n)
  BY <1>t, <1>g, <1>f1, <1>f2, <1>f3, <1>b DEF RequestFacts, LeaseMoves, LeaseShape, Request
<1> QED
  BY <1>g, <1>b, <1>p, <1>m, <1>s1, <1>s2, <1>s3, <1>s4, <1>s5, <1>s6, RequestStep

(* A scheduled cancellation runs. *)
LEMMA CallbackKeeps ==
    ASSUME IngressInv, NEW r \in Requests, CallbackRuns(r)
    PROVE  IngressInv' /\ [LatchNext]_latchVars
<1> DEFINE q == req[r]
<1>t. RequestFacts(r, q)
  BY RequestKnown
<1> DEFINE n == [q EXCEPT !.cut = (q.cut \/ RouteLive(q))]
<1>g. Serving /\ r \in callbacks
  BY DEF CallbackRuns
<1>b. Become(r, n, FALSE) /\ active' = active /\ callbacks' = callbacks \ {r}
  BY <1>t, <1>g DEF RequestFacts, CallbackRuns
<1>p. FALSE \in BOOLEAN
  OBVIOUS
<1>m. n \in Request
  BY <1>t, <1>g DEF RequestFacts, Request, RouteLive
<1>f1. n.mid = q.mid /\ n.reply = q.reply /\ n.route = q.route /\ n.text = q.text
  BY <1>t DEF RequestFacts, Request
<1>f2. n.op = q.op /\ n.stop = q.stop /\ n.cut = (q.cut \/ RouteLive(q)) /\ n.lease = q.lease
  BY <1>t DEF RequestFacts, Request
<1>f3. n.opSup = q.opSup /\ n.routeSup = q.routeSup
  BY <1>t DEF RequestFacts, Request
<1> HIDE DEF n
<1>s1. LeaseShape(n)
  BY <1>t, <1>g, <1>f1, <1>f2, <1>f3 DEF RequestFacts, LeaseShape, RouteLive, RouteDone
<1>s2. OpShape(n)
  BY <1>t, <1>g, <1>f1, <1>f2, <1>f3 DEF RequestFacts, OpShape, RouteLive, RouteDone, OpDone
<1>s3. ReplyShape(n)
  BY <1>t, <1>g, <1>f1, <1>f2, <1>f3 DEF RequestFacts, ReplyShape, OpShape, RouteLive,
     RouteDone, OpDone
<1>s4. LateResult(n) => poisoned = TRUE
  BY <1>t, <1>g, <1>f1, <1>f2, <1>f3 DEF RequestFacts, LateResult, OpShape, RouteLive,
     RouteDone, OpDone
<1>s5. poisoned /\ Exposed(n) => n.cut \/ r \in callbacks'
  BY <1>t, <1>g, <1>f1, <1>f2, <1>f3, <1>b DEF RequestFacts, Exposed, RouteLive, RouteDone
<1>s6. LeaseMoves(r, n)
  BY <1>t, <1>g, <1>f1, <1>f2, <1>f3, <1>b DEF RequestFacts, LeaseMoves, LeaseShape, Request
<1> QED
  BY <1>g, <1>b, <1>p, <1>m, <1>s1, <1>s2, <1>s3, <1>s4, <1>s5, <1>s6, RequestStep

(* A supervised route ends and gives the lease back. *)
LEMMA ObservedKeeps ==
    ASSUME IngressInv, NEW r \in Requests, RouteObserved(r)
    PROVE  IngressInv' /\ [LatchNext]_latchVars
<1> DEFINE q == req[r]
<1>t. RequestFacts(r, q)
  BY RequestKnown
<1> DEFINE n == [q EXCEPT !.routeSup = FALSE, !.lease = FALSE]
<1>g. Serving /\ q.routeSup /\ RouteDone(q) /\ q.mid = "done"
  BY DEF RouteObserved
<1>b. Become(r, n, q.route # "cancelled") /\ active' = active - 1 /\ callbacks' = callbacks
  BY <1>t, <1>g DEF RequestFacts, RouteObserved
<1>p. (q.route # "cancelled") \in BOOLEAN
  BY <1>t DEF RequestFacts, Request
<1>m. n \in Request
  BY <1>t, <1>g DEF RequestFacts, Request
<1>f1. n.mid = q.mid /\ n.reply = q.reply /\ n.route = q.route /\ n.text = q.text
  BY <1>t DEF RequestFacts, Request
<1>f2. n.op = q.op /\ n.stop = q.stop /\ n.cut = q.cut /\ n.lease = FALSE
  BY <1>t DEF RequestFacts, Request
<1>f3. n.opSup = q.opSup /\ n.routeSup = FALSE
  BY <1>t DEF RequestFacts, Request
<1> HIDE DEF n
<1>s1. LeaseShape(n)
  BY <1>t, <1>g, <1>f1, <1>f2, <1>f3 DEF RequestFacts, LeaseShape, RouteLive, RouteDone
<1>s2. OpShape(n)
  BY <1>t, <1>g, <1>f1, <1>f2, <1>f3 DEF RequestFacts, OpShape, RouteLive, RouteDone, OpDone
<1>s3. ReplyShape(n)
  BY <1>t, <1>g, <1>f1, <1>f2, <1>f3 DEF RequestFacts, ReplyShape, OpShape, RouteLive,
     RouteDone, OpDone
<1>s4. LateResult(n) => poisoned = TRUE \/ (q.route # "cancelled")
  BY <1>t, <1>g, <1>f1, <1>f2, <1>f3 DEF RequestFacts, LateResult, OpShape, RouteLive,
     RouteDone, OpDone
<1>s5. poisoned /\ Exposed(n) => n.cut \/ r \in callbacks'
  BY <1>t, <1>g, <1>f1, <1>f2, <1>f3, <1>b DEF RequestFacts, Exposed, RouteLive, RouteDone
<1>s6. LeaseMoves(r, n)
  BY <1>t, <1>g, <1>f1, <1>f2, <1>f3, <1>b DEF RequestFacts, LeaseMoves, LeaseShape, Request
<1> QED
  BY <1>g, <1>b, <1>p, <1>m, <1>s1, <1>s2, <1>s3, <1>s4, <1>s5, <1>s6, RequestStep

(* A supervised send ends. *)
LEMMA SentKeeps ==
    ASSUME IngressInv, NEW r \in Requests, NEW b \in BOOLEAN, SendObserved(r, b)
    PROVE  IngressInv' /\ [LatchNext]_latchVars
<1> DEFINE q == req[r]
<1>t. RequestFacts(r, q)
  BY RequestKnown
<1> DEFINE n == [q EXCEPT !.sendSup = FALSE, !.reply = "none"]
<1>g. Serving /\ q.sendSup
  BY DEF SendObserved
<1>b. Become(r, n, ~b /\ q.reply = "error") /\ active' = active /\ callbacks' = callbacks
  BY <1>t, <1>g DEF RequestFacts, SendObserved
<1>p. (~b /\ q.reply = "error") \in BOOLEAN
  BY <1>t DEF RequestFacts, Request
<1>m. n \in Request
  BY <1>t, <1>g DEF RequestFacts, Request
<1>f1. n.mid = q.mid /\ n.reply = "none" /\ n.route = q.route /\ n.text = q.text
  BY <1>t DEF RequestFacts, Request
<1>f2. n.op = q.op /\ n.stop = q.stop /\ n.cut = q.cut /\ n.lease = q.lease
  BY <1>t DEF RequestFacts, Request
<1>f3. n.opSup = q.opSup /\ n.routeSup = q.routeSup
  BY <1>t DEF RequestFacts, Request
<1> HIDE DEF n
<1>s1. LeaseShape(n)
  BY <1>t, <1>g, <1>f1, <1>f2, <1>f3 DEF RequestFacts, LeaseShape, RouteLive, RouteDone
<1>s2. OpShape(n)
  BY <1>t, <1>g, <1>f1, <1>f2, <1>f3 DEF RequestFacts, OpShape, RouteLive, RouteDone, OpDone
<1>s3. ReplyShape(n)
  BY <1>t, <1>g, <1>f1, <1>f2, <1>f3 DEF RequestFacts, ReplyShape, OpShape, RouteLive,
     RouteDone, OpDone
<1>s4. LateResult(n) => poisoned = TRUE \/ (~b /\ q.reply = "error")
  BY <1>t, <1>g, <1>f1, <1>f2, <1>f3 DEF RequestFacts, LateResult, OpShape, RouteLive,
     RouteDone, OpDone
<1>s5. poisoned /\ Exposed(n) => n.cut \/ r \in callbacks'
  BY <1>t, <1>g, <1>f1, <1>f2, <1>f3, <1>b DEF RequestFacts, Exposed, RouteLive, RouteDone
<1>s6. LeaseMoves(r, n)
  BY <1>t, <1>g, <1>f1, <1>f2, <1>f3, <1>b DEF RequestFacts, LeaseMoves, LeaseShape, Request
<1> QED
  BY <1>g, <1>b, <1>p, <1>m, <1>s1, <1>s2, <1>s3, <1>s4, <1>s5, <1>s6, RequestStep

(* The budget cancels the operation. *)
LEMMA StopsKeeps ==
    ASSUME IngressInv, NEW r \in Requests, NEW probe \in BOOLEAN, RouteStops(r, probe)
    PROVE  IngressInv' /\ [LatchNext]_latchVars
<1> DEFINE q == req[r]
<1>t. RequestFacts(r, q)
  BY RequestKnown
<1> DEFINE n == [q EXCEPT !.route = "ending", !.stop = TRUE]
<1>g. Serving /\ q.route = "op"
  BY DEF RouteStops
<1>b. Become(r, n, FALSE) /\ active' = active /\ callbacks' = callbacks
  BY <1>t, <1>g DEF RequestFacts, RouteStops, ProbeStep
<1>p. FALSE \in BOOLEAN
  OBVIOUS
<1>m. n \in Request
  BY <1>t, <1>g DEF RequestFacts, Request
<1>f1. n.mid = q.mid /\ n.reply = q.reply /\ n.route = "ending" /\ n.text = q.text
  BY <1>t DEF RequestFacts, Request
<1>f2. n.op = q.op /\ n.stop = TRUE /\ n.cut = q.cut /\ n.lease = q.lease
  BY <1>t DEF RequestFacts, Request
<1>f3. n.opSup = q.opSup /\ n.routeSup = q.routeSup
  BY <1>t DEF RequestFacts, Request
<1> HIDE DEF n
<1>s1. LeaseShape(n)
  BY <1>t, <1>g, <1>f1, <1>f2, <1>f3 DEF RequestFacts, LeaseShape, RouteLive, RouteDone
<1>s2. OpShape(n)
  BY <1>t, <1>g, <1>f1, <1>f2, <1>f3 DEF RequestFacts, OpShape, RouteLive, RouteDone, OpDone
<1>s3. ReplyShape(n)
  BY <1>t, <1>g, <1>f1, <1>f2, <1>f3 DEF RequestFacts, ReplyShape, OpShape, RouteLive,
     RouteDone, OpDone
<1>s4. LateResult(n) => poisoned = TRUE
  BY <1>t, <1>g, <1>f1, <1>f2, <1>f3 DEF RequestFacts, LateResult, OpShape, RouteLive,
     RouteDone, OpDone
<1>s5. poisoned /\ Exposed(n) => n.cut \/ r \in callbacks'
  BY <1>t, <1>g, <1>f1, <1>f2, <1>f3, <1>b DEF RequestFacts, Exposed, RouteLive, RouteDone
<1>s6. LeaseMoves(r, n)
  BY <1>t, <1>g, <1>f1, <1>f2, <1>f3, <1>b DEF RequestFacts, LeaseMoves, LeaseShape, Request
<1> QED
  BY <1>g, <1>b, <1>p, <1>m, <1>s1, <1>s2, <1>s3, <1>s4, <1>s5, <1>s6, RequestStep

(* The operation ends. *)
LEMMA OpKeeps ==
    ASSUME IngressInv, NEW r \in Requests, NEW e \in {"done", "failed", "cancelled"}, OpEnds(r, e)
    PROVE  IngressInv' /\ [LatchNext]_latchVars
<1> DEFINE q == req[r]
<1>t. RequestFacts(r, q)
  BY RequestKnown
<1> DEFINE n == [q EXCEPT !.op = e, !.opSup = FALSE]
<1>g. Serving /\ q.op = "running"
  BY DEF OpEnds
<1>b. Become(r, n, q.opSup /\ e # "cancelled") /\ active' = active /\ callbacks' = callbacks
  BY <1>t, <1>g DEF RequestFacts, OpEnds, RouteStep
<1>p. (q.opSup /\ e # "cancelled") \in BOOLEAN
  BY <1>t DEF RequestFacts, Request
<1>m. n \in Request
  BY <1>t, <1>g DEF RequestFacts, Request
<1>f1. n.mid = q.mid /\ n.reply = q.reply /\ n.route = q.route /\ n.text = q.text
  BY <1>t DEF RequestFacts, Request
<1>f2. n.op = e /\ n.stop = q.stop /\ n.cut = q.cut /\ n.lease = q.lease
  BY <1>t DEF RequestFacts, Request
<1>f3. n.opSup = FALSE /\ n.routeSup = q.routeSup
  BY <1>t DEF RequestFacts, Request
<1> HIDE DEF n
<1>s1. LeaseShape(n)
  BY <1>t, <1>g, <1>f1, <1>f2, <1>f3 DEF RequestFacts, LeaseShape, RouteLive, RouteDone
<1>s2. OpShape(n)
  BY <1>t, <1>g, <1>f1, <1>f2, <1>f3 DEF RequestFacts, OpShape, RouteLive, RouteDone, OpDone
<1>s3. ReplyShape(n)
  BY <1>t, <1>g, <1>f1, <1>f2, <1>f3 DEF RequestFacts, ReplyShape, OpShape, RouteLive,
     RouteDone, OpDone
<1>s4. LateResult(n) => poisoned = TRUE \/ (q.opSup /\ e # "cancelled")
  BY <1>t, <1>g, <1>f1, <1>f2, <1>f3 DEF RequestFacts, LateResult, OpShape, RouteLive,
     RouteDone, OpDone
<1>s5. poisoned /\ Exposed(n) => n.cut \/ r \in callbacks'
  BY <1>t, <1>g, <1>f1, <1>f2, <1>f3, <1>b DEF RequestFacts, Exposed, RouteLive, RouteDone
<1>s6. LeaseMoves(r, n)
  BY <1>t, <1>g, <1>f1, <1>f2, <1>f3, <1>b DEF RequestFacts, LeaseMoves, LeaseShape, Request
<1> QED
  BY <1>g, <1>b, <1>p, <1>m, <1>s1, <1>s2, <1>s3, <1>s4, <1>s5, <1>s6, RequestStep

(* A request is refused or admitted. *)
LEMMA ArriveKeeps ==
    ASSUME IngressInv, NEW r \in Requests, Arrive(r)
    PROVE  IngressInv' /\ [LatchNext]_latchVars
<1> DEFINE q == req[r]
<1>t. RequestFacts(r, q)
  BY RequestKnown
<1>1. CASE AdmissionError \/ active >= MaxActive
  <2> DEFINE n == [q EXCEPT !.mid = "sending", !.reply = "error"]
  <2>g. Serving /\ q.mid = "idle"
    BY <1>1 DEF Arrive
  <2>b. Become(r, n, FALSE) /\ active' = active /\ callbacks' = callbacks
    BY <1>1, <1>t, <2>g DEF RequestFacts, Arrive
  <2>p. FALSE \in BOOLEAN
    OBVIOUS
  <2>m. n \in Request
    BY <1>1, <1>t, <2>g DEF RequestFacts, Request
  <2>f1. n.mid = "sending" /\ n.reply = "error" /\ n.route = q.route /\ n.text = q.text
    BY <1>t DEF RequestFacts, Request
  <2>f2. n.op = q.op /\ n.stop = q.stop /\ n.cut = q.cut /\ n.lease = q.lease
    BY <1>t DEF RequestFacts, Request
  <2>f3. n.opSup = q.opSup /\ n.routeSup = q.routeSup
    BY <1>t DEF RequestFacts, Request
  <2> HIDE DEF n
  <2>s1. LeaseShape(n)
    BY <1>t, <2>g, <2>f1, <2>f2, <2>f3, <1>1 DEF RequestFacts, LeaseShape, RouteLive, RouteDone
  <2>s2. OpShape(n)
    BY <1>t, <2>g, <2>f1, <2>f2, <2>f3, <1>1 DEF RequestFacts, OpShape, RouteLive, RouteDone,
       OpDone
  <2>s3. ReplyShape(n)
    BY <1>t, <2>g, <2>f1, <2>f2, <2>f3, <1>1 DEF RequestFacts, ReplyShape, OpShape, RouteLive,
       RouteDone, OpDone
  <2>s4. LateResult(n) => poisoned = TRUE
    BY <1>t, <2>g, <2>f1, <2>f2, <2>f3, <1>1 DEF RequestFacts, LateResult, OpShape, RouteLive,
       RouteDone, OpDone
  <2>s5. poisoned /\ Exposed(n) => n.cut \/ r \in callbacks'
    BY <1>t, <2>g, <2>f1, <2>f2, <2>f3, <1>1, <2>b DEF RequestFacts, Exposed, RouteLive,
       RouteDone
  <2>s6. LeaseMoves(r, n)
    BY <1>t, <2>g, <2>f1, <2>f2, <2>f3, <1>1, <2>b DEF RequestFacts, LeaseMoves, LeaseShape,
       Request
  <2> QED
    BY <2>g, <2>b, <2>p, <2>m, <2>s1, <2>s2, <2>s3, <2>s4, <2>s5, <2>s6, RequestStep
<1>2. CASE ~(AdmissionError \/ active >= MaxActive)
  <2> DEFINE n == [q EXCEPT !.mid = "admitted", !.lease = TRUE]
  <2>g. Serving /\ q.mid = "idle" /\ ~(active >= MaxActive)
    BY <1>2 DEF Arrive
  <2>b. Become(r, n, FALSE) /\ active' = active + 1 /\ callbacks' = callbacks
    BY <1>2, <1>t, <2>g DEF RequestFacts, Arrive
  <2>p. FALSE \in BOOLEAN
    OBVIOUS
  <2>m. n \in Request
    BY <1>2, <1>t, <2>g DEF RequestFacts, Request
  <2>f1. n.mid = "admitted" /\ n.reply = q.reply /\ n.route = q.route /\ n.text = q.text
    BY <1>t DEF RequestFacts, Request
  <2>f2. n.op = q.op /\ n.stop = q.stop /\ n.cut = q.cut /\ n.lease = TRUE
    BY <1>t DEF RequestFacts, Request
  <2>f3. n.opSup = q.opSup /\ n.routeSup = q.routeSup
    BY <1>t DEF RequestFacts, Request
  <2> HIDE DEF n
  <2>s1. LeaseShape(n)
    BY <1>t, <2>g, <2>f1, <2>f2, <2>f3, <1>2 DEF RequestFacts, LeaseShape, RouteLive, RouteDone
  <2>s2. OpShape(n)
    BY <1>t, <2>g, <2>f1, <2>f2, <2>f3, <1>2 DEF RequestFacts, OpShape, RouteLive, RouteDone,
       OpDone
  <2>s3. ReplyShape(n)
    BY <1>t, <2>g, <2>f1, <2>f2, <2>f3, <1>2 DEF RequestFacts, ReplyShape, OpShape, RouteLive,
       RouteDone, OpDone
  <2>s4. LateResult(n) => poisoned = TRUE
    BY <1>t, <2>g, <2>f1, <2>f2, <2>f3, <1>2 DEF RequestFacts, LateResult, OpShape, RouteLive,
       RouteDone, OpDone
  <2>s5. poisoned /\ Exposed(n) => n.cut \/ r \in callbacks'
    BY <1>t, <2>g, <2>f1, <2>f2, <2>f3, <1>2, <2>b DEF RequestFacts, Exposed, RouteLive,
       RouteDone
  <2>s6. LeaseMoves(r, n)
    BY <1>t, <2>g, <2>f1, <2>f2, <2>f3, <1>2, <2>b DEF RequestFacts, LeaseMoves, LeaseShape,
       Request
  <2> QED
    BY <2>g, <2>b, <2>p, <2>m, <2>s1, <2>s2, <2>s3, <2>s4, <2>s5, <2>s6, RequestStep
<1> QED
  BY <1>1, <1>2

(* The operation starts. *)
LEMMA StartsKeeps ==
    ASSUME IngressInv, NEW r \in Requests, RouteStart(r), ~(chat_safety_poisoned \/ OpBacklog \/ req[r].clock > 0)
    PROVE  IngressInv' /\ [LatchNext]_latchVars
<1> DEFINE q == req[r]
<1>t. RequestFacts(r, q)
  BY RequestKnown
<1> DEFINE n == [q EXCEPT !.route = "op", !.op = "running"]
<1>g. Serving /\ q.route = "budget"
  BY DEF RouteStart
<1>b. Become(r, n, FALSE) /\ active' = active /\ callbacks' = callbacks
  BY <1>t, <1>g DEF RequestFacts, RouteStart, RouteStep
<1>p. FALSE \in BOOLEAN
  OBVIOUS
<1>m. n \in Request
  BY <1>t, <1>g DEF RequestFacts, Request
<1>f1. n.mid = q.mid /\ n.reply = q.reply /\ n.route = "op" /\ n.text = q.text
  BY <1>t DEF RequestFacts, Request
<1>f2. n.op = "running" /\ n.stop = q.stop /\ n.cut = q.cut /\ n.lease = q.lease
  BY <1>t DEF RequestFacts, Request
<1>f3. n.opSup = q.opSup /\ n.routeSup = q.routeSup
  BY <1>t DEF RequestFacts, Request
<1> HIDE DEF n
<1>s1. LeaseShape(n)
  BY <1>t, <1>g, <1>f1, <1>f2, <1>f3 DEF RequestFacts, LeaseShape, RouteLive, RouteDone
<1>s2. OpShape(n)
  BY <1>t, <1>g, <1>f1, <1>f2, <1>f3 DEF RequestFacts, OpShape, RouteLive, RouteDone, OpDone,
     LeaseShape
<1>s3. ReplyShape(n)
  BY <1>t, <1>g, <1>f1, <1>f2, <1>f3 DEF RequestFacts, ReplyShape, OpShape, RouteLive,
     RouteDone, OpDone, LeaseShape
<1>s4. LateResult(n) => poisoned = TRUE
  BY <1>t, <1>g, <1>f1, <1>f2, <1>f3 DEF RequestFacts, LateResult, OpShape, RouteLive,
     RouteDone, OpDone, LeaseShape
<1>s5. poisoned /\ Exposed(n) => n.cut \/ r \in callbacks'
  BY <1>t, <1>g, <1>f1, <1>f2, <1>f3, <1>b DEF RequestFacts, Exposed, RouteLive, RouteDone,
     LeaseShape
<1>s6. LeaseMoves(r, n)
  BY <1>t, <1>g, <1>f1, <1>f2, <1>f3, <1>b DEF RequestFacts, LeaseMoves, LeaseShape, Request
<1> QED
  BY <1>g, <1>b, <1>p, <1>m, <1>s1, <1>s2, <1>s3, <1>s4, <1>s5, <1>s6, RequestStep

(* A cancelled route cancels its operation and waits for it. *)
LEMMA PulledKeeps ==
    ASSUME IngressInv, NEW r \in Requests, NEW probe \in BOOLEAN, RouteCut(r, probe),
           req[r].route = "ending" \/ (req[r].route = "op" /\ ~OpDone(req[r]))
    PROVE  IngressInv' /\ [LatchNext]_latchVars
<1> DEFINE q == req[r]
<1>t. RequestFacts(r, q)
  BY RequestKnown
<1> DEFINE n == [q EXCEPT !.route = "ending", !.stop = TRUE, !.pull = TRUE]
<1>g. Serving /\ q.cut /\ RouteLive(q)
  BY DEF RouteCut
<1>b. Become(r, n, FALSE) /\ active' = active /\ callbacks' = callbacks
  BY <1>t, <1>g DEF RequestFacts, RouteCut, ProbeStep
<1>p. FALSE \in BOOLEAN
  OBVIOUS
<1>m. n \in Request
  BY <1>t, <1>g DEF RequestFacts, Request
<1>f1. n.mid = q.mid /\ n.reply = q.reply /\ n.route = "ending" /\ n.text = q.text
  BY <1>t DEF RequestFacts, Request
<1>f2. n.op = q.op /\ n.stop = TRUE /\ n.cut = q.cut /\ n.lease = q.lease
  BY <1>t DEF RequestFacts, Request
<1>f3. n.opSup = q.opSup /\ n.routeSup = q.routeSup
  BY <1>t DEF RequestFacts, Request
<1> HIDE DEF n
<1>s1. LeaseShape(n)
  BY <1>t, <1>g, <1>f1, <1>f2, <1>f3 DEF RequestFacts, LeaseShape, RouteLive, RouteDone, Request
<1>s2. OpShape(n)
  BY <1>t, <1>g, <1>f1, <1>f2, <1>f3 DEF RequestFacts, OpShape, RouteLive, RouteDone, OpDone,
     LeaseShape, Request
<1>s3. ReplyShape(n)
  BY <1>t, <1>g, <1>f1, <1>f2, <1>f3 DEF RequestFacts, ReplyShape, OpShape, RouteLive,
     RouteDone, OpDone, LeaseShape, Request
<1>s4. LateResult(n) => poisoned = TRUE
  BY <1>t, <1>g, <1>f1, <1>f2, <1>f3 DEF RequestFacts, LateResult, OpShape, RouteLive,
     RouteDone, OpDone, LeaseShape, Request
<1>s5. poisoned /\ Exposed(n) => n.cut \/ r \in callbacks'
  BY <1>t, <1>g, <1>f1, <1>f2, <1>f3, <1>b DEF RequestFacts, Exposed, RouteLive, RouteDone,
     LeaseShape, Request
<1>s6. LeaseMoves(r, n)
  BY <1>t, <1>g, <1>f1, <1>f2, <1>f3, <1>b DEF RequestFacts, LeaseMoves, LeaseShape, Request
<1> QED
  BY <1>g, <1>b, <1>p, <1>m, <1>s1, <1>s2, <1>s3, <1>s4, <1>s5, <1>s6, RequestStep

(* The route ended within its budget: its transcript is kept or discarded. *)
LEMMA CompletesKeeps ==
    ASSUME IngressInv, NEW r \in Requests, MidCompletes(r)
    PROVE  IngressInv' /\ [LatchNext]_latchVars
<1> DEFINE q == req[r]
<1>t. RequestFacts(r, q)
  BY RequestKnown
<1>1. CASE Become(r, [q EXCEPT !.mid = "sending", !.reply = "error", !.text = "empty", !.closed = TRUE], FALSE)
  <2> DEFINE n == [q EXCEPT !.mid = "sending", !.reply = "error", !.text = "empty",
                            !.closed = TRUE]
  <2>g. Serving /\ q.mid = "waiting" /\ RouteDone(q)
    BY <1>1 DEF MidCompletes
  <2>b. Become(r, n, FALSE) /\ active' = active /\ callbacks' = callbacks
    BY <1>1, <1>t, <2>g DEF RequestFacts, MidCompletes
  <2>p. FALSE \in BOOLEAN
    OBVIOUS
  <2>m. n \in Request
    BY <1>1, <1>t, <2>g DEF RequestFacts, Request
  <2>f1. n.mid = "sending" /\ n.reply = "error" /\ n.route = q.route /\ n.text = "empty"
    BY <1>t DEF RequestFacts, Request
  <2>f2. n.op = q.op /\ n.stop = q.stop /\ n.cut = q.cut /\ n.lease = q.lease
    BY <1>t DEF RequestFacts, Request
  <2>f3. n.opSup = q.opSup /\ n.routeSup = q.routeSup
    BY <1>t DEF RequestFacts, Request
  <2> HIDE DEF n
  <2>s1. LeaseShape(n)
    BY <1>t, <2>g, <2>f1, <2>f2, <2>f3, <1>1 DEF RequestFacts, LeaseShape, RouteLive, RouteDone
  <2>s2. OpShape(n)
    BY <1>t, <2>g, <2>f1, <2>f2, <2>f3, <1>1 DEF RequestFacts, OpShape, RouteLive, RouteDone,
       OpDone
  <2>s3. ReplyShape(n)
    BY <1>t, <2>g, <2>f1, <2>f2, <2>f3, <1>1 DEF RequestFacts, ReplyShape, OpShape, RouteLive,
       RouteDone, OpDone
  <2>s4. LateResult(n) => poisoned = TRUE
    BY <1>t, <2>g, <2>f1, <2>f2, <2>f3, <1>1 DEF RequestFacts, LateResult, OpShape, RouteLive,
       RouteDone, OpDone
  <2>s5. poisoned /\ Exposed(n) => n.cut \/ r \in callbacks'
    BY <1>t, <2>g, <2>f1, <2>f2, <2>f3, <1>1, <2>b DEF RequestFacts, Exposed, RouteLive,
       RouteDone
  <2>s6. LeaseMoves(r, n)
    BY <1>t, <2>g, <2>f1, <2>f2, <2>f3, <1>1, <2>b DEF RequestFacts, LeaseMoves, LeaseShape,
       Request
  <2> QED
    BY <2>g, <2>b, <2>p, <2>m, <2>s1, <2>s2, <2>s3, <2>s4, <2>s5, <2>s6, RequestStep
<1>2. CASE Become(r, [q EXCEPT !.mid = "sending", !.reply = "error", !.text = "empty", !.closed = TRUE], TRUE)
  <2> DEFINE n == [q EXCEPT !.mid = "sending", !.reply = "error", !.text = "empty",
                            !.closed = TRUE]
  <2>g. Serving /\ q.mid = "waiting" /\ RouteDone(q)
    BY <1>2 DEF MidCompletes
  <2>b. Become(r, n, TRUE) /\ active' = active /\ callbacks' = callbacks
    BY <1>2, <1>t, <2>g DEF RequestFacts, MidCompletes
  <2>p. TRUE \in BOOLEAN
    OBVIOUS
  <2>m. n \in Request
    BY <1>2, <1>t, <2>g DEF RequestFacts, Request
  <2>f1. n.mid = "sending" /\ n.reply = "error" /\ n.route = q.route /\ n.text = "empty"
    BY <1>t DEF RequestFacts, Request
  <2>f2. n.op = q.op /\ n.stop = q.stop /\ n.cut = q.cut /\ n.lease = q.lease
    BY <1>t DEF RequestFacts, Request
  <2>f3. n.opSup = q.opSup /\ n.routeSup = q.routeSup
    BY <1>t DEF RequestFacts, Request
  <2> HIDE DEF n
  <2>s1. LeaseShape(n)
    BY <1>t, <2>g, <2>f1, <2>f2, <2>f3, <1>2 DEF RequestFacts, LeaseShape, RouteLive, RouteDone
  <2>s2. OpShape(n)
    BY <1>t, <2>g, <2>f1, <2>f2, <2>f3, <1>2 DEF RequestFacts, OpShape, RouteLive, RouteDone,
       OpDone
  <2>s3. ReplyShape(n)
    BY <1>t, <2>g, <2>f1, <2>f2, <2>f3, <1>2 DEF RequestFacts, ReplyShape, OpShape, RouteLive,
       RouteDone, OpDone
  <2>s4. LateResult(n) => poisoned = TRUE
    BY <1>t, <2>g, <2>f1, <2>f2, <2>f3, <1>2 DEF RequestFacts, LateResult, OpShape, RouteLive,
       RouteDone, OpDone
  <2>s5. poisoned /\ Exposed(n) => n.cut \/ r \in callbacks'
    BY <1>t, <2>g, <2>f1, <2>f2, <2>f3, <1>2, <2>b DEF RequestFacts, Exposed, RouteLive,
       RouteDone
  <2>s6. LeaseMoves(r, n)
    BY <1>t, <2>g, <2>f1, <2>f2, <2>f3, <1>2, <2>b DEF RequestFacts, LeaseMoves, LeaseShape,
       Request
  <2> QED
    BY <2>g, <2>b, <2>p, <2>m, <2>s1, <2>s2, <2>s3, <2>s4, <2>s5, <2>s6, RequestStep
<1>3. CASE ~q.cut /\ Become(r, [q EXCEPT !.mid = "sending", !.text = "empty", !.closed = TRUE,
         !.reply = IF q.text = "answer" THEN "answer" ELSE "relay"], FALSE)
  <2> DEFINE n == [q EXCEPT !.mid = "sending", !.text = "empty", !.closed = TRUE,
                            !.reply = (IF q.text = "answer" THEN "answer" ELSE "relay")]
  <2>g. Serving /\ q.mid = "waiting" /\ RouteDone(q)
    BY <1>3 DEF MidCompletes
  <2>b. Become(r, n, FALSE) /\ active' = active /\ callbacks' = callbacks
    BY <1>3, <1>t, <2>g DEF RequestFacts, MidCompletes
  <2>p. FALSE \in BOOLEAN
    OBVIOUS
  <2>m. n \in Request
    BY <1>3, <1>t, <2>g DEF RequestFacts, Request
  <2>f1. n.mid = "sending" /\ n.reply = (IF q.text = "answer" THEN "answer" ELSE "relay") /\ n.route = q.route /\ n.text = "empty"
    BY <1>t DEF RequestFacts, Request
  <2>f2. n.op = q.op /\ n.stop = q.stop /\ n.cut = q.cut /\ n.lease = q.lease
    BY <1>t DEF RequestFacts, Request
  <2>f3. n.opSup = q.opSup /\ n.routeSup = q.routeSup
    BY <1>t DEF RequestFacts, Request
  <2> HIDE DEF n
  <2>s1. LeaseShape(n)
    BY <1>t, <2>g, <2>f1, <2>f2, <2>f3, <1>3 DEF RequestFacts, LeaseShape, RouteLive, RouteDone
  <2>s2. OpShape(n)
    BY <1>t, <2>g, <2>f1, <2>f2, <2>f3, <1>3 DEF RequestFacts, OpShape, RouteLive, RouteDone,
       OpDone
  <2>s3. ReplyShape(n)
    BY <1>t, <2>g, <2>f1, <2>f2, <2>f3, <1>3 DEF RequestFacts, ReplyShape, OpShape, RouteLive,
       RouteDone, OpDone
  <2>s4. LateResult(n) => poisoned = TRUE
    BY <1>t, <2>g, <2>f1, <2>f2, <2>f3, <1>3 DEF RequestFacts, LateResult, OpShape, RouteLive,
       RouteDone, OpDone
  <2>s5. poisoned /\ Exposed(n) => n.cut \/ r \in callbacks'
    BY <1>t, <2>g, <2>f1, <2>f2, <2>f3, <1>3, <2>b DEF RequestFacts, Exposed, RouteLive,
       RouteDone
  <2>s6. LeaseMoves(r, n)
    BY <1>t, <2>g, <2>f1, <2>f2, <2>f3, <1>3, <2>b DEF RequestFacts, LeaseMoves, LeaseShape,
       Request
  <2> QED
    BY <2>g, <2>b, <2>p, <2>m, <2>s1, <2>s2, <2>s3, <2>s4, <2>s5, <2>s6, RequestStep
<1> QED
  BY <1>1, <1>2, <1>3 DEF MidCompletes

(* A route ends, with or without a reply. *)
LEMMA EndKeeps ==
    ASSUME IngressInv, Serving, NEW r \in Requests, NEW n \in Request, NEW p \in BOOLEAN,
           Become(r, n, p), UNCHANGED <<active, callbacks>>, RouteLive(req[r]), RouteDone(n),
           n.mid = req[r].mid, n.lease = req[r].lease, n.routeSup = req[r].routeSup,
           n.reply = req[r].reply,
           n.op = "running" => n.opSup, n.opSup => n.op = "running",
           n.text = "answer" => n.op = "done" /\ ~n.stop,
           LateResult(n) => poisoned = TRUE \/ p
    PROVE  IngressInv' /\ [LatchNext]_latchVars
<1> DEFINE q == req[r]
<1>t. RequestFacts(r, q)
  BY RequestKnown
<1>l. /\ ~RouteLive(n) /\ ~RouteDone(q) /\ q.route # "none"
      /\ n.route \notin {"none", "budget", "op", "ending"}
  BY DEF RouteLive, RouteDone
<1>s1. LeaseShape(n)
  BY <1>t, <1>l DEF RequestFacts, LeaseShape
<1>s2. OpShape(n)
  BY <1>l DEF OpShape
<1>s3. ReplyShape(n)
  BY <1>t, <1>l DEF RequestFacts, ReplyShape
<1>s5. ~Exposed(n)
  BY <1>l DEF Exposed
<1>b. Become(r, n, p) /\ callbacks' = callbacks /\ LeaseMoves(r, n)
  BY <1>t DEF LeaseMoves, RequestFacts
<1> QED
  BY <1>s1, <1>s2, <1>s3, <1>s5, <1>b, RequestStep

(* What a captured reply does to the request. *)
LEMMA EndedFields ==
    ASSUME NEW q \in Request, NEW e \in {"ok", "failed"}, NEW x \in {"empty", "answer", "error"}
    PROVE  /\ Ended(q, e, x) \in Request /\ RouteDone(Ended(q, e, x))
           /\ Ended(q, e, x).mid = q.mid /\ Ended(q, e, x).lease = q.lease
           /\ Ended(q, e, x).routeSup = q.routeSup /\ Ended(q, e, x).reply = q.reply
           /\ Ended(q, e, x).op = q.op /\ Ended(q, e, x).opSup = q.opSup
           /\ Ended(q, e, x).stop = q.stop
           /\ Ended(q, e, x).text = q.text \/ Ended(q, e, x).text = x
<1>1. CASE q.closed
  <2> DEFINE n == [q EXCEPT !.route = "failed"]
  <2>1. Ended(q, e, x) = n
    BY <1>1 DEF Ended
  <2>2. n \in Request /\ n.route = "failed"
    BY DEF Request
  <2>3. n.mid = q.mid /\ n.lease = q.lease /\ n.routeSup = q.routeSup /\ n.reply = q.reply
    BY DEF Request
  <2>4. n.op = q.op /\ n.opSup = q.opSup /\ n.stop = q.stop /\ n.text = q.text
    BY DEF Request
  <2> HIDE DEF n
  <2> QED
    BY <2>1, <2>2, <2>3, <2>4 DEF RouteDone
<1>2. CASE ~q.closed
  <2> DEFINE n == [q EXCEPT !.route = e, !.text = x]
  <2>1. Ended(q, e, x) = n
    BY <1>2 DEF Ended
  <2>2. n \in Request
    BY DEF Request
  <2>3. n.route = e /\ n.text = x
    BY DEF Request
  <2>4. n.mid = q.mid /\ n.lease = q.lease /\ n.routeSup = q.routeSup /\ n.reply = q.reply
    BY DEF Request
  <2>5. n.op = q.op /\ n.opSup = q.opSup /\ n.stop = q.stop
    BY DEF Request
  <2> HIDE DEF n
  <2> QED
    BY <2>1, <2>2, <2>3, <2>4, <2>5 DEF RouteDone
<1> QED
  BY <1>1, <1>2

(* A route without an operation ends, or one whose operation ended unharmed. *)
LEMMA PlainEndKeeps ==
    ASSUME IngressInv, Serving, NEW r \in Requests, NEW e \in {"ok", "failed"},
           NEW x \in {"empty", "answer", "error"}, Become(r, Ended(req[r], e, x), FALSE),
           UNCHANGED <<active, callbacks>>,
           req[r].route = "budget" \/ (req[r].route = "op" /\ OpDone(req[r])),
           x = "answer" => req[r].op = "done"
    PROVE  IngressInv' /\ [LatchNext]_latchVars
<1> DEFINE q == req[r]
           n == Ended(q, e, x)
<1>t. RequestFacts(r, q)
  BY RequestKnown
<1>1. /\ n \in Request /\ RouteDone(n) /\ n.mid = q.mid /\ n.lease = q.lease
      /\ n.routeSup = q.routeSup /\ n.reply = q.reply /\ n.op = q.op /\ n.opSup = q.opSup
      /\ n.stop = q.stop /\ (n.text = q.text \/ n.text = x)
  BY <1>t, EndedFields DEF RequestFacts
<1>r. Become(r, n, FALSE)
  OBVIOUS
<1> HIDE DEF n
<1>2. RouteLive(q) /\ ~RouteDone(q) /\ ~q.stop /\ ~q.opSup /\ q.op # "running"
  BY <1>t DEF RequestFacts, OpShape, RouteLive, RouteDone, OpDone
<1>3. n.text = "answer" => n.op = "done" /\ ~n.stop
  BY <1>t, <1>1, <1>2 DEF RequestFacts, ReplyShape
<1>4. ~LateResult(n)
  BY <1>1, <1>2 DEF LateResult
<1> QED
  BY <1>1, <1>2, <1>3, <1>4, <1>r, EndKeeps

(* The budget refuses, or the operation starts. *)
LEMMA StartKeeps ==
    ASSUME IngressInv, NEW r \in Requests, RouteStart(r)
    PROVE  IngressInv' /\ [LatchNext]_latchVars
<1>1. CASE chat_safety_poisoned \/ OpBacklog \/ req[r].clock > 0
  BY <1>1, PlainEndKeeps DEF RouteStart, RouteStep
<1>2. CASE ~(chat_safety_poisoned \/ OpBacklog \/ req[r].clock > 0)
  BY <1>2, StartsKeeps
<1> QED
  BY <1>1, <1>2

(* The route refuses or raises before its operation. *)
LEMMA RefusesKeeps ==
    ASSUME IngressInv, NEW r \in Requests, NEW e \in {"ok", "failed"},
           NEW x \in {"empty", "error"}, RouteRefuses(r, e, x)
    PROVE  IngressInv' /\ [LatchNext]_latchVars
<1>1. /\ Serving /\ Become(r, Ended(req[r], e, x), FALSE) /\ req[r].route = "budget"
      /\ UNCHANGED <<active, callbacks>>
      /\ x \in {"empty", "answer", "error"} /\ x # "answer"
  BY DEF RouteRefuses, RouteStep
<1> QED
  BY <1>1, PlainEndKeeps

(* The operation's result becomes the route's. *)
LEMMA ReturnsKeeps ==
    ASSUME IngressInv, NEW r \in Requests, NEW probe \in BOOLEAN, RouteReturns(r, probe)
    PROVE  IngressInv' /\ [LatchNext]_latchVars
<1> DEFINE x == IF req[r].op = "done" THEN "answer" ELSE "error"
<1>1. /\ Serving /\ Become(r, Ended(req[r], "ok", x), FALSE)
      /\ UNCHANGED <<active, callbacks>>
      /\ req[r].route = "op" /\ OpDone(req[r])
  BY DEF RouteReturns, ProbeStep
<1>2. x \in {"empty", "answer", "error"} /\ (x = "answer" => req[r].op = "done")
  OBVIOUS
<1> HIDE DEF x
<1> QED
  BY <1>1, <1>2, PlainEndKeeps

(* A cancelled route unwinds, at once or after its operation. *)
LEMMA CutKeeps ==
    ASSUME IngressInv, NEW r \in Requests, NEW probe \in BOOLEAN, RouteCut(r, probe)
    PROVE  IngressInv' /\ [LatchNext]_latchVars
<1> DEFINE q == req[r]
<1>t. RequestFacts(r, q)
  BY RequestKnown
<1>1. CASE q.route = "ending" \/ (q.route = "op" /\ ~OpDone(q))
  BY <1>1, PulledKeeps
<1>2. CASE ~(q.route = "ending" \/ (q.route = "op" /\ ~OpDone(q)))
  <2>1. PICK e \in {"cancelled", "failed"} : ProbeStep(r, [q EXCEPT !.route = e], probe)
    BY <1>2 DEF RouteCut
  <2> DEFINE n == [q EXCEPT !.route = e]
  <2>2. n \in Request
    BY <1>t DEF RequestFacts, Request
  <2>3. n.route = e /\ n.mid = q.mid /\ n.lease = q.lease /\ n.routeSup = q.routeSup
    BY <1>t DEF RequestFacts, Request
  <2>4. n.reply = q.reply /\ n.op = q.op /\ n.opSup = q.opSup /\ n.stop = q.stop
    BY <1>t DEF RequestFacts, Request
  <2>5. n.text = q.text
    BY <1>t DEF RequestFacts, Request
  <2>6. Become(r, n, FALSE) /\ UNCHANGED <<active, callbacks>> /\ Serving /\ RouteLive(q)
    BY <2>1 DEF RouteCut, ProbeStep
  <2> HIDE DEF n
  <2>7. q.route = "budget" \/ (q.route = "op" /\ OpDone(q))
    BY <1>2, <2>6 DEF RouteLive
  <2>8. ~RouteDone(q) /\ ~q.stop /\ ~q.opSup /\ q.op # "running"
    BY <1>t, <2>7 DEF RequestFacts, OpShape, RouteDone, OpDone
  <2>9. n.text # "answer" /\ ~LateResult(n) /\ RouteDone(n)
    BY <1>t, <2>3, <2>4, <2>5, <2>8 DEF RequestFacts, ReplyShape, LateResult, RouteDone
  <2> QED
    BY <2>2, <2>3, <2>4, <2>6, <2>8, <2>9, EndKeeps
<1> QED
  BY <1>1, <1>2

(* The budget's cleanup is over: the operation ended, or is supervised. *)
LEMMA EndsKeeps ==
    ASSUME IngressInv, NEW r \in Requests, RouteEnds(r)
    PROVE  IngressInv' /\ [LatchNext]_latchVars
<1> DEFINE q == req[r]
           m == [q EXCEPT !.opSup = ~OpDone(q)]
           p == q.op \in {"done", "failed"}
<1>t. RequestFacts(r, q)
  BY RequestKnown
<1>1. Serving /\ q.route = "ending"
  BY DEF RouteEnds
<1>2. m \in Request
  BY <1>t DEF RequestFacts, Request, OpDone
<1>3. m.opSup = ~OpDone(q) /\ m.mid = q.mid /\ m.lease = q.lease /\ m.routeSup = q.routeSup
  BY <1>t DEF RequestFacts, Request
<1>4. m.reply = q.reply /\ m.op = q.op /\ m.stop = q.stop /\ m.text = q.text
  BY <1>t DEF RequestFacts, Request
<1>5. /\ q.op \in {"none", "running", "done", "failed", "cancelled"} /\ q.op # "none"
      /\ RouteLive(q) /\ q.text # "answer"
  BY <1>t, <1>1 DEF RequestFacts, Request, OpShape, ReplyShape, RouteLive, RouteDone
<1>6. ASSUME NEW n \in Request, RouteStep(r, n, p), RouteDone(n), n.mid = m.mid,
             n.lease = m.lease, n.routeSup = m.routeSup, n.reply = m.reply, n.op = m.op,
             n.opSup = m.opSup, n.text # "answer"
      PROVE  IngressInv' /\ [LatchNext]_latchVars
  <2> HIDE DEF m
  <2>1. n.op = "running" => n.opSup
    BY <1>3, <1>4, <1>6 DEF OpDone
  <2>2. n.opSup => n.op = "running"
    BY <1>3, <1>4, <1>5, <1>6 DEF OpDone
  <2>3. LateResult(n) => p
    BY <1>4, <1>6 DEF LateResult
  <2>4. p \in BOOLEAN
    OBVIOUS
  <2> HIDE DEF p
  <2> QED
    BY <1>1, <1>3, <1>4, <1>5, <1>6, <2>1, <2>2, <2>3, <2>4, EndKeeps DEF RouteStep
<1>7. CASE q.pull
  <2> DEFINE n == [m EXCEPT !.route = "cancelled", !.pull = FALSE]
  <2>1. RouteStep(r, n, p)
    BY <1>7 DEF RouteEnds
  <2> HIDE DEF m
  <2>2. n \in Request
    BY <1>2 DEF Request
  <2>3. n.route = "cancelled" /\ n.mid = m.mid /\ n.lease = m.lease /\ n.routeSup = m.routeSup
    BY <1>2 DEF Request
  <2>4. n.reply = m.reply /\ n.op = m.op /\ n.opSup = m.opSup /\ n.text = m.text
    BY <1>2 DEF Request
  <2> HIDE DEF n
  <2> QED
    BY <1>4, <1>5, <1>6, <2>1, <2>2, <2>3, <2>4 DEF RouteDone
<1>8. CASE ~q.pull
  <2> DEFINE n == Ended(m, "ok", "error")
  <2>1. RouteStep(r, n, p)
    BY <1>8 DEF RouteEnds
  <2> HIDE DEF m
  <2>2. /\ n \in Request /\ RouteDone(n) /\ n.mid = m.mid /\ n.lease = m.lease
        /\ n.routeSup = m.routeSup /\ n.reply = m.reply /\ n.op = m.op /\ n.opSup = m.opSup
        /\ (n.text = m.text \/ n.text = "error")
    BY <1>2, EndedFields
  <2> HIDE DEF n
  <2> QED
    BY <1>4, <1>5, <1>6, <2>1, <2>2
<1> QED
  BY <1>7, <1>8

(* The cleanup budget ends: the route is done, or supervised with its lease. *)
LEMMA CleansKeeps ==
    ASSUME IngressInv, NEW r \in Requests, MidCleans(r)
    PROVE  IngressInv' /\ [LatchNext]_latchVars
<1> DEFINE q == req[r]
           m == [q EXCEPT !.routeSup = ~RouteDone(q)]
           p == ~RouteDone(q) \/ (RouteDone(q) /\ q.route # "cancelled" /\ q.cut)
<1>t. RequestFacts(r, q)
  BY RequestKnown
<1>1. Serving /\ q.mid = "cleaning"
  BY DEF MidCleans
<1>2. m \in Request
  BY <1>t DEF RequestFacts, Request, RouteDone
<1>3. m.routeSup = ~RouteDone(q) /\ m.mid = q.mid /\ m.lease = q.lease /\ m.route = q.route
  BY <1>t DEF RequestFacts, Request
<1>4. m.reply = q.reply /\ m.text = q.text /\ m.op = q.op /\ m.stop = q.stop
  BY <1>t DEF RequestFacts, Request
<1>5. m.cut = q.cut /\ m.opSup = q.opSup
  BY <1>t DEF RequestFacts, Request
<1>6. CASE q.outer \/ q.clock = 3
  <2> DEFINE k == ~RouteDone(q) \/ (RouteDone(q) /\ q.route # "cancelled" /\ q.cut)
                     \/ (~q.outer /\ q.clock = 3)
  <2>1. Finish(r, m, k)
    BY <1>6 DEF MidCleans
  <2>2. k \in BOOLEAN
    OBVIOUS
  <2> HIDE DEF m, k
  <2>3. OpShape(m) /\ ReplyShape(m)
    BY <1>t, <1>3, <1>4, <1>5 DEF RequestFacts, OpShape, ReplyShape, RouteDone
  <2>4. LateResult(m) => poisoned = TRUE
    BY <1>t, <1>3, <1>4, <1>5 DEF RequestFacts, LateResult, RouteDone
  <2>5. (RouteLive(m) => m.routeSup) /\ (m.routeSup => m.lease)
    BY <1>t, <1>1, <1>3 DEF RequestFacts, LeaseShape, RouteLive, RouteDone
  <2> QED
    BY <1>1, <1>2, <1>3, <2>1, <2>2, <2>3, <2>4, <2>5, FinishStep
<1>7. CASE ~(q.outer \/ q.clock = 3)
  <2> DEFINE n == [m EXCEPT !.mid = "sending", !.reply = "error"]
  <2>1. Become(r, n, p) /\ active' = active /\ callbacks' = callbacks
    BY <1>7 DEF MidCleans
  <2>2. p \in BOOLEAN
    OBVIOUS
  <2> HIDE DEF m, p
  <2>3. n \in Request
    BY <1>2 DEF Request
  <2>4. n.mid = "sending" /\ n.reply = "error" /\ n.lease = m.lease /\ n.route = m.route
    BY <1>2 DEF Request
  <2>5. n.routeSup = m.routeSup /\ n.text = m.text /\ n.op = m.op /\ n.stop = m.stop
    BY <1>2 DEF Request
  <2>6. n.cut = m.cut /\ n.opSup = m.opSup
    BY <1>2 DEF Request
  <2> HIDE DEF n
  <2>7. LeaseShape(n)
    BY <1>t, <1>1, <1>3, <2>4, <2>5 DEF RequestFacts, LeaseShape, RouteLive, RouteDone
  <2>8. OpShape(n) /\ ReplyShape(n)
    BY <1>t, <1>3, <1>4, <1>5, <2>4, <2>5, <2>6
       DEF RequestFacts, OpShape, ReplyShape, RouteDone
  <2>9. LateResult(n) => poisoned = TRUE
    BY <1>t, <1>3, <1>4, <1>5, <2>4, <2>5, <2>6 DEF RequestFacts, LateResult, RouteDone
  <2>10. ~Exposed(n) /\ LeaseMoves(r, n)
    BY <1>t, <1>3, <2>1, <2>4 DEF Exposed, LeaseMoves, RequestFacts
  <2> QED
    BY <1>1, <2>1, <2>2, <2>3, <2>7, <2>8, <2>9, <2>10, RequestStep
<1> QED
  BY <1>6, <1>7

(* A reply is delivered, fails, or is left to the supervisor. *)
LEMMA SendKeeps ==
    ASSUME IngressInv, NEW r \in Requests,
           SendDelivers(r) \/ SendLate(r) \/ \E b \in BOOLEAN : SendFails(r, b)
    PROVE  IngressInv' /\ [LatchNext]_latchVars
<1> DEFINE q == req[r]
<1>t. RequestFacts(r, q)
  BY RequestKnown
<1>1. Serving /\ q.mid = "sending"
  BY DEF SendDelivers, SendLate, SendFails
<1>2. (RouteLive(q) => q.routeSup) /\ (q.routeSup => q.lease)
  BY <1>t, <1>1 DEF RequestFacts, LeaseShape
<1>3. ASSUME NEW m \in Request, NEW p \in BOOLEAN, Finish(r, m, p), m.lease = q.lease,
             m.route = q.route, m.routeSup = q.routeSup, m.text = q.text, m.op = q.op,
             m.stop = q.stop, m.cut = q.cut, m.opSup = q.opSup,
             m.reply = q.reply \/ m.reply = "none"
      PROVE  IngressInv' /\ [LatchNext]_latchVars
  <2>1. OpShape(m) /\ ReplyShape(m) /\ (LateResult(m) => poisoned = TRUE)
    BY <1>t, <1>3 DEF RequestFacts, OpShape, ReplyShape, LateResult, RouteDone
  <2>2. (RouteLive(m) => m.routeSup) /\ (m.routeSup => m.lease)
    BY <1>2, <1>3 DEF RouteLive
  <2> QED
    BY <1>1, <1>3, <2>1, <2>2, FinishStep
<1>4. CASE SendDelivers(r)
  BY <1>t, <1>3, <1>4 DEF SendDelivers, RequestFacts
<1>5. CASE SendLate(r)
  <2> DEFINE m == [q EXCEPT !.sendSup = TRUE]
  <2>1. Finish(r, m, q.reply = "error")
    BY <1>5 DEF SendLate
  <2>2. m \in Request
    BY <1>t DEF RequestFacts, Request
  <2>3. /\ m.lease = q.lease /\ m.route = q.route /\ m.routeSup = q.routeSup
        /\ m.text = q.text /\ m.op = q.op
    BY <1>t DEF RequestFacts, Request
  <2>4. m.stop = q.stop /\ m.cut = q.cut /\ m.opSup = q.opSup /\ m.reply = q.reply
    BY <1>t DEF RequestFacts, Request
  <2> HIDE DEF m
  <2> QED
    BY <1>3, <2>1, <2>2, <2>3, <2>4
<1>6. CASE \E b \in BOOLEAN : SendFails(r, b)
  <2>b. PICK b \in BOOLEAN : SendFails(r, b)
    BY <1>6
  <2> DEFINE m == [q EXCEPT !.reply = "none"]
  <2>1. Finish(r, m, q.reply = "error" /\ ~b)
    BY <2>b DEF SendFails
  <2>2. m \in Request
    BY <1>t DEF RequestFacts, Request
  <2>3. /\ m.lease = q.lease /\ m.route = q.route /\ m.routeSup = q.routeSup
        /\ m.text = q.text /\ m.op = q.op
    BY <1>t DEF RequestFacts, Request
  <2>4. m.stop = q.stop /\ m.cut = q.cut /\ m.opSup = q.opSup /\ m.reply = "none"
    BY <1>t DEF RequestFacts, Request
  <2> HIDE DEF m
  <2> QED
    BY <1>3, <2>1, <2>2, <2>3, <2>4
<1> QED
  BY <1>4, <1>5, <1>6

(* A side task is supervised or ends: the request itself does not move. *)
LEMMA SideKeeps ==
    ASSUME IngressInv, NEW r \in Requests, NEW b \in BOOLEAN,
           OpPoisons(r, b) \/ SideObserved(r, b)
    PROVE  IngressInv' /\ [LatchNext]_latchVars
<1>t. RequestFacts(r, req[r])
  BY RequestKnown
<1>1. PICK p \in BOOLEAN : Become(r, req[r], p)
  BY DEF OpPoisons, SideObserved
<1>2. Serving /\ active' = active /\ callbacks' = callbacks
  BY DEF OpPoisons, SideObserved
<1>3. LeaseMoves(r, req[r])
  BY <1>2 DEF LeaseMoves
<1> QED
  BY <1>t, <1>1, <1>2, <1>3, RequestStep DEF RequestFacts

(* A worker that is gone takes its requests with it. *)
LEMMA GoneKeeps ==
    ASSUME IngressInv, [LatchNext]_latchVars, WorkerGone
    PROVE  IngressInv'
<1>1. LatchInv'
  BY LatchInvStep DEF IngressInv
<1>2. req' \in [Requests -> Request]
  BY FreshLost DEF WorkerGone
<1>3. ASSUME NEW r \in Requests
      PROVE  /\ LeaseShape(req'[r]) /\ OpShape(req'[r]) /\ ReplyShape(req'[r])
             /\ ~LateResult(req'[r]) /\ ~Exposed(req'[r]) /\ req'[r].lease = FALSE
  <2>1. req'[r] = Fresh \/ req'[r] = Lost
    BY DEF WorkerGone
  <2> QED
    BY <2>1, FreshLost
       DEF LeaseShape, OpShape, ReplyShape, LateResult, Exposed, RouteLive, RouteDone
<1>4. RequestInv'
  BY <1>2, <1>3 DEF RequestInv
<1>5. Leased' = {}
  BY <1>3 DEF Leased
<1>6. LeaseInv'
  BY <1>5, FS_EmptySet, MaxActiveAssumption DEF LeaseInv, WorkerGone
<1>7. FanoutInv'
  BY <1>3 DEF FanoutInv, WorkerGone
<1> QED
  BY <1>1, <1>4, <1>6, <1>7 DEF IngressInv

(* A step of the latch that keeps the worker leaves its requests as they were. *)
LEMMA AloneKeeps ==
    ASSUME IngressInv, [LatchNext]_latchVars, UNCHANGED ingressVars, poisoned' = poisoned,
           api' # "up" => api # "up",
           fanout => api' = "up" /\ pc' \in {"entry", "fill", "clean"}
    PROVE  IngressInv'
<1>1. LatchInv'
  BY LatchInvStep DEF IngressInv
<1>2. req' = req /\ active' = active /\ fanout' = fanout /\ callbacks' = callbacks
  BY DEF ingressVars
<1>3. RequestInv' /\ LeaseInv'
  BY <1>2 DEF IngressInv, RequestInv, LeaseInv, Leased
<1>4. FanoutInv'
  BY <1>2 DEF IngressInv, FanoutInv
<1> QED
  BY <1>1, <1>3, <1>4 DEF IngressInv

(* The first poison's listener reaches every route that is at work. *)
LEMMA NotifiesKeeps ==
    ASSUME IngressInv, LatchNotifies
    PROVE  IngressInv' /\ [LatchNext]_latchVars
<1>1. [LatchNext]_latchVars
  BY DEF LatchNotifies, LatchNext
<1>2. LatchInv'
  BY <1>1, LatchInvStep DEF IngressInv
<1>3. req' = req /\ active' = active /\ fanout' = FALSE /\ poisoned' = TRUE /\ api' = "up"
  BY DEF LatchNotifies, PersistClean
<1>4. RequestInv' /\ LeaseInv'
  BY <1>3 DEF IngressInv, RequestInv, LeaseInv, Leased
<1>5. callbacks' = callbacks \cup (IF fanout THEN ActiveRoutes ELSE {})
  BY DEF LatchNotifies
<1>6. ASSUME NEW r \in Requests, Exposed(req[r]) PROVE req[r].cut \/ r \in callbacks'
  <2>1. CASE fanout
    <3>1. req[r].lease /\ req[r].route # "none"
      BY <1>6 DEF IngressInv, RequestInv, LeaseShape, Exposed, RouteLive
    <3> QED
      BY <1>5, <2>1, <3>1 DEF ActiveRoutes
  <2>2. CASE ~fanout
    <3>1. api = "up"
      BY <1>6 DEF IngressInv, FanoutInv
    <3>2. poisoned
      BY <3>1 DEF IngressInv, LatchInv, WorkerShape, LatchNotifies, PersistClean
    <3> QED
      BY <1>5, <1>6, <2>2, <3>2 DEF IngressInv, FanoutInv
  <2> QED
    BY <2>1, <2>2
<1>7. FanoutInv'
  BY <1>3, <1>5, <1>6 DEF FanoutInv, IngressInv, ActiveRoutes
<1> QED
  BY <1>1, <1>2, <1>4, <1>7 DEF IngressInv

(* The latch's own steps. *)
LEMMA LatchKeeps ==
    ASSUME IngressInv,
           \/ IngressFails \/ IngressEnds \/ IngressGoesOn \/ IngressStops
           \/ (ClearAuthorize \/ HostDies) /\ UNCHANGED ingressVars
    PROVE  IngressInv' /\ [LatchNext]_latchVars
<1>1. CASE IngressFails
  <2>1. [LatchNext]_latchVars
    BY <1>1 DEF IngressFails, LatchNext
  <2> QED
    BY <1>1, <2>1, GoneKeeps DEF IngressFails
<1>2. CASE IngressEnds
  <2>1. [LatchNext]_latchVars
    BY <1>2 DEF IngressEnds, LatchNext, BootStep
  <2> QED
    BY <1>2, <2>1, GoneKeeps DEF IngressEnds
<1>3. CASE IngressGoesOn
  <2>1. [LatchNext]_latchVars
    BY <1>3 DEF IngressGoesOn, LatchNext, BootStep
  <2>2. /\ fanout => api = "up" /\ pc \in {"entry", "fill", "clean"}
        /\ host = "handoff" => api # "up"
    BY DEF IngressInv, FanoutInv, LatchInv, HostShape
  <2>3. CASE HostStep
    <3>1. poisoned' = poisoned
      BY <2>3 DEF HostStep, Start, MaterializeTemp, MaterializeLink, MaterializeUnlink,
         ClearWitness, ClearHandoff, ClearMark, ClearSentinel, ClearUnpend
    <3>2. /\ api' # "up" => api # "up"
          /\ api = "up" => api' = "up" /\ pc' = pc
      BY <2>2, <2>3 DEF HostStep, Start, MaterializeTemp, MaterializeLink, MaterializeUnlink,
         ClearWitness, ClearHandoff, ClearMark, ClearSentinel, ClearUnpend
    <3> QED
      BY <1>3, <2>1, <2>2, <3>1, <3>2, AloneKeeps DEF IngressGoesOn
  <2>4. CASE ~HostStep
    <3>1. /\ poisoned' = poisoned
          /\ api' # "up" => api # "up"
          /\ fanout => api' = "up" /\ pc' \in {"entry", "fill", "clean"}
      <4>1. sentinel \in {"absent", "partial", "linked", "valid"}
        BY DEF IngressInv, LatchInv, Places
      <4>2. CASE BootArm \/ PersistFill
        BY <2>2, <4>2 DEF BootArm, PersistFill
      <4>3. CASE PersistEntry /\ api' # "exited"
        BY <2>2, <4>1, <4>3 DEF PersistEntry, Exit
      <4>4. CASE BootLook /\ api' # "exited"
        BY <2>2, <4>1, <4>4 DEF BootLook, Exit
      <4> QED
        BY <1>3, <2>4, <4>2, <4>3, <4>4 DEF IngressGoesOn
    <3> QED
      BY <1>3, <2>1, <3>1, AloneKeeps DEF IngressGoesOn
  <2> QED
    BY <2>3, <2>4
<1>4. CASE IngressStops
  <2>1. [LatchNext]_latchVars
    BY <1>4 DEF IngressStops, LatchNext
  <2>2. CASE api' = "exited"
    BY <1>4, <2>1, <2>2, GoneKeeps DEF IngressStops
  <2>3. CASE api' # "exited"
    <3>1. poisoned' = poisoned /\ api' = "up" /\ ~fanout
      BY <1>4, <2>3 DEF IngressStops, Shutdown, Serving, Exit, IngressInv, FanoutInv
    <3> QED
      BY <1>4, <2>1, <2>3, <3>1, AloneKeeps DEF IngressStops
  <2> QED
    BY <2>2, <2>3
<1>5. CASE (ClearAuthorize \/ HostDies) /\ UNCHANGED ingressVars
  <2>1. [LatchNext]_latchVars
    BY <1>5 DEF LatchNext
  <2>2. poisoned' = poisoned /\ api' = api /\ pc' = pc
    BY <1>5 DEF HostDies, ClearAuthorize
  <2> QED
    BY <1>5, <2>1, <2>2, AloneKeeps DEF IngressInv, FanoutInv
<1> QED
  BY <1>1, <1>2, <1>3, <1>4, <1>5

(* Every step of the fence keeps the invariant and is a step of the latch. *)
LEMMA IngressStep ==
    ASSUME IngressInv, [IngressNext]_vars
    PROVE  IngressInv' /\ [LatchNext]_latchVars
<1>1. CASE UNCHANGED vars
  <2>1. UNCHANGED latchVars /\ UNCHANGED ingressVars
    BY <1>1 DEF vars
  <2>2. poisoned' = poisoned /\ api' = api /\ pc' = pc
    BY <2>1 DEF latchVars
  <2> QED
    BY <2>1, <2>2, AloneKeeps DEF IngressInv, FanoutInv
<1>2. ASSUME NEW r \in Requests, MidStep(r) PROVE IngressInv' /\ [LatchNext]_latchVars
  BY <1>2, RegisterKeeps, CompletesKeeps, GivesKeeps, CleansKeeps, SendKeeps, CallbackKeeps,
     TickKeeps DEF MidStep
<1>3. ASSUME NEW r \in Requests, BudgetStep(r) PROVE IngressInv' /\ [LatchNext]_latchVars
  BY <1>3, StartKeeps, CutKeeps, ReturnsKeeps, EndsKeeps DEF BudgetStep
<1>4. ASSUME NEW r \in Requests, Arrive(r) \/ OuterCancel(r) \/ RouteObserved(r)
      PROVE  IngressInv' /\ [LatchNext]_latchVars
  BY <1>4, ArriveKeeps, OuterKeeps, ObservedKeeps
<1>5. ASSUME NEW r \in Requests, NEW b \in BOOLEAN,
             \/ SendFails(r, b) \/ SendObserved(r, b)
             \/ RouteStops(r, b) \/ OpPoisons(r, b) \/ SideObserved(r, b)
      PROVE  IngressInv' /\ [LatchNext]_latchVars
  BY <1>5, SendKeeps, SentKeeps, StopsKeeps, SideKeeps
<1>6. ASSUME NEW r \in Requests, NEW e \in {"ok", "failed"}, NEW x \in {"empty", "error"},
             RouteRefuses(r, e, x)
      PROVE  IngressInv' /\ [LatchNext]_latchVars
  BY <1>6, RefusesKeeps
<1>7. ASSUME NEW r \in Requests, NEW e \in {"done", "failed", "cancelled"}, OpEnds(r, e)
      PROVE  IngressInv' /\ [LatchNext]_latchVars
  BY <1>7, OpKeeps
<1> QED
  BY <1>1, <1>2, <1>3, <1>4, <1>5, <1>6, <1>7, NotifiesKeeps, LatchKeeps DEF IngressNext

(* The first installation has no requests. *)
LEMMA IngressStart == ASSUME IngressInit PROVE IngressInv
<1>1. LatchInv
  BY LatchInvInit DEF IngressInit
<1>2. req \in [Requests -> Request] /\ \A r \in Requests : req[r] = Fresh
  BY FreshLost DEF IngressInit
<1>3. /\ LeaseShape(Fresh) /\ OpShape(Fresh) /\ ReplyShape(Fresh)
      /\ ~LateResult(Fresh) /\ ~Exposed(Fresh) /\ Fresh.lease = FALSE
  BY FreshLost
     DEF LeaseShape, OpShape, ReplyShape, LateResult, Exposed, RouteLive, RouteDone
<1>4. RequestInv
  BY <1>2, <1>3 DEF RequestInv
<1>5. Leased = {}
  BY <1>2, <1>3 DEF Leased
<1>6. LeaseInv
  BY <1>5, FS_EmptySet, MaxActiveAssumption DEF LeaseInv, IngressInit
<1>7. FanoutInv
  BY <1>2, <1>3 DEF FanoutInv, IngressInit
<1> QED
  BY <1>1, <1>4, <1>6, <1>7 DEF IngressInv

(* The fence keeps its invariant whatever deadlines, disconnects, poisons and
   crashes come together. *)
LEMMA IngressInvariant == IngressSafety => []IngressInv
<1>1. IngressInit => IngressInv
  BY IngressStart
<1>2. IngressInv /\ [IngressNext]_vars => IngressInv'
  BY IngressStep
<1> QED
  BY <1>1, <1>2, PTL DEF IngressSafety

(* Whatever the middleware, the route and the operation task do around it, the
   latch takes steps of its own specification. *)
LEMMA IngressIsLatch == IngressSafety => LatchSpec
<1>1. IngressInit => LatchInit
  BY DEF IngressInit
<1>2. IngressInv /\ [IngressNext]_vars => [LatchNext]_latchVars
  BY IngressStep
<1> QED
  BY <1>1, <1>2, IngressInvariant, PTL DEF IngressSafety, LatchSpec

SideInv == side \subseteq Requests

(* The supervised side tasks are those of requests. *)
LEMMA SideTyped == IngressSafety => []SideInv
<1>1. IngressInit => SideInv
  BY DEF IngressInit, SideInv
<1>2. ASSUME SideInv, [IngressNext]_vars PROVE SideInv'
  <2> USE DEF SideInv
  <2>1. CASE \/ LatchNotifies \/ IngressFails \/ IngressEnds \/ IngressGoesOn
             \/ IngressStops \/ UNCHANGED ingressVars
    BY <1>2, <2>1 DEF LatchNotifies, IngressFails, IngressEnds, IngressGoesOn,
       IngressStops, WorkerGone, ingressVars
  <2>2. ASSUME NEW r \in Requests, MidStep(r) \/ Arrive(r) \/ OuterCancel(r) \/ RouteObserved(r)
        PROVE  side' \subseteq Requests
    BY <1>2, <2>2 DEF MidStep, Arrive, OuterCancel, RouteObserved, Register, MidCompletes,
       MidGivesUp, MidCleans, SendDelivers, SendLate, CallbackRuns, Tick, Finish
  <2>3. ASSUME NEW r \in Requests, BudgetStep(r) PROVE side' \subseteq Requests
    BY <1>2, <2>3 DEF BudgetStep, RouteStart, RouteCut, RouteReturns, RouteEnds, RouteStep,
       ProbeStep
  <2>4. ASSUME NEW r \in Requests, NEW b \in BOOLEAN,
               \/ SendFails(r, b) \/ SendObserved(r, b)
               \/ RouteStops(r, b) \/ OpPoisons(r, b) \/ SideObserved(r, b)
        PROVE  side' \subseteq Requests
    BY <1>2, <2>4 DEF SendFails, SendObserved, RouteStops, OpPoisons, SideObserved, Finish,
       ProbeStep
  <2>5. ASSUME NEW r \in Requests, NEW e, NEW x, RouteRefuses(r, e, x) \/ OpEnds(r, e)
        PROVE  side' \subseteq Requests
    BY <1>2, <2>5 DEF RouteRefuses, OpEnds, RouteStep
  <2>6. CASE UNCHANGED vars
    BY <1>2, <2>6 DEF vars, ingressVars
  <2> QED
    BY <1>2, <2>1, <2>2, <2>3, <2>4, <2>5, <2>6 DEF IngressNext
<1> QED
  BY <1>1, <1>2, PTL DEF IngressSafety

(* ChatDeadlineMiddleware never leaks a lease, never returns one twice and never
   lets an operation run that neither a lease nor the backlog accounts for, for
   any number of requests and any admission limit. *)
THEOREM WorkAlwaysAccounted == IngressSafety => []WorkAccounted
<1>1. ASSUME IngressInv, SideInv PROVE WorkAccounted
  <2>1. LatchTypeOK
    BY <1>1, LatchInvImplies DEF IngressInv
  <2>2. active \in 0 .. MaxActive
    BY <1>1, MaxActiveAssumption, FS_CardinalityType DEF IngressInv, LeaseInv
  <2>3. IngressTypeOK
    BY <1>1, <2>1, <2>2 DEF IngressTypeOK, IngressInv, RequestInv, FanoutInv, Request, Clocks,
       SideInv
  <2>4. LeaseAccounted
    BY <1>1 DEF LeaseAccounted, IngressInv, RequestInv, LeaseInv, Leased, LeaseShape
  <2>5. NoUntrackedWork
    BY <1>1 DEF NoUntrackedWork, IngressInv, RequestInv, OpShape, LeaseShape, RouteLive
  <2> QED
    BY <2>3, <2>4, <2>5 DEF WorkAccounted
<1> QED
  BY <1>1, IngressInvariant, SideTyped, PTL

(* A delivered answer is that of an operation no fence cancelled, a result that
   came after its cancellation leaves the worker poisoned, and a durable poison
   has reached every route at work. *)
THEOREM AnswerAlwaysSound == IngressSafety => []AnswerSound
<1>1. ASSUME IngressInv PROVE AnswerSound
  <2>1. AnswerIsFinal
    BY <1>1 DEF AnswerIsFinal, IngressInv, RequestInv, ReplyShape
  <2>2. LateSuccessPoisons
    BY <1>1 DEF LateSuccessPoisons, IngressInv, RequestInv, LateResult
  <2>3. PoisonReachesRoutes
    BY <1>1 DEF PoisonReachesRoutes, IngressInv, FanoutInv, Exposed, Serving
  <2> QED
    BY <2>1, <2>2, <2>3 DEF AnswerSound
<1> QED
  BY <1>1, IngressInvariant, PTL

(* The latch holds under the traffic of the fence, too: chat stays shut from an
   unsafe end of chat work to the operator's clearing, for any number of requests
   and side tasks and of faults. *)
THEOREM IngressLatchSound == IngressSafety => []LatchSound
BY IngressIsLatch, LatchAlwaysSound
=============================================================================
