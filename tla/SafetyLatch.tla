---------------------------- MODULE SafetyLatch ----------------------------
(***************************************************************************)
(* The durable chat-safety latch: the API worker (app/services/            *)
(* chat_safety.py), the root tool that edits the same two files            *)
(* (deploy/tencent/chat-safety-sentinel.py), and the two host scripts that *)
(* drive that tool, the reconciler and the operator's clear transaction.   *)
(*                                                                         *)
(* On disk there are the poison sentinel, the run-state file, the          *)
(* materialize temporary and the clear-pending marker; Docker keeps the    *)
(* API container and its exit status.  Everything else is lost when the    *)
(* worker dies.  The run-state file is replaced by a rename, so it is      *)
(* never torn; the sentinel is created first and filled afterwards, so a   *)
(* crash between the two leaves it "partial", and a crash of the root tool *)
(* between link and unlink leaves it "linked" (two names).                 *)
(***************************************************************************)
EXTENDS Naturals

CONSTANT MaxFaults   \* how many crashes and I/O errors a behaviour may hold

ASSUME MaxFaultsAssumption == MaxFaults \in Nat

VARIABLES sentinel,  \* the poison sentinel file
          run,       \* run-state.json: its phase
          temp,      \* the root tool's materialize temporary exists
          pending,   \* chat-safety-clear-pending.json exists
          api,       \* the API container
          code,      \* its exit status
          poisoned,  \* _POISON_REASONS of the running worker is not empty
          pc,        \* where the worker's current persistence call stands
          host,      \* where the running host script stands
          faults,    \* faults so far
          incident   \* history: chat work ended unsafely, nobody cleared it

latchVars == <<sentinel, run, temp, pending, api, code, poisoned, pc, host,
               faults, incident>>

LatchTypeOK ==
    /\ sentinel \in {"absent", "partial", "linked", "valid"}
    /\ run \in {"absent", "clean", "running"}
    /\ temp \in BOOLEAN
    /\ pending \in BOOLEAN
    /\ api \in {"missing", "created", "booting", "up", "exited"}
    /\ code \in {0, 1, 78}
    /\ poisoned \in BOOLEAN
    /\ pc \in {"none", "look", "arm", "entry", "fill", "clean", "left"}
    /\ host \in {"idle", "link", "unlink", "witness", "handoff", "mark",
                 "clear", "unpend"}
    /\ faults \in 0 .. MaxFaults
    /\ incident \in BOOLEAN

\* A first installation: a provisioned, empty state directory and a created
\* container.
LatchInit ==
    /\ sentinel = "absent" /\ run = "absent"
    /\ temp = FALSE /\ pending = FALSE
    /\ api = "created" /\ code = 0
    /\ poisoned = FALSE /\ pc = "none"
    /\ host = "idle" /\ faults = 0 /\ incident = FALSE

diskOfHost == <<temp, pending, host>>

-----------------------------------------------------------------------------
(* The worker.  A persistence call blocks the event loop, so nothing but a *)
(* crash comes between its steps.                                          *)

\* chat_safety_poisoned(): memory, then the sentinel, then the run state.
chat_safety_poisoned == poisoned \/ sentinel # "absent" \/ run # "running"

\* The worker answers requests.
Serving == api = "up" /\ pc = "none"

\* Chat work can be admitted.
Open == Serving /\ ~chat_safety_poisoned

\* The process ends with an exit status; its memory is gone.
Exit(status) ==
    /\ api' = "exited" /\ code' = status
    /\ poisoned' = FALSE /\ pc' = "none"

\* Mutant of BootLook: a stale "running" phase is taken over, not promoted.
SlipTakeOver ==
    /\ pc = "look"
    /\ CASE sentinel = "valid" -> pc' = "clean" /\ UNCHANGED <<api, code, poisoned>>
         [] sentinel \in {"partial", "linked"} -> Exit(1)
         [] sentinel = "absent" -> pc' = "arm" /\ UNCHANGED <<api, code, poisoned>>
    /\ UNCHANGED <<sentinel, run, diskOfHost, faults, incident>>

\* create_app -> configure_chat_safety_state: look at both files.
BootLook ==
    /\ pc = "look"
    /\ CASE sentinel = "valid" -> pc' = "clean" /\ UNCHANGED <<api, code, poisoned>>
         [] sentinel \in {"partial", "linked"} -> Exit(1)
         [] sentinel = "absent" /\ run = "running" ->
              pc' = "entry" /\ UNCHANGED <<api, code, poisoned>>
         [] sentinel = "absent" /\ run # "running" ->
              pc' = "arm" /\ UNCHANGED <<api, code, poisoned>>
    /\ UNCHANGED <<sentinel, run, diskOfHost, faults, incident>>

\* No sentinel and no stale run: the latch is armed before the app exists.
BootArm ==
    /\ pc = "arm"
    /\ run' = "running" /\ api' = "up" /\ pc' = "none"
    /\ UNCHANGED <<sentinel, diskOfHost, code, poisoned, faults, incident>>

\* poison_chat_safety: memory first; the files follow in the steps below.
Poison ==
    /\ Serving
    /\ poisoned' = TRUE /\ incident' = TRUE /\ pc' = "entry"
    /\ UNCHANGED <<sentinel, run, diskOfHost, api, code, faults>>

\* _persist_sentinel_locked: keep a valid sentinel, refuse a torn one, or
\* create the directory entry and make it durable.
PersistEntry ==
    /\ pc = "entry"
    /\ CASE sentinel = "absent" -> /\ sentinel' = "partial" /\ pc' = "fill"
                                   /\ UNCHANGED <<api, code, poisoned>>
         [] sentinel = "valid" -> /\ pc' = "clean"
                                  /\ UNCHANGED <<sentinel, api, code, poisoned>>
         [] sentinel \in {"partial", "linked"} -> Exit(78) /\ UNCHANGED sentinel
    /\ UNCHANGED <<run, diskOfHost, faults, incident>>

\* The payload is written, synced and validated.
PersistFill ==
    /\ pc = "fill"
    /\ sentinel' = "valid" /\ pc' = "clean"
    /\ UNCHANGED <<run, diskOfHost, api, code, poisoned, faults, incident>>

\* _write_run_state_locked(phase="clean") after the sentinel is durable; at
\* boot this is where the worker comes up poisoned.
PersistClean ==
    /\ pc = "clean"
    /\ run' = "clean" /\ api' = "up" /\ poisoned' = TRUE /\ pc' = "none"
    /\ UNCHANGED <<sentinel, diskOfHost, code, faults, incident>>

\* An I/O error in a persistence call: _fail_stop_after_persistence_failure.
PersistFails ==
    /\ faults < MaxFaults /\ faults' = faults + 1
    /\ pc \in {"arm", "entry", "fill", "clean"}
    /\ Exit(78)
    /\ UNCHANGED <<sentinel, run, diskOfHost, incident>>

\* complete_chat_safety_shutdown, after the lifespan's cleanup: a poison
\* without a durable sentinel fail-stops, otherwise the run ends clean.
Shutdown ==
    /\ Serving
    /\ IF sentinel \in {"partial", "linked"} \/ (sentinel = "absent" /\ poisoned)
       THEN Exit(78) /\ UNCHANGED run
       ELSE /\ run' = "clean" /\ pc' = "left"
            /\ UNCHANGED <<api, code, poisoned>>
    /\ UNCHANGED <<sentinel, diskOfHost, faults, incident>>

\* The interpreter returns, or is killed when the grace period is over.
Leave(status) ==
    /\ pc = "left"
    /\ Exit(status)
    /\ UNCHANGED <<sentinel, run, diskOfHost, faults, incident>>

\* SIGKILL, OOM or power loss.  After a power loss the container's status is
\* whatever Docker reconstructs, so zero is possible too.
Crash(status) ==
    /\ faults < MaxFaults /\ faults' = faults + 1
    /\ api \in {"booting", "up"}
    /\ Exit(status)
    /\ incident' = (incident \/ (api = "up" /\ pc # "left"))
    /\ UNCHANGED <<sentinel, run, diskOfHost>>

-----------------------------------------------------------------------------
(* The host.  Reconciler and operator hold one operation lock, so at most  *)
(* one script runs; a script may die at any step.  The reconciler runs from *)
(* a timer; the clear transaction is started by a person, or never.        *)

\* enter_chat_safety_hold_if_present does not stop the reconciler.
NoHold == sentinel = "absent" /\ ~pending

\* The reconciler starts a container that did not fail: the worker boots.
Start ==
    /\ host = "idle" /\ NoHold
    /\ api \in {"created", "exited"} /\ code = 0
    /\ api' = "booting" /\ pc' = "look"
    /\ UNCHANGED <<sentinel, run, diskOfHost, code, poisoned, faults, incident>>

\* stop_sensitive_services under a hold: a worker that does not leave within
\* the grace period is killed.
HoldKill ==
    /\ host = "idle" /\ ~NoHold
    /\ api \in {"booting", "up"}
    /\ Exit(1)
    /\ incident' = (incident \/ (api = "up" /\ pc # "left"))
    /\ UNCHANGED <<sentinel, run, diskOfHost, faults>>

\* materialize_api_persistence_witness: a failed or missing worker becomes a
\* sentinel.  A left-over temporary is removed and written again.
MaterializeTemp ==
    /\ host = "idle" /\ NoHold
    /\ api = "missing" \/ (api = "exited" /\ code # 0)
    /\ temp' = TRUE /\ host' = "link"
    /\ UNCHANGED <<sentinel, run, pending, api, code, poisoned, pc, faults,
                   incident>>

\* os.link publishes the complete file under its final name.
MaterializeLink ==
    /\ host = "link"
    /\ sentinel' = "linked" /\ host' = "unlink"
    /\ UNCHANGED <<run, temp, pending, api, code, poisoned, pc, faults,
                   incident>>

MaterializeUnlink ==
    /\ host = "unlink"
    /\ sentinel' = "valid" /\ temp' = FALSE /\ host' = "idle"
    /\ UNCHANGED <<run, pending, api, code, poisoned, pc, faults, incident>>

\* A hold the clear transaction accepts: the writers are stopped, and there is
\* a whole sentinel to clear or an interrupted clearing to finish.
Clearable ==
    /\ host = "idle" /\ api \notin {"booting", "up"}
    /\ sentinel = "valid" \/ (sentinel = "absent" /\ pending)

\* clear-chat-safety-poison.sh: evidence is archived, the clearing is
\* authorised and made pending.  It also refuses while the ledger has a
\* PROCESSING claim; the ledger is ChatReplay's, here the refusal is one more
\* reason why the operator's step may not happen.
ClearAuthorize ==
    /\ Clearable
    /\ pending' = TRUE /\ host' = "witness"
    /\ UNCHANGED <<sentinel, run, temp, api, code, poisoned, pc, faults,
                   incident>>

\* The container, looked at again and found stopped, is archived and removed.
ClearWitness ==
    /\ host = "witness" /\ api \notin {"booting", "up"}
    /\ host' = "handoff" /\ api' = "missing" /\ code' = 0
    /\ UNCHANGED <<sentinel, run, temp, pending, poisoned, pc, faults, incident>>

\* A clean container is created and left stopped.
ClearHandoff ==
    /\ host = "handoff"
    /\ api' = "created" /\ code' = 0 /\ host' = "mark"
    /\ UNCHANGED <<sentinel, run, temp, pending, poisoned, pc, faults, incident>>

\* mark-run-clean, while the sentinel is still present.
ClearMark ==
    /\ host = "mark"
    /\ IF sentinel = "absent"
       THEN host' = "unpend" /\ UNCHANGED run
       ELSE host' = "clear" /\ run' = "clean"
    /\ UNCHANGED <<sentinel, temp, pending, api, code, poisoned, pc, faults,
                   incident>>

\* clear: unlink exactly the verified sentinel.
ClearSentinel ==
    /\ host = "clear"
    /\ sentinel' = "absent" /\ incident' = FALSE /\ host' = "unpend"
    /\ UNCHANGED <<run, temp, pending, api, code, poisoned, pc, faults>>

ClearUnpend ==
    /\ host = "unpend"
    /\ pending' = FALSE /\ host' = "idle"
    /\ UNCHANGED <<sentinel, run, temp, api, code, poisoned, pc, faults,
                   incident>>

\* A host script is killed.
HostDies ==
    /\ faults < MaxFaults /\ faults' = faults + 1
    /\ host # "idle" /\ host' = "idle"
    /\ UNCHANGED <<sentinel, run, temp, pending, api, code, poisoned, pc,
                   incident>>

\* What a timer or a running script does; starting a clearing is not in it.
HostStep ==
    \/ Start \/ MaterializeTemp \/ MaterializeLink \/ MaterializeUnlink
    \/ ClearWitness \/ ClearHandoff \/ ClearMark \/ ClearSentinel
    \/ ClearUnpend

BootStep == BootLook \/ BootArm

LatchNext ==
    \/ BootStep \/ Poison \/ PersistEntry \/ PersistFill \/ PersistClean
    \/ PersistFails \/ Shutdown \/ (\E s \in {0, 1} : Leave(s) \/ Crash(s))
    \/ HostStep \/ ClearAuthorize \/ HoldKill \/ HostDies

LatchSpec == LatchInit /\ [][LatchNext]_latchVars

-----------------------------------------------------------------------------
\* LatchHolds: after an unsafe end of chat work (a poison, or a crash while
\* chat was possible) no worker admits chat until the operator has cleared
\* it, whatever crashes, restarts and I/O errors come between.  This is what
\* chat_safety.py and the sentinel tool exist for.
LatchHolds == incident => ~Open

\* WitnessRemains: at every moment an uncleared incident has a witness that
\* survives the worker: the sentinel (torn ones included), the "running"
\* phase, or the failed container.  The order of the writes (sentinel before
\* "clean", "clean" before the sentinel is cleared) is what keeps one.
WitnessRemains ==
    incident /\ api # "up" =>
        sentinel # "absent" \/ run = "running" \/ (api = "exited" /\ code # 0)

\* PoisonDurable: a worker that is serving with a poisoned memory has a
\* sentinel on disk: the reply "chat_safety_poisoned" is never forgotten by a
\* restart, because an unwritable sentinel stops the process instead.
PoisonDurable == Serving /\ poisoned => sentinel # "absent"

\* LatchSound: the promise of chat_safety.py and the host scripts together.
\* Chat stays shut from an unsafe end of chat work until the operator clears
\* it, and through crashes, torn files and restarts the reason stays on disk.
LatchSound == LatchHolds /\ WitnessRemains /\ PoisonDurable

\* A sentinel nobody is completing any more.
Torn == \/ sentinel = "partial" /\ pc # "fill"
        \/ sentinel = "linked" /\ host # "unlink"

\* Reopens: the scripts leave the service open as far as the latch goes, or a
\* hold that the operator can clear, an interrupted clearing included, or a
\* torn sentinel, which no script of the repository repairs; they never leave
\* it shut in any other way.  And a clearing that was started opens the
\* service with no further help, unless another fault hits it.
Reopens ==
    /\ []<>(Open \/ Clearable \/ Torn)
    /\ \A n \in 0 .. MaxFaults :
          host = "witness" /\ faults = n ~> Open \/ faults # n
=============================================================================
