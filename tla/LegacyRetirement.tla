--------------------------- MODULE LegacyRetirement ---------------------------
(***************************************************************************)
(* retire and reactivate of scripts/legacy_offline_adoption.py.            *)
(*                                                                         *)
(* retire publishes a signed intent that names the containers it is about  *)
(* to remove, stops and removes exactly those, and renames the intent to   *)
(* the retirement receipt; after a crash it continues from the intent.     *)
(* reactivate starts the same services again, in order, and only with a    *)
(* signed proof that the target never reached its migration.               *)
(*                                                                         *)
(* Neither takes the project lock, which the adoption entry holds while it *)
(* runs them.  That an operator who runs one by hand runs no other command *)
(* beside it is assumed here (holder = LockFree).                          *)
(***************************************************************************)
EXTENDS OfflineHost

RetireSteps == {"retire", "retire_stop", "retire_remove", "retire_network",
                "retire_publish"}
ReactivateSteps == {"reactivate", "start", "answer"}

Planned == 1    \* generation of the container IDs in the approved plan

\* The stop order is the writers' order first, the data services last.
StopsBefore(s, t) ==
    \E i, j \in DOMAIN LegacyOrder : LegacyOrder[i] = t /\ LegacyOrder[j] = s /\ i < j

\* collect_inventory finds every service; topology and images as planned.
TopologyAsPlanned ==
    legacy.net /\ LabelsExact /\ \A s \in LegacyServices : legacy.box[s] # "gone"

\* _verify_postgres_17_and_schema
SchemaHeadIs(head) == legacy.box["postgres"] = "up" /\ schema = head

\* _verify_retirement_receipt: the removed IDs are those of the plan.
ReceiptVerifies == tx.ids = Planned

\* _release_state_binding, compared with the one the receipt signed.
ReleaseStateBound == state = tx.bound

\* _verify_upgrade_evidence
UpgradeEvidence == BackupEvidence(TRUE)

\* _retire without --execute: what it requires in each durable state.
RetireFresh == UpgradeEvidence /\ TopologyAsPlanned /\ SchemaHeadIs("source")
RetireIntent == ReceiptVerifies /\ ReleaseStateBound
RetireFinal == ReceiptVerifies /\ ReleaseStateBound /\ ProjectEmpty
RetireDryRun ==
    /\ KeyPair
    /\ CASE tx.receipt = "none" -> RetireFresh
         [] tx.receipt = "intent" -> RetireIntent
         [] tx.receipt = "final" -> RetireFinal

-----------------------------------------------------------------------------
(* retire                                                                  *)

\* _publish_retirement_intent: the live IDs and the live control files.
SignedIntent ==
    [tx EXCEPT !.receipt = "intent", !.ids = legacy.gen, !.bound = state]

\* Mutant of RetireBegins: the containers go before the intent is durable.
SlipIntentLater ==
    /\ AtStep("retire") /\ RetireDryRun
    /\ holder' = [holder EXCEPT !.at = "retire_stop"]
    /\ tx' = [tx EXCEPT !.ids = legacy.gen, !.bound = state]
    /\ UNCHANGED <<state, legacy, target, units, schema, host, mishaps, invoked>>

\* The retirement is done; the adoption entry goes on to its journal.
RetireDone ==
    holder' = IF holder.cmd = "adopt" THEN [holder EXCEPT !.at = "journal", !.retired = TRUE]
           ELSE LockFree

\* A published receipt ends the command; an intent is resumed; otherwise the
\* intent is signed, with the live IDs, before Docker is touched.
RetireBegins ==
    /\ AtStep("retire")
    /\ IF ~RetireDryRun THEN Fail /\ UNCHANGED tx
       ELSE CASE tx.receipt = "final" ->
                    RetireDone /\ UNCHANGED tx
              [] tx.receipt = "intent" -> GoTo("retire_stop") /\ UNCHANGED tx
              [] tx.receipt = "none" ->
                    tx' = SignedIntent /\ GoTo("retire_stop")
    /\ UNCHANGED <<state, legacy, target, units, schema, host, mishaps, invoked>>

\* _retire_exact_resources: unknown containers or networks are an error.
OnlyPlannedResources == TargetBoxes = {} /\ ~target.net /\ LabelsExact

\* It stops the services in the stop order, missing ones are allowed.
RetireStops ==
    /\ AtStep("retire_stop")
    /\ IF ~OnlyPlannedResources THEN Fail /\ UNCHANGED legacy
       ELSE \/ /\ \E s \in LegacyServices :
                    /\ legacy.box[s] = "up"
                    /\ \A t \in LegacyServices :
                         StopsBefore(t, s) => legacy.box[t] # "up"
                    /\ legacy' = [legacy EXCEPT !.box[s] = "down"]
               /\ UNCHANGED holder
            \/ /\ \A s \in LegacyServices : legacy.box[s] # "up"
               /\ GoTo("retire_remove") /\ UNCHANGED legacy
    /\ UNCHANGED <<state, tx, target, units, schema, host, mishaps, invoked>>

\* It removes them one by one, then the network.
RetireRemoves ==
    /\ AtStep("retire_remove")
    /\ \/ /\ \E s \in LegacyServices :
               /\ legacy.box[s] = "down"
               /\ legacy' = [legacy EXCEPT !.box[s] = "gone"]
          /\ UNCHANGED holder
       \/ /\ \A s \in LegacyServices : legacy.box[s] = "gone"
          /\ GoTo("retire_network") /\ UNCHANGED legacy
    /\ UNCHANGED <<state, tx, target, units, schema, host, mishaps, invoked>>

\* _remove_exact_legacy_network
RetireRemovesNetwork ==
    /\ AtStep("retire_network")
    /\ legacy' = [legacy EXCEPT !.net = FALSE] /\ GoTo("retire_publish")
    /\ UNCHANGED <<state, tx, target, units, schema, host, mishaps, invoked>>

\* _assert_legacy_resources_absent, then the rename.
RetirePublishes ==
    /\ AtStep("retire_publish")
    /\ IF ProjectEmpty THEN tx' = [tx EXCEPT !.receipt = "final"] /\ RetireDone
       ELSE Fail /\ UNCHANGED tx
    /\ UNCHANGED <<state, legacy, target, units, schema, host, mishaps, invoked>>

\* main: the operator runs retire with --execute, without the entry.
RetireByHand ==
    /\ holder = LockFree /\ tx.receipt # "final"
    /\ holder' = [LockFree EXCEPT !.cmd = "retire", !.at = "retire"]
    /\ UNCHANGED <<state, tx, legacy, target, units, schema, host, mishaps, invoked>>

RetireNext ==
    RetireByHand \/ RetireBegins \/ RetireStops \/ RetireRemoves \/ RetireRemovesNetwork
        \/ RetirePublishes

-----------------------------------------------------------------------------
(* reactivate                                                              *)

\* _verify_target_abort_authorization: the signed abort receipt of this
\* transaction, given by path.
AbortAuthorizes == holder.authority /\ tx.abort = "final"

\* _verify_host_isolation: also no reconcile timer or service at work.
HostAsBaseline == HostIsolated /\ ~units

\* _collect_partial_project_inventory
PartialInventory == {s \in LegacyServices : legacy.box[s] # "gone"}

\* _validate_reactivation_subset: nothing but planned legacy services, an
\* exact prefix of the start order.
ReactivationSubset ==
    /\ TargetBoxes = {} /\ ~target.net /\ LabelsExact
    /\ PartialInventory =
          {LegacyOrder[i] : i \in 1 .. Cardinality(PartialInventory)}

\* _verify_listener_owned_by_proxy: a listener on the edge is the process of
\* the legacy proxy; _edge_contracts_for_port says whose port it is.
EdgeContract == {"proxy"}
ListenerOwnedByProxy ==
    (\E s \in EdgeContract : legacy.box[s] = "up") => "port" \notin host

\* _verify_edge_ports_available: before the proxy runs nobody listens.
EdgePortsAvailable ==
    /\ ListenerOwnedByProxy
    /\ (\A s \in EdgeContract : legacy.box[s] # "up") => "port" \notin host

\* _assert_reactivation_surface
ReactivationSurface == ReactivationSubset /\ EdgePortsAvailable

\* _verify_legacy_edge_readiness
EdgeReady == "edge" \notin host

\* Everything reactivate verifies before it starts anything.
ReactivationAuthorized ==
    /\ tx.receipt = "final" /\ ReceiptVerifies /\ AbortAuthorizes
    /\ ReleaseStateBound /\ HostAsBaseline /\ ReactivationSurface

\* reactivate_legacy checks the signing key first, and exits without it.
ReactivateBegins ==
    /\ AtStep("reactivate")
    /\ IF holder.trap /\ ~KeyPair THEN holder' = LockFree
       ELSE IF ReactivationAuthorized /\ (holder.cmd = "adopt" => KeyPair)
            THEN GoTo("start") ELSE Fail
    /\ UNCHANGED <<state, tx, legacy, target, units, schema, host, mishaps, invoked>>

\* The start order: the first service that does not run.
NextToStart ==
    CHOOSE i \in DOMAIN LegacyOrder :
        /\ legacy.box[LegacyOrder[i]] # "up"
        /\ \A j \in 1 .. i - 1 : legacy.box[LegacyOrder[j]] = "up"

\* _run_exact_compose_service: the next service in the order is created and
\* becomes healthy; PostgreSQL must have the schema of the retirement.
ReactivateStarts ==
    /\ AtStep("start")
    /\ IF \A s \in LegacyServices : legacy.box[s] = "up"
       THEN GoTo("answer") /\ UNCHANGED legacy
       ELSE LET i == NextToStart
            IN IF i > 1 => SchemaHeadIs("source")
               THEN /\ legacy' = [legacy EXCEPT !.box[LegacyOrder[i]] = "up",
                                                !.net = TRUE, !.gen = 2]
                    /\ UNCHANGED holder
               ELSE Fail /\ UNCHANGED legacy
    /\ UNCHANGED <<state, tx, target, units, schema, host, mishaps, invoked>>

\* Binding, host, ports and the edge are verified once more.
ReactivateAnswers ==
    /\ AtStep("answer")
    /\ IF ReleaseStateBound /\ HostAsBaseline /\ EdgePortsAvailable /\ EdgeReady
       THEN holder' = LockFree ELSE Fail
    /\ UNCHANGED <<state, tx, legacy, target, units, schema, host, mishaps, invoked>>

\* The operator runs reactivate with the abort receipt at hand.
ReactivateByHand ==
    /\ holder = LockFree /\ tx.abort = "final"
    /\ holder' = [LockFree EXCEPT !.cmd = "reactivate", !.at = "reactivate",
                           !.authority = TRUE]
    /\ UNCHANGED <<state, tx, legacy, target, units, schema, host, mishaps, invoked>>

ReactivateNext ==
    ReactivateBegins \/ ReactivateStarts \/ ReactivateAnswers \/ ReactivateByHand
=============================================================================
