---------------------------- MODULE DataHandover ----------------------------
(***************************************************************************)
(* What a cut-over promises about the data: one PostgreSQL at a time has   *)
(* the data directory open; the migration is announced before it runs; the *)
(* target opens the data only once it is announced; and from then on the   *)
(* legacy release never opens it again.                                    *)
(***************************************************************************)
EXTENDS Naturals, FiniteSets

CONSTANTS LegacyStack, TargetStack

VARIABLES users,      \* stacks that have the data directory open
          announced,  \* the migration is announced
          schema      \* head of the schema

data == <<users, announced, schema>>

DataInit == users = {LegacyStack} /\ announced = FALSE /\ schema = "source"

Close == users' = {} /\ UNCHANGED <<announced, schema>>

OpenLegacy ==
    /\ users = {} /\ ~announced /\ schema = "source"
    /\ users' = {LegacyStack} /\ UNCHANGED <<announced, schema>>

\* Announced while nobody has the data open, or again by a resumed install.
Announce ==
    /\ LegacyStack \notin users
    /\ announced' = TRUE /\ UNCHANGED <<users, schema>>

OpenTarget ==
    /\ announced /\ LegacyStack \notin users
    /\ users' = {TargetStack} /\ UNCHANGED announced
    /\ schema' \in {schema, "target"}

DataNext == Close \/ OpenLegacy \/ Announce \/ OpenTarget

DataSpec == DataInit /\ [][DataNext]_data
=============================================================================
