----------------------------- MODULE MCAdoption -----------------------------
(***************************************************************************)
(* Three instances in one.  Two planned preparation runs and one drill:    *)
(* the challenge of one run can meet the archive of the other.  One        *)
(* planned run and two drills: both target its output directory (drills of *)
(* different runs share nothing).  Two commands at once on the server:     *)
(* prepares that overlap, or a finalize beside another command, with one   *)
(* drill before or after them, good escrows and no I/O faults.  Runs, drills *)
(* and commands are interchangeable.                                       *)
(***************************************************************************)
EXTENDS LegacyAdoption

CONSTANTS r1, r2, d1, d2, c1, c2

MCRuns == {r1, r2}
MCDrills == {d1, d2}
MCCommands == {c1, c2}
MCSymmetry ==
    Permutations(MCDrills) \cup Permutations(MCRuns) \cup Permutations(MCCommands)

Planned == {r \in Runs : plan[r] # NoPlan}
Started == {d \in Drills : drill[d].pc # "idle"}

\* Two runs, or two drills, or two commands.
MCConstraint ==
    /\ Planned = Runs => Started # Drills
    /\ Busy = Commands \/ shared # {} =>
          /\ Started # Drills /\ io = 0
          /\ \A r \in Runs : media[r].archive \in {"none", "good"}
    /\ Busy = Commands => \A d \in Started : drill[d].pc = "done"
=============================================================================
