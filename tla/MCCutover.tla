------------------------------ MODULE MCCutover ------------------------------
(* One legacy and one target release of three services each; MaxMishaps kills,
   power losses, failing steps and host faults, in any order. *)
EXTENDS OfflineCutover
=============================================================================
