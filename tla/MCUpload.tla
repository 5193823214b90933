------------------------------ MODULE MCUpload ------------------------------
(* Upload sessions on small instances: "s" is a single PUT, "m" a multipart
   upload; both reserve the same daily and lifetime limits. *)
EXTENDS UploadLifecycle, TLC

MCLimit == [k \in LimitKeys |-> IF k \in DailyKeys THEN 1 ELSE 2]
MCAmount == [u \in Uploads |-> [k \in UploadKeys |-> 1]]
Symmetry == Permutations(Requests)
==============================================================================
