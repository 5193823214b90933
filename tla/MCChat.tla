------------------------------- MODULE MCChat -------------------------------
(* Chat requests with one idempotency key on a small instance.  Bodies and    *)
(* models are interchangeable: no fairness condition and no property names    *)
(* one, so that permuting them keeps both the steps a behaviour takes and     *)
(* what the temporal property says of it.  Requests are not permuted: the     *)
(* fairness of each is assumed on its own.                                    *)
EXTENDS ChatReplay, TLC

Interchangeable == Permutations(Bodies) \cup Permutations(Models)
==============================================================================
