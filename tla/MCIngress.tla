----------------------------- MODULE MCIngress -----------------------------
(* Two requests, both admissible at once; bounds for TLC.                  *)
EXTENDS ChatIngress
=============================================================================
