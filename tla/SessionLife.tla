----------------------------- MODULE SessionLife -----------------------------
(***************************************************************************)
(* What a signed-in session promises, whatever tokens and rows implement   *)
(* it: a session starts once, may end at any moment, alone or together     *)
(* with others, and once ended it is over for good.                        *)
(***************************************************************************)
CONSTANT Families   \* sessions, one per successful login

VARIABLE session    \* what each session is: "none", "open" or "closed"

Init == session = [f \in Families |-> "none"]

(* A login opens a session; when the account changes under the login, the
   session is over before its tokens reach the client. *)
Start(f) ==
    /\ session[f] = "none"
    /\ \E s \in {"open", "closed"} : session' = [session EXCEPT ![f] = s]

(* Logout, reuse, password change, retirement, expiry: some sessions end. *)
End(F) ==
    /\ \A f \in F : session[f] = "open"
    /\ session' = [f \in Families |-> IF f \in F THEN "closed" ELSE session[f]]

Next == (\E f \in Families : Start(f)) \/ (\E F \in SUBSET Families : End(F))

Spec == Init /\ [][Next]_session
==============================================================================
