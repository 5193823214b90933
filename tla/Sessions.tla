------------------------------ MODULE Sessions ------------------------------
(***************************************************************************)
(* Accounts as authentication sees them and the refresh_tokens rows of     *)
(* app/api/v1/routes/auth.py.  A refresh token is a signed claim (user,    *)
(* token id, token_version) and a row; a login starts a family of tokens   *)
(* in which every refresh replaces one token by the next.  An access token *)
(* is only the claim (user, token_version), with no row.                   *)
(*                                                                         *)
(* refresh and logout lock the user row first and are one step each.       *)
(* login reads the account, spends its time on the password and inserts    *)
(* the row without a row lock: two steps, under the shared side of the     *)
(* user's activity lock.  Handlers that take the exclusive side (password, *)
(* status, roles, retirement) wait until no login of the user is under way.*)
(***************************************************************************)
EXTENDS Integers, FiniteSets

CONSTANTS
    Users,          \* account ids
    MaxTokens,      \* bound: refresh tokens issued
    NoToken,        \* no such row
    NoLogin         \* no login of the user under way

Tokens == 1..MaxTokens      \* token ids; a family bears that of its first token
Status == {"ABSENT", "ACTIVE", "LOCKED", "DISABLED"}
AccountRow == [status : Status, retired : BOOLEAN, version : Nat, password : Nat]
TokenRow == [user : Users, family : Tokens, version : Nat,
             revoked : BOOLEAN, reuse : BOOLEAN, expired : BOOLEAN]

ASSUME SessionAssumption ==
    /\ MaxTokens \in Nat
    /\ NoToken \notin TokenRow
    /\ NoLogin \notin Nat

VARIABLES
    account,        \* users: status, retired_at, token_version, password_hash
    token,          \* refresh_tokens rows and whether the JWT has expired
    login,          \* token_version read by the login under way, or NoLogin
    presented,      \* history: times each token was presented to refresh (0..2)
    reuses          \* history: times each family was reported as reused

sessionVars == <<account, token, login, presented, reuses>>


-----------------------------------------------------------------------------
Active(u) == account[u].status = "ACTIVE" /\ ~account[u].retired

Issued(t) == token[t] # NoToken
Fresh(t) == ~Issued(t) /\ \A s \in Tokens : s < t => Issued(s)
Kin(t, s) == Issued(s) /\ token[s].family = token[t].family /\ token[s].user = token[t].user

(* A token refresh would accept. *)
Live(t) ==
    /\ Issued(t) /\ ~token[t].revoked /\ ~token[t].expired
    /\ Active(token[t].user)
    /\ token[t].version = account[token[t].user].version

(* _pair: the row of a new token, with the version its JWT claims. *)
NewToken(u, f, v) == [user |-> u, family |-> f, version |-> v,
                      revoked |-> FALSE, reuse |-> FALSE, expired |-> FALSE]

(* Every token_version bump ends what was issued before it. *)
BumpVersion(u) == [account EXCEPT ![u].version = @ + 1]

(* UPDATE refresh_tokens SET revoked_at ... WHERE user_id = u. *)
RevokeAll(u) ==
    [t \in Tokens |-> IF Issued(t) /\ token[t].user = u
                      THEN [token[t] EXCEPT !.revoked = TRUE] ELSE token[t]]

-----------------------------------------------------------------------------
(* login: the account is active and the password matches. *)
LoginRead(u) ==
    /\ login[u] = NoLogin /\ Active(u)
    /\ login' = [login EXCEPT ![u] = account[u].version]
    /\ UNCHANGED <<account, token, presented, reuses>>

(* login: the pair is issued and its row committed. *)
LoginCommit(u, t) ==
    /\ login[u] # NoLogin /\ Fresh(t)
    /\ token' = [token EXCEPT ![t] = NewToken(u, t, login[u])]
    /\ login' = [login EXCEPT ![u] = NoLogin]
    /\ UNCHANGED <<account, presented, reuses>>

(* Connection lost, lock timeout, process gone: nothing was committed. *)
LoginFail(u) ==
    /\ login[u] # NoLogin
    /\ login' = [login EXCEPT ![u] = NoLogin]
    /\ UNCHANGED <<account, token, presented, reuses>>

Present(t) ==
    presented' = [presented EXCEPT ![t] = IF @ < 2 THEN @ + 1 ELSE @]

(* Reuse: the whole family is revoked and marked. *)
Report(t) ==
    [s \in Tokens |-> IF Kin(t, s)
                      THEN [token[s] EXCEPT !.revoked = TRUE, !.reuse = TRUE]
                      ELSE token[s]]

(* Slip: a token that was rotated away is refused, and nothing else. *)
SlipRefreshReused(t) ==
    /\ Issued(t) /\ ~token[t].expired /\ token[t].revoked
    /\ Present(t)
    /\ UNCHANGED <<account, token, login, reuses>>

(* refresh: a revoked token is presented.  The first report of a family
   revokes it and ends every session of the user; a later one only fails. *)
RefreshReused(t) ==
    /\ Issued(t) /\ ~token[t].expired /\ token[t].revoked
    /\ Present(t)
    /\ IF token[t].reuse
       THEN UNCHANGED <<account, token, reuses>>
       ELSE /\ token' = Report(t)
            /\ account' = BumpVersion(token[t].user)
            /\ reuses' = [reuses EXCEPT ![token[t].family] = @ + 1]
    /\ UNCHANGED login

(* refresh: the account is closed or its version has moved on. *)
RefreshInvalid(t) ==
    /\ Issued(t) /\ ~token[t].expired /\ ~token[t].revoked /\ ~Live(t)
    /\ Present(t)
    /\ UNCHANGED <<account, token, login, reuses>>

(* Slip: a token is refused only while its family has a newer live one. *)
SlipRotateRevoked(t, n) ==
    /\ Issued(t) /\ ~token[t].expired /\ Active(token[t].user) /\ Fresh(n)
    /\ \A s \in Tokens : Kin(t, s) /\ Live(s) => s = t
    /\ token[t].version = account[token[t].user].version
    /\ Present(t)
    /\ token' = [token EXCEPT ![t].revoked = TRUE,
                              ![n] = NewToken(token[t].user, token[t].family,
                                              account[token[t].user].version)]
    /\ UNCHANGED <<account, login, reuses>>

(* refresh: the token is replaced by the next one of its family. *)
RefreshRotate(t, n) ==
    /\ Live(t) /\ Fresh(n)
    /\ Present(t)
    /\ token' = [token EXCEPT ![t].revoked = TRUE,
                              ![n] = NewToken(token[t].user, token[t].family,
                                              account[token[t].user].version)]
    /\ UNCHANGED <<account, login, reuses>>

Refresh(t) ==
    \/ RefreshReused(t)
    \/ RefreshInvalid(t)
    \/ \E n \in Tokens : RefreshRotate(t, n)

(* logout: the family of the presented token is revoked, not reported. *)
Logout(t) ==
    /\ Issued(t) /\ ~token[t].expired
    /\ token' = [s \in Tokens |-> IF Kin(t, s) THEN [token[s] EXCEPT !.revoked = TRUE]
                                  ELSE token[s]]
    /\ UNCHANGED <<account, login, presented, reuses>>

(* The lifetime of the JWT is over; decode refuses it from now on. *)
Expire(t) ==
    /\ Issued(t) /\ ~token[t].expired
    /\ token' = [token EXCEPT ![t].expired = TRUE]
    /\ UNCHANGED <<account, login, presented, reuses>>

SessionStep ==
    \/ \E u \in Users : LoginRead(u) \/ LoginFail(u)
    \/ \E u \in Users, t \in Tokens : LoginCommit(u, t)
    \/ \E t \in Tokens : Refresh(t) \/ Logout(t) \/ Expire(t)

-----------------------------------------------------------------------------
(* What account administration does to sessions.  The first writes a status
   or new roles and bumps the version; the others also revoke the rows. *)
Quiet(u) == login[u] = NoLogin

Enrol(u) ==
    /\ account[u].status = "ABSENT"
    /\ account' = [account EXCEPT ![u] = [status |-> "ACTIVE", retired |-> FALSE,
                                          version |-> 0, password |-> 0]]
    /\ UNCHANGED <<token, login, presented, reuses>>

EndSessions(u, s) ==
    /\ Quiet(u)
    /\ account[u].retired => s = account[u].status
    /\ account' = [account EXCEPT ![u].status = s, ![u].version = @ + 1]
    /\ UNCHANGED <<token, login, presented, reuses>>

ReplacePassword(u) ==
    /\ Quiet(u) /\ ~account[u].retired
    /\ account' = [account EXCEPT ![u].password = @ + 1, ![u].version = @ + 1]
    /\ token' = RevokeAll(u)
    /\ UNCHANGED <<login, presented, reuses>>

RetireAccount(u) ==
    /\ Quiet(u)
    /\ account' = [account EXCEPT ![u].status = "DISABLED", ![u].retired = TRUE,
                                  ![u].version = @ + 1]
    /\ token' = RevokeAll(u)
    /\ UNCHANGED <<login, presented, reuses>>

Administer ==
    \E u \in Users :
        \/ Enrol(u)
        \/ /\ account[u].status # "ABSENT"
           /\ \/ \E s \in Status \ {"ABSENT"} : EndSessions(u, s)
              \/ ReplacePassword(u)
              \/ RetireAccount(u)

SessionInit ==
    /\ \E S \in SUBSET Users :
          account = [u \in Users |->
              [status |-> IF u \in S THEN "ACTIVE" ELSE "ABSENT",
               retired |-> FALSE, version |-> 0, password |-> 0]]
    /\ token = [t \in Tokens |-> NoToken]
    /\ login = [u \in Users |-> NoLogin]
    /\ presented = [t \in Tokens |-> 0]
    /\ reuses = [t \in Tokens |-> 0]

SessionSpec == SessionInit /\ [][SessionStep \/ Administer]_sessionVars

-----------------------------------------------------------------------------
(* The rows have the shape app/db/models.py gives them. *)
SessionTypeOK ==
    /\ account \in [Users -> AccountRow]
    /\ token \in [Tokens -> TokenRow \cup {NoToken}]
    /\ login \in [Users -> Nat \cup {NoLogin}]
    /\ presented \in [Tokens -> 0..2]
    /\ reuses \in [Tokens -> Nat]

(* However refreshes, logins, logouts and administration interleave, at most
   one token of a family can be exchanged for a new pair. *)
OneLiveToken ==
    \A t, s \in Tokens :
        Live(t) /\ Live(s) /\ token[t].family = token[s].family => t = s

(* A refresh token used twice, by a thief and its owner or by a client whose
   first answer was lost, leaves nobody with a session of that family. *)
ReuseEndsFamily ==
    \A t \in Tokens : presented[t] = 2 => ~\E s \in Tokens : Kin(t, s) /\ Live(s)

(* A family that was reported ends the sessions of its user once: its old
   tokens cannot be replayed to sign the user out again and again. *)
ReportedOnce == \A f \in Tokens : reuses[f] <= 1

(* POST /auth/refresh keeps its promise about families of tokens: one heir at a
   time, none once a token was used twice, and one alarm for each family. *)
TokenFamilies == OneLiveToken /\ ReuseEndsFamily /\ ReportedOnce

(* The refinement: a family is a session of SessionLife, open while one of
   its tokens is live. *)
Phase(f) ==
    IF ~\E t \in Tokens : Issued(t) /\ token[t].family = f THEN "none"
    ELSE IF \E t \in Tokens : Live(t) /\ token[t].family = f THEN "open"
    ELSE "closed"

Life == INSTANCE SessionLife WITH Families <- Tokens,
                                  session <- [f \in Tokens |-> Phase(f)]

(* Sessions behave as SessionLife says: what has ended, by logout, reuse,
   password change, status, roles, retirement or expiry, never comes back. *)
LifeSpec == Life!Spec
==============================================================================
