--------------------------- MODULE AccountsProofs ---------------------------
(***************************************************************************)
(* Sessions, accounts and API keys, for every set of users, roles, keys,   *)
(* requests and tokens.                                                    *)
(*                                                                         *)
(* The sessions are proved on their own specification; AccountSpec is then *)
(* shown to implement it, so that what holds of the tokens holds whatever  *)
(* the administration handlers do.                                         *)
(***************************************************************************)
EXTENDS Accounts, WellFoundedInduction, TLAPS

-----------------------------------------------------------------------------
(* Types                                                                   *)

(* What a handler may set in a row of refresh_tokens. *)
LEMMA TokenRowUpdates ==
    ASSUME NEW row \in TokenRow
    PROVE  /\ [row EXCEPT !.revoked = TRUE] \in TokenRow
           /\ [row EXCEPT !.expired = TRUE] \in TokenRow
           /\ [row EXCEPT !.revoked = TRUE, !.reuse = TRUE] \in TokenRow
           /\ row # NoToken
BY SessionAssumption DEF TokenRow

(* What it leaves alone in the row. *)
LEMMA TokenRowKeeps ==
    ASSUME NEW row \in TokenRow, NEW new,
           \/ new = row
           \/ new = [row EXCEPT !.revoked = TRUE]
           \/ new = [row EXCEPT !.expired = TRUE]
           \/ new = [row EXCEPT !.revoked = TRUE, !.reuse = TRUE]
    PROVE  /\ new.user = row.user /\ new.family = row.family
           /\ new.version = row.version
           /\ row.revoked => new.revoked
           /\ row.expired => new.expired
<1>1. CASE new = row
  BY <1>1
<1>2. CASE new = [row EXCEPT !.revoked = TRUE]
  BY <1>2 DEF TokenRow
<1>3. CASE new = [row EXCEPT !.expired = TRUE]
  BY <1>3 DEF TokenRow
<1>4. CASE new = [row EXCEPT !.revoked = TRUE, !.reuse = TRUE]
  BY <1>4 DEF TokenRow
<1> QED
  BY <1>1, <1>2, <1>3, <1>4

(* What a handler may set in a row of users. *)
LEMMA AccountRowUpdates ==
    ASSUME NEW row \in AccountRow
    PROVE  /\ [row EXCEPT !.version = @ + 1] \in AccountRow
           /\ \A s \in Status : [row EXCEPT !.status = s, !.version = @ + 1] \in AccountRow
           /\ [row EXCEPT !.password = @ + 1, !.version = @ + 1] \in AccountRow
           /\ [row EXCEPT !.status = "DISABLED", !.retired = TRUE,
                          !.version = @ + 1] \in AccountRow
<1>1. row.version + 1 \in Nat /\ row.password + 1 \in Nat
  BY DEF AccountRow
<1>2. \A v \in Nat, s \in Status :
         /\ [row EXCEPT !.version = v] \in AccountRow
         /\ [row EXCEPT !.status = s, !.version = v] \in AccountRow
  BY DEF AccountRow
<1>3. \A v, w \in Nat : [row EXCEPT !.password = w, !.version = v] \in AccountRow
  BY DEF AccountRow
<1>4. \A v \in Nat : [row EXCEPT !.status = "DISABLED", !.retired = TRUE,
                                 !.version = v] \in AccountRow
  BY DEF AccountRow, Status
<1>5. "ACTIVE" \in Status
  BY DEF Status
<1> QED
  BY <1>1, <1>2, <1>3, <1>4, <1>5

(* The rows of refresh_tokens and users stay well formed. *)
LEMMA SessionTypeInductive ==
    SessionTypeOK /\ [SessionStep \/ Administer]_sessionVars => SessionTypeOK'
<1> SUFFICES ASSUME SessionTypeOK, [SessionStep \/ Administer]_sessionVars
             PROVE  SessionTypeOK'
  OBVIOUS
<1> USE SessionAssumption DEF SessionTypeOK
<1>0. /\ \A t \in Tokens : Issued(t) => token[t] \in TokenRow
      /\ \A u \in Users : account[u] \in AccountRow
  BY DEF Issued
<1>a. ASSUME NEW t \in Tokens, Present(t)
      PROVE  presented' \in [Tokens -> 0..2]
  BY <1>a DEF Present
<1>1. ASSUME NEW u \in Users, LoginRead(u) \/ LoginFail(u)
      PROVE  SessionTypeOK'
  BY <1>1 DEF LoginRead, LoginFail, AccountRow
<1>2. ASSUME NEW u \in Users, NEW t \in Tokens, LoginCommit(u, t)
      PROVE  SessionTypeOK'
  <2>1. NewToken(u, t, login[u]) \in TokenRow
    BY <1>2 DEF LoginCommit, NewToken, TokenRow
  <2> QED
    BY <1>2, <2>1 DEF LoginCommit
<1>3. ASSUME NEW t \in Tokens, RefreshReused(t)
      PROVE  SessionTypeOK'
  <2>1. /\ token[t].user \in Users /\ token[t].family \in Tokens
    BY <1>3, <1>0 DEF RefreshReused, TokenRow
  <2>2. Report(t) \in [Tokens -> TokenRow \cup {NoToken}]
    BY <1>0, TokenRowUpdates DEF Report, Kin
  <2>3. BumpVersion(token[t].user) \in [Users -> AccountRow]
    BY <1>0, <2>1, AccountRowUpdates DEF BumpVersion
  <2> QED
    BY <1>3, <1>a, <2>1, <2>2, <2>3 DEF RefreshReused
<1>4. ASSUME NEW t \in Tokens, RefreshInvalid(t)
      PROVE  SessionTypeOK'
  BY <1>4, <1>a DEF RefreshInvalid
<1>5. ASSUME NEW t \in Tokens, NEW n \in Tokens, RefreshRotate(t, n)
      PROVE  SessionTypeOK'
  <2>1. token[t] \in TokenRow /\ token[t].user \in Users /\ token[t].family \in Tokens
    BY <1>5, <1>0 DEF RefreshRotate, Live, TokenRow
  <2>2. NewToken(token[t].user, token[t].family, account[token[t].user].version) \in TokenRow
    BY <2>1, <1>0 DEF NewToken, TokenRow, AccountRow
  <2>3. token' \in [Tokens -> TokenRow \cup {NoToken}]
    BY <1>5, <2>1, <2>2, TokenRowUpdates DEF RefreshRotate, Fresh, Issued, Live
  <2> QED
    BY <1>5, <1>a, <2>3 DEF RefreshRotate
<1>6. ASSUME NEW t \in Tokens, Logout(t) \/ Expire(t)
      PROVE  SessionTypeOK'
  <2>1. token' \in [Tokens -> TokenRow \cup {NoToken}]
    BY <1>6, <1>0, TokenRowUpdates DEF Logout, Expire, Kin
  <2> QED
    BY <1>6, <2>1 DEF Logout, Expire
<1>7. ASSUME NEW u \in Users, Enrol(u)
      PROVE  SessionTypeOK'
  BY <1>7 DEF Enrol, Status, AccountRow
<1>8. ASSUME NEW u \in Users, NEW s \in Status, EndSessions(u, s)
      PROVE  SessionTypeOK'
  BY <1>8, <1>0, AccountRowUpdates DEF EndSessions
<1>9. ASSUME NEW u \in Users, ReplacePassword(u) \/ RetireAccount(u)
      PROVE  SessionTypeOK'
  <2>1. RevokeAll(u) \in [Tokens -> TokenRow \cup {NoToken}]
    BY <1>0, TokenRowUpdates DEF RevokeAll
  <2>2. \/ account' = [account EXCEPT ![u] =
                 [account[u] EXCEPT !.password = @ + 1, !.version = @ + 1]]
        \/ account' = [account EXCEPT ![u] =
                 [account[u] EXCEPT !.status = "DISABLED", !.retired = TRUE, !.version = @ + 1]]
    BY <1>9 DEF ReplacePassword, RetireAccount
  <2>3. \E row \in AccountRow : account' = [account EXCEPT ![u] = row]
    BY <2>2, <1>0, AccountRowUpdates
  <2>4. account' \in [Users -> AccountRow]
    BY <2>3
  <2> QED
    BY <1>9, <2>1, <2>4 DEF ReplacePassword, RetireAccount
<1>10. CASE UNCHANGED sessionVars
  BY <1>10 DEF sessionVars
<1> QED
  BY <1>1, <1>2, <1>3, <1>4, <1>5, <1>6, <1>7, <1>8, <1>9, <1>10
     DEF SessionStep, Administer, Refresh

(* Init has the types. *)
LEMMA SessionTypeInit == SessionInit => SessionTypeOK
BY SessionAssumption DEF SessionInit, SessionTypeOK, AccountRow, Tokens, Status


-----------------------------------------------------------------------------
(* The rows of a family                                                    *)

(* Tokens are issued in order; a family bears the id of its first token and
   has one user. *)
Rooted ==
    \A t \in Tokens : Issued(t) =>
        /\ \A s \in Tokens : s < t => Issued(s)
        /\ token[t].family <= t
        /\ token[token[t].family].user = token[t].user

(* A token claims a version its account has had, and claims the one in force
   only while the account is active; a login has read such a version. *)
Current(t) ==
    LET u == token[t].user
    IN  /\ account[u].status # "ABSENT"
        /\ token[t].version <= account[u].version
        /\ token[t].version = account[u].version => Active(u)

Versioned ==
    /\ \A t \in Tokens : Issued(t) => Current(t)
    /\ \A u \in Users : login[u] # NoLogin => Active(u) /\ login[u] <= account[u].version

(* At most one token of a family is not revoked. *)
OneHeir ==
    \A t, s \in Tokens :
        /\ Issued(t) /\ ~token[t].revoked
        /\ Issued(s) /\ ~token[s].revoked
        /\ token[t].family = token[s].family
        => t = s

(* Reuse is marked on whole families, and only on revoked tokens. *)
Marked ==
    \A t \in Tokens : Issued(t) /\ token[t].reuse =>
        /\ token[t].revoked
        /\ \A s \in Tokens : Issued(s) /\ token[s].family = token[t].family
                                => token[s].reuse

(* A token that was presented is not accepted again, and one that was
   presented twice has ended its family. *)
Spent ==
    \A t \in Tokens : presented[t] > 0 =>
        /\ Issued(t)
        /\ token[t].revoked \/ token[t].version < account[token[t].user].version
        /\ presented[t] = 2 => \A s \in Tokens :
              Issued(s) /\ token[s].family = token[t].family => ~Live(s)

(* A family is reported once, and is marked from then on. *)
Alarmed ==
    \A f \in Tokens : reuses[f] > 0 =>
        /\ reuses[f] = 1 /\ Issued(f)
        /\ \A t \in Tokens : Issued(t) /\ token[t].family = f => token[t].reuse

SessionInv ==
    SessionTypeOK /\ Rooted /\ Versioned /\ OneHeir /\ Marked /\ Spent /\ Alarmed

(* What every handler does but a login and a rotation: it issues nothing,
   takes back nothing it has revoked, and a change of an account's standing
   moves its version on. *)
Aging ==
    /\ \A t \in Tokens : Issued(t)' <=> Issued(t)
    /\ \A t \in Tokens : Issued(t) =>
          /\ token'[t].user = token[t].user
          /\ token'[t].family = token[t].family
          /\ token'[t].version = token[t].version
          /\ token[t].revoked => token'[t].revoked
          /\ token[t].expired => token'[t].expired
    /\ \A u \in Users : account[u].status # "ABSENT" =>
          /\ account'[u].status # "ABSENT"
          /\ account'[u].version >= account[u].version
          /\ account'[u].version = account[u].version => (Active(u)' <=> Active(u))

(* The fields of an issued token. *)
LEMMA TokenFields ==
    ASSUME SessionTypeOK, NEW t \in Tokens, Issued(t)
    PROVE  /\ token[t].user \in Users /\ token[t].family \in Tokens
           /\ token[t].version \in Nat
BY DEF SessionTypeOK, Issued, TokenRow

(* Versions are numbers. *)
LEMMA VersionType ==
    ASSUME SessionTypeOK, NEW u \in Users
    PROVE  account[u].version \in Nat /\ account[u].password \in Nat
BY DEF SessionTypeOK, AccountRow

(* Under Aging no token becomes acceptable. *)
LEMMA AgingLive ==
    ASSUME SessionInv, SessionTypeOK', Aging, NEW t \in Tokens, Live(t)'
    PROVE  Live(t)
<1>1. Issued(t) /\ token[t].user \in Users
  BY TokenFields DEF Aging, Live, SessionInv
<1>2. ~token[t].revoked /\ ~token[t].expired
  BY <1>1 DEF Aging, Live
<1>3. /\ token[t].version \in Nat
      /\ account[token[t].user].version \in Nat
      /\ account'[token[t].user].version \in Nat
  BY <1>1, TokenFields, VersionType DEF SessionInv, SessionTypeOK, AccountRow
<1>4. /\ account[token[t].user].status # "ABSENT"
      /\ token[t].version <= account[token[t].user].version
  BY <1>1 DEF SessionInv, Versioned, Current
<1>5. account'[token[t].user].version = token[t].version
  BY <1>1 DEF Aging, Live
<1>6. account[token[t].user].version = token[t].version
  BY <1>1, <1>3, <1>4, <1>5 DEF Aging
<1>7. Active(token[t].user)
  BY <1>1, <1>6 DEF SessionInv, Versioned, Current
<1> QED
  BY <1>1, <1>2, <1>6, <1>7 DEF Live

(* Aging keeps what SessionInv says of families and versions; that a login
   has read a version it may use is left to the handlers. *)
LEMMA AgingKeeps ==
    ASSUME SessionInv, SessionTypeOK', Aging
    PROVE  /\ Rooted' /\ OneHeir'
           /\ \A t \in Tokens : Issued(t)' => Current(t)'
<1> USE DEF SessionInv
<1>1. Rooted'
  <2> SUFFICES ASSUME NEW t \in Tokens, Issued(t)'
               PROVE  /\ \A s \in Tokens : s < t => Issued(s)'
                      /\ token'[t].family <= t
                      /\ token'[token'[t].family].user = token'[t].user
    BY DEF Rooted
  <2>1. Issued(t) /\ token[t].family \in Tokens
    BY TokenFields DEF Aging
  <2>2. \A s \in Tokens : s < t => Issued(s)
    BY <2>1 DEF Rooted
  <2>3. token[t].family <= t /\ token[token[t].family].user = token[t].user
    BY <2>1 DEF Rooted
  <2>4. Issued(token[t].family)
    BY <2>1, <2>2, <2>3 DEF Tokens
  <2> QED
    BY <2>1, <2>2, <2>3, <2>4 DEF Aging
<1>2. OneHeir'
  BY DEF OneHeir, Aging
<1>3. ASSUME NEW t \in Tokens, Issued(t)'
      PROVE  Current(t)'
  <2> DEFINE u == token[t].user
  <2>1. Issued(t) /\ u \in Users /\ token'[t].user = u
        /\ token'[t].version = token[t].version
    BY <1>3, TokenFields DEF Aging
  <2>2. /\ account[u].status # "ABSENT"
        /\ token[t].version <= account[u].version
        /\ token[t].version = account[u].version => Active(u)
    BY <2>1 DEF Versioned, Current
  <2>3. /\ account'[u].status # "ABSENT"
        /\ account'[u].version >= account[u].version
        /\ account'[u].version = account[u].version => (Active(u)' <=> Active(u))
    BY <2>1, <2>2 DEF Aging
  <2>4. token[t].version \in Nat /\ account[u].version \in Nat /\ account'[u].version \in Nat
    BY <2>1, TokenFields, VersionType DEF SessionTypeOK, AccountRow
  <2>5. token[t].version <= account'[u].version
    BY <2>2, <2>3, <2>4
  <2>6. token[t].version = account'[u].version => Active(u)'
    BY <2>2, <2>3, <2>4
  <2> QED
    BY <2>1, <2>3, <2>5, <2>6 DEF Current, Active
<1> QED
  BY <1>1, <1>2, <1>3

(* Aging keeps what was spent and what was marked, as long as no mark is
   added. *)
ReuseKept == \A t \in Tokens : Issued(t) => token'[t].reuse = token[t].reuse

LEMMA AgingSpent ==
    ASSUME SessionInv, SessionTypeOK', Aging, NEW t \in Tokens, presented[t] > 0
    PROVE  /\ Issued(t)'
           /\ (token[t].revoked \/ token[t].version < account[token[t].user].version)'
           /\ presented[t] = 2 => \A s \in Tokens :
                 (Issued(s) /\ token[s].family = token[t].family => ~Live(s))'
<1> USE DEF SessionInv
<1>1. Issued(t) /\ token[t].user \in Users
  BY TokenFields DEF Spent
<1>2. token[t].version \in Nat /\ account[token[t].user].version \in Nat
      /\ account'[token[t].user].version \in Nat
  BY <1>1, TokenFields, VersionType DEF SessionTypeOK, AccountRow
<1>3. account[token[t].user].status # "ABSENT"
  BY <1>1 DEF Versioned, Current
<1>4. token[t].revoked \/ token[t].version < account[token[t].user].version
  BY DEF Spent
<1>5. (token[t].revoked \/ token[t].version < account[token[t].user].version)'
  BY <1>1, <1>2, <1>3, <1>4 DEF Aging
<1>6. ASSUME presented[t] = 2, NEW s \in Tokens,
             Issued(s)', token'[s].family = token'[t].family
      PROVE  ~Live(s)'
  <2>1. Issued(s) /\ token[s].family = token[t].family
    BY <1>1, <1>6 DEF Aging
  <2>2. ~Live(s)
    BY <1>6, <2>1 DEF Spent
  <2> QED
    BY <2>2, AgingLive
<1> QED
  BY <1>1, <1>5, <1>6 DEF Aging

(* Aging without a new mark keeps the marks and the alarms. *)
LEMMA AgingMarked ==
    ASSUME SessionInv, SessionTypeOK', Aging, ReuseKept
    PROVE  Marked' /\ (UNCHANGED reuses => Alarmed')
BY DEF SessionInv, Marked, Alarmed, Aging, ReuseKept

(* What a login has read stays usable while its account's standing and
   version are only moved on. *)
LoginsKept ==
    \A u \in Users : login'[u] # NoLogin => Active(u)' /\ login'[u] <= account'[u].version

(* A handler that ages the rows, presents no token and adds no mark. *)
LEMMA AgingStep ==
    ASSUME SessionInv, SessionTypeOK', Aging, ReuseKept, LoginsKept,
           UNCHANGED <<presented, reuses>>
    PROVE  SessionInv'
<1>1. Rooted' /\ OneHeir' /\ Versioned'
  BY AgingKeeps DEF Versioned, LoginsKept
<1>2. Marked' /\ Alarmed'
  BY AgingMarked
<1>3. Spent'
  BY AgingSpent DEF Spent
<1> QED
  BY <1>1, <1>2, <1>3 DEF SessionInv

-----------------------------------------------------------------------------
(* The handlers                                                            *)

(* LoginRead, LoginFail: no row changes. *)
LEMMA LoginKeeps ==
    ASSUME SessionInv, SessionTypeOK', NEW u \in Users, LoginRead(u) \/ LoginFail(u)
    PROVE  SessionInv' /\ Aging
<1> USE DEF SessionInv
<1>1. UNCHANGED <<account, token, presented, reuses>>
  BY DEF LoginRead, LoginFail
<1>2. account[u].version \in Nat
  BY VersionType
<1>3. Aging
  BY <1>1, VersionType DEF Aging, Issued, Active
<1>4. ReuseKept
  BY <1>1 DEF ReuseKept
<1>5. LoginsKept
  BY <1>1, <1>2 DEF LoginsKept, LoginRead, LoginFail, Versioned, Active, SessionTypeOK
<1> QED
  BY <1>1, <1>3, <1>4, <1>5, AgingStep

(* logout and the expiry of a token: rows are revoked or expire. *)
LEMMA LogoutKeeps ==
    ASSUME SessionInv, SessionTypeOK', NEW t \in Tokens, Logout(t) \/ Expire(t)
    PROVE  SessionInv' /\ Aging
<1> USE DEF SessionInv
<1>1. UNCHANGED <<account, login, presented, reuses>>
  BY DEF Logout, Expire
<1>2. \A s \in Tokens :
         \/ token'[s] = token[s]
         \/ Issued(s) /\ token'[s] = [token[s] EXCEPT !.revoked = TRUE]
         \/ Issued(s) /\ token'[s] = [token[s] EXCEPT !.expired = TRUE]
  BY DEF Logout, Expire, Kin, SessionTypeOK
<1>3. \A s \in Tokens : Issued(s) => token[s] \in TokenRow
  BY DEF SessionTypeOK, Issued
<1>4. Aging
  <2>1. \A s \in Tokens : Issued(s)' <=> Issued(s)
    BY <1>2, <1>3, TokenRowUpdates, SessionAssumption DEF Issued
  <2>2. \A s \in Tokens : Issued(s) =>
          /\ token'[s].user = token[s].user
          /\ token'[s].family = token[s].family
          /\ token'[s].version = token[s].version
          /\ token[s].revoked => token'[s].revoked
          /\ token[s].expired => token'[s].expired
    BY <1>2, <1>3, TokenRowKeeps
  <2> QED
    BY <1>1, <2>1, <2>2, VersionType DEF Aging, Active
<1>5. ReuseKept
  BY <1>2, <1>3 DEF ReuseKept, TokenRow
<1>6. LoginsKept
  BY <1>1 DEF LoginsKept, Versioned, Active
<1> QED
  BY <1>1, <1>4, <1>5, <1>6, AgingStep

(* Enrol: an account nobody can have signed in to. *)
LEMMA EnrolKeeps ==
    ASSUME SessionInv, SessionTypeOK', NEW u \in Users, Enrol(u)
    PROVE  SessionInv' /\ Aging
<1> USE DEF SessionInv
<1>1. UNCHANGED <<token, login, presented, reuses>> /\ account[u].status = "ABSENT"
  BY DEF Enrol
<1>2. \A v \in Users : v # u => account'[v] = account[v]
  BY DEF Enrol, SessionTypeOK
<1>3. Aging
  BY <1>1, <1>2, VersionType DEF Aging, Issued, Active
<1>4. ReuseKept
  BY <1>1 DEF ReuseKept
<1>5. LoginsKept
  BY <1>1, <1>2 DEF LoginsKept, Versioned, Active
<1> QED
  BY <1>1, <1>3, <1>4, <1>5, AgingStep

(* Status, roles, password, retirement: under the exclusive activity lock, so
   no login is under way, and the version moves on. *)
LEMMA AdministrationKeeps ==
    ASSUME SessionInv, SessionTypeOK', NEW u \in Users,
           account[u].status # "ABSENT",
           \/ \E s \in Status \ {"ABSENT"} : EndSessions(u, s)
           \/ ReplacePassword(u)
           \/ RetireAccount(u)
    PROVE  SessionInv' /\ Aging
<1> USE DEF SessionInv
<1>1. UNCHANGED <<login, presented, reuses>> /\ login[u] = NoLogin
  BY DEF EndSessions, ReplacePassword, RetireAccount, Quiet
<1>2. \A v \in Users : v # u => account'[v] = account[v]
  BY DEF EndSessions, ReplacePassword, RetireAccount, SessionTypeOK
<1>a. account[u] \in AccountRow /\ account \in [Users -> AccountRow]
  BY DEF SessionTypeOK
<1>3. account'[u].version = account[u].version + 1 /\ account'[u].status # "ABSENT"
  <2>1. CASE \E s \in Status \ {"ABSENT"} : EndSessions(u, s)
    BY <1>a, <2>1 DEF EndSessions, AccountRow
  <2>2. CASE ReplacePassword(u)
    BY <1>a, <2>2 DEF ReplacePassword, AccountRow
  <2>3. CASE RetireAccount(u)
    BY <1>a, <2>3 DEF RetireAccount, AccountRow
  <2> QED
    BY <2>1, <2>2, <2>3
<1>5. \A t \in Tokens :
         \/ token'[t] = token[t]
         \/ Issued(t) /\ token'[t] = [token[t] EXCEPT !.revoked = TRUE]
  BY DEF EndSessions, ReplacePassword, RetireAccount, RevokeAll
<1>6. \A t \in Tokens : Issued(t) => token[t] \in TokenRow
  BY DEF SessionTypeOK, Issued
<1>7. Aging
  <2>1. \A t \in Tokens : Issued(t)' <=> Issued(t)
    BY <1>5, <1>6, TokenRowUpdates, SessionAssumption DEF Issued
  <2>2. \A t \in Tokens : Issued(t) =>
          /\ token'[t].user = token[t].user
          /\ token'[t].family = token[t].family
          /\ token'[t].version = token[t].version
          /\ token[t].revoked => token'[t].revoked
          /\ token[t].expired => token'[t].expired
    BY <1>5, <1>6, TokenRowKeeps
  <2>3. \A v \in Users : account[v].status # "ABSENT" =>
          /\ account'[v].status # "ABSENT"
          /\ account'[v].version >= account[v].version
          /\ account'[v].version = account[v].version => (Active(v)' <=> Active(v))
    BY <1>2, <1>3, VersionType DEF Active
  <2> QED
    BY <2>1, <2>2, <2>3 DEF Aging
<1>8. ReuseKept
  BY <1>5, <1>6 DEF ReuseKept, TokenRow
<1>9. LoginsKept
  BY <1>1, <1>2 DEF LoginsKept, Versioned, Active
<1> QED
  BY <1>1, <1>7, <1>8, <1>9, AgingStep

(* A family has one user, and its first token was issued. *)
LEMMA FamilyUser ==
    ASSUME SessionInv, NEW t \in Tokens, Issued(t)
    PROVE  /\ Issued(token[t].family)
           /\ \A s \in Tokens : Issued(s) /\ token[s].family = token[t].family => Kin(t, s)
<1>1. token[t].family \in Tokens /\ token[t].family <= t
  BY TokenFields DEF SessionInv, Rooted
<1>2. Issued(token[t].family)
  BY <1>1 DEF SessionInv, Rooted, Tokens
<1> QED
  BY <1>2 DEF SessionInv, Rooted, Kin

(* Presenting counts up to two. *)
LEMMA PresentCounts ==
    ASSUME SessionTypeOK, NEW t \in Tokens, Present(t)
    PROVE  /\ \A s \in Tokens : s # t => presented'[s] = presented[s]
           /\ presented'[t] = 2 => presented[t] > 0
           /\ presented'[t] > 0
BY DEF SessionTypeOK, Present

(* refresh of a token that is neither revoked nor acceptable. *)
LEMMA RefreshInvalidKeeps ==
    ASSUME SessionInv, SessionTypeOK', NEW t \in Tokens, RefreshInvalid(t)
    PROVE  SessionInv' /\ Aging
<1> USE DEF SessionInv
<1>1. UNCHANGED <<account, token, login, reuses>> /\ Present(t)
      /\ Issued(t) /\ ~token[t].revoked /\ ~token[t].expired /\ ~Live(t)
  BY DEF RefreshInvalid
<1>2. Aging
  BY <1>1, VersionType DEF Aging, Issued, Active
<1>3. ReuseKept /\ LoginsKept
  BY <1>1 DEF ReuseKept, LoginsKept, Versioned, Active
<1>4. token[t].version < account[token[t].user].version
  <2>1. Current(t) /\ token[t].user \in Users
    BY <1>1, TokenFields DEF Versioned
  <2>2. token[t].version \in Nat /\ account[token[t].user].version \in Nat
    BY <1>1, <2>1, TokenFields, VersionType
  <2>3. token[t].version # account[token[t].user].version
    BY <1>1, <2>1 DEF Current, Live
  <2> QED
    BY <2>1, <2>2, <2>3 DEF Current
<1>5. \A s \in Tokens : Issued(s) /\ token[s].family = token[t].family => ~Live(s)
  BY <1>1 DEF OneHeir, Live
<1>6. Spent'
  <2> SUFFICES ASSUME NEW s \in Tokens, presented'[s] > 0
               PROVE  /\ Issued(s)'
                      /\ (token[s].revoked \/ token[s].version < account[token[s].user].version)'
                      /\ presented'[s] = 2 => \A r \in Tokens :
                            (Issued(r) /\ token[r].family = token[s].family => ~Live(r))'
    BY DEF Spent
  <2>1. CASE s = t
    BY <1>1, <1>4, <1>5, <2>1 DEF Issued, Live, Active
  <2>2. CASE s # t
    BY <1>1, <1>2, <2>2, PresentCounts, AgingSpent
  <2> QED
    BY <2>1, <2>2
<1>7. Rooted' /\ OneHeir' /\ Versioned'
  BY <1>2, <1>3, AgingKeeps DEF Versioned, LoginsKept
<1>8. Marked' /\ Alarmed'
  BY <1>1, <1>2, <1>3, AgingMarked
<1> QED
  BY <1>2, <1>6, <1>7, <1>8

(* refresh of a revoked token: a family already reported, or its report. *)
LEMMA RefreshReusedKeeps ==
    ASSUME SessionInv, SessionTypeOK', NEW t \in Tokens, RefreshReused(t)
    PROVE  SessionInv' /\ Aging
<1> USE DEF SessionInv
<1> DEFINE u == token[t].user
           f == token[t].family
<1>1. UNCHANGED login /\ Present(t) /\ Issued(t) /\ token[t].revoked
  BY DEF RefreshReused
<1>2. u \in Users /\ f \in Tokens /\ Issued(f) /\ f <= t
  BY <1>1, TokenFields, FamilyUser DEF Rooted
<1>3. \A s \in Tokens : Issued(s) => token[s] \in TokenRow
  BY DEF SessionTypeOK, Issued
<1>4. \A s \in Tokens : Issued(s) /\ token[s].family = f <=> Kin(t, s)
  BY <1>1, FamilyUser DEF Kin
<1>5. CASE token[t].reuse
  <2>1. UNCHANGED <<account, token, reuses>>
    BY <1>5 DEF RefreshReused
  <2>2. Aging
    BY <1>1, <2>1, VersionType DEF Aging, Issued, Active
  <2>3. ReuseKept /\ LoginsKept
    BY <1>1, <2>1 DEF ReuseKept, LoginsKept, Versioned, Active
  <2>4. \A s \in Tokens : Issued(s) /\ token[s].family = f => token[s].revoked
    BY <1>1, <1>5 DEF Marked
  <2>5. Spent'
    <3> SUFFICES ASSUME NEW s \in Tokens, presented'[s] > 0
                 PROVE  /\ Issued(s)'
                        /\ (token[s].revoked \/ token[s].version < account[token[s].user].version)'
                        /\ presented'[s] = 2 => \A r \in Tokens :
                              (Issued(r) /\ token[r].family = token[s].family => ~Live(r))'
      BY DEF Spent
    <3>1. CASE s = t
      BY <1>1, <2>1, <2>4, <3>1 DEF Issued, Live
    <3>2. CASE s # t
      BY <1>1, <2>2, <3>2, PresentCounts, AgingSpent
    <3> QED
      BY <3>1, <3>2
  <2>6. Rooted' /\ OneHeir' /\ Versioned'
    BY <2>2, <2>3, AgingKeeps DEF Versioned, LoginsKept
  <2>7. Marked' /\ Alarmed'
    BY <2>1, <2>2, <2>3, AgingMarked
  <2> QED
    BY <2>2, <2>5, <2>6, <2>7
<1>6. CASE ~token[t].reuse
  <2>1. /\ token' = Report(t) /\ account' = BumpVersion(u)
        /\ reuses' = [reuses EXCEPT ![f] = @ + 1]
    BY <1>6 DEF RefreshReused
  <2>2. \A s \in Tokens :
           /\ Kin(t, s) => token'[s] = [token[s] EXCEPT !.revoked = TRUE, !.reuse = TRUE]
           /\ ~Kin(t, s) => token'[s] = token[s]
    BY <2>1 DEF Report
  <2>3. /\ account'[u].version = account[u].version + 1
        /\ account'[u].status = account[u].status
        /\ account'[u].retired = account[u].retired
        /\ \A v \in Users : v # u => account'[v] = account[v]
    BY <1>2, <2>1 DEF BumpVersion, SessionTypeOK, AccountRow
  <2>4. Aging
    <3>1. \A s \in Tokens : Issued(s)' <=> Issued(s)
      BY <1>3, <2>2, TokenRowUpdates, SessionAssumption DEF Issued, Kin
    <3>2. \A s \in Tokens : Issued(s) =>
            /\ token'[s].user = token[s].user
            /\ token'[s].family = token[s].family
            /\ token'[s].version = token[s].version
            /\ token[s].revoked => token'[s].revoked
            /\ token[s].expired => token'[s].expired
      BY <2>2, <1>3, TokenRowKeeps
    <3>3. \A v \in Users : account[v].status # "ABSENT" =>
            /\ account'[v].status # "ABSENT"
            /\ account'[v].version >= account[v].version
            /\ account'[v].version = account[v].version => (Active(v)' <=> Active(v))
      BY <1>2, <2>3, VersionType DEF Active
    <3> QED
      BY <3>1, <3>2, <3>3 DEF Aging
  <2>5. LoginsKept
    <3> SUFFICES ASSUME NEW v \in Users, login'[v] # NoLogin
                 PROVE  Active(v)' /\ login'[v] <= account'[v].version
      BY DEF LoginsKept
    <3>1. Active(v) /\ login[v] <= account[v].version /\ login[v] \in Nat
      BY <1>1 DEF Versioned, SessionTypeOK
    <3>2. account[v].version \in Nat
      BY VersionType
    <3>3. Active(v)'
      BY <2>3, <3>1 DEF Active
    <3> QED
      BY <1>1, <2>3, <3>1, <3>2, <3>3
  <2>6. \A s \in Tokens : Issued(s)' /\ token'[s].family = f <=> Kin(t, s)
    BY <1>4, <2>4 DEF Aging
  <2>7. \A s \in Tokens : Kin(t, s) => token'[s].revoked /\ token'[s].reuse
    BY <1>3, <2>2 DEF TokenRow, Kin
  <2>8. Marked'
    <3> SUFFICES ASSUME NEW s \in Tokens, Issued(s)', token'[s].reuse
                 PROVE  /\ token'[s].revoked
                        /\ \A r \in Tokens : Issued(r)' /\ token'[r].family = token'[s].family
                                                => token'[r].reuse
      BY DEF Marked
    <3>1. CASE Kin(t, s)
      BY <2>6, <2>7, <3>1
    <3>2. CASE ~Kin(t, s)
      <4>1. token'[s] = token[s] /\ Issued(s)
        BY <2>2, <2>4, <3>2 DEF Aging
      <4>2. token[s].family # f
        BY <1>4, <3>2, <4>1
      <4>3. \A r \in Tokens : Issued(r)' /\ token'[r].family = token'[s].family
               => Issued(r) /\ token[r].family = token[s].family /\ token'[r] = token[r]
        BY <2>2, <2>4, <4>1, <4>2 DEF Aging, Kin
      <4> QED
        BY <4>1, <4>3 DEF Marked
    <3> QED
      BY <3>1, <3>2
  <2>9. Alarmed'
    <3> SUFFICES ASSUME NEW g \in Tokens, reuses'[g] > 0
                 PROVE  /\ reuses'[g] = 1 /\ Issued(g)'
                        /\ \A s \in Tokens : Issued(s)' /\ token'[s].family = g
                                                => token'[s].reuse
      BY DEF Alarmed
    <3>1. CASE g = f
      <4>1. ~(reuses[f] > 0)
        BY <1>1, <1>2, <1>6 DEF Alarmed
      <4>2. reuses'[f] = 1
        BY <1>2, <2>1, <4>1 DEF SessionTypeOK
      <4> QED
        BY <1>2, <2>4, <2>6, <2>7, <3>1, <4>2 DEF Aging
    <3>2. CASE g # f
      <4>1. reuses[g] = reuses'[g]
        BY <1>2, <2>1, <3>2 DEF SessionTypeOK
      <4>2. \A s \in Tokens : Issued(s)' /\ token'[s].family = g
               => Issued(s) /\ token[s].family = g /\ token'[s] = token[s]
        BY <2>2, <2>4, <3>2 DEF Aging, Kin
      <4> QED
        BY <2>4, <4>1, <4>2 DEF Alarmed, Aging
    <3> QED
      BY <3>1, <3>2
  <2>10. Spent'
    <3> SUFFICES ASSUME NEW s \in Tokens, presented'[s] > 0
                 PROVE  /\ Issued(s)'
                        /\ (token[s].revoked \/ token[s].version < account[token[s].user].version)'
                        /\ presented'[s] = 2 => \A r \in Tokens :
                              (Issued(r) /\ token[r].family = token[s].family => ~Live(r))'
      BY DEF Spent
    <3>1. CASE s = t
      BY <1>1, <1>4, <2>4, <2>6, <2>7, <3>1 DEF Aging, Live
    <3>2. CASE s # t
      BY <1>1, <2>4, <3>2, PresentCounts, AgingSpent
    <3> QED
      BY <3>1, <3>2
  <2>11. Rooted' /\ OneHeir' /\ Versioned'
    BY <2>4, <2>5, AgingKeeps DEF Versioned, LoginsKept
  <2> QED
    BY <2>4, <2>8, <2>9, <2>10, <2>11
<1> QED
  BY <1>5, <1>6

(* Whatever was issued, and its family, comes before a fresh id. *)
LEMMA FreshIsLast ==
    ASSUME SessionInv, NEW n \in Tokens, Fresh(n), NEW s \in Tokens, Issued(s)
    PROVE  s < n /\ token[s].family < n
<1>1. ~(n < s) /\ s # n
  BY DEF SessionInv, Rooted, Fresh
<1>2. token[s].family \in Tokens /\ token[s].family <= s
  BY TokenFields DEF SessionInv, Rooted
<1> QED
  BY <1>1, <1>2, SessionAssumption DEF Tokens

(* What a new row is. *)
LEMMA NewTokenFields ==
    ASSUME NEW u, NEW f, NEW v
    PROVE  LET row == NewToken(u, f, v)
           IN  /\ row.user = u /\ row.family = f /\ row.version = v
               /\ ~row.revoked /\ ~row.reuse /\ ~row.expired
BY DEF NewToken

(* login commits the first token of a family. *)
LEMMA LoginCommitKeeps ==
    ASSUME SessionInv, SessionTypeOK', NEW u \in Users, NEW n \in Tokens, LoginCommit(u, n)
    PROVE  SessionInv'
<1> USE DEF SessionInv
<1>1. /\ UNCHANGED <<account, presented, reuses>> /\ Fresh(n) /\ login[u] # NoLogin
      /\ login' = [login EXCEPT ![u] = NoLogin]
  BY DEF LoginCommit
<1>2. token'[n] = NewToken(u, n, login[u]) /\ \A s \in Tokens : s # n => token'[s] = token[s]
  BY DEF LoginCommit, SessionTypeOK
<1>3. /\ token'[n].user = u /\ token'[n].family = n /\ token'[n].version = login[u]
      /\ ~token'[n].revoked /\ ~token'[n].reuse /\ ~token'[n].expired
  BY <1>2, NewTokenFields
<1>4. ~Issued(n) /\ Issued(n)'
  <2>1. NewToken(u, n, login[u]) \in TokenRow
    BY <1>1 DEF NewToken, TokenRow, SessionTypeOK
  <2> QED
    BY <1>1, <1>2, <2>1, SessionAssumption DEF Fresh, Issued
<1>5. \A s \in Tokens : s # n =>
         /\ Issued(s)' <=> Issued(s)
         /\ Issued(s) => s < n /\ token[s].family < n /\ token[s].family # n
  BY <1>1, <1>2, FreshIsLast, TokenFields DEF Issued, Tokens
<1>6. Rooted'
  <2> SUFFICES ASSUME NEW t \in Tokens, Issued(t)'
               PROVE  /\ \A s \in Tokens : s < t => Issued(s)'
                      /\ token'[t].family <= t
                      /\ token'[token'[t].family].user = token'[t].user
    BY DEF Rooted
  <2>1. CASE t = n
    BY <1>1, <1>3, <1>5, <2>1 DEF Fresh, Tokens
  <2>2. CASE t # n
    <3>1. Issued(t) /\ token'[t] = token[t] /\ t < n /\ token[t].family # n
      BY <1>2, <1>5, <2>2
    <3>2. token[t].family \in Tokens
      BY <3>1, TokenFields
    <3> QED
      BY <1>2, <1>5, <3>1, <3>2 DEF Rooted, Tokens
  <2> QED
    BY <2>1, <2>2
<1>7. Versioned'
  <2>1. \A t \in Tokens : t # n /\ Issued(t) => Current(t)'
    BY <1>1, <1>2 DEF Versioned, Current, Active
  <2>2. Current(n)'
    BY <1>1, <1>3 DEF Versioned, Current, Active
  <2>3. \A v \in Users : login'[v] # NoLogin => Active(v)' /\ login'[v] <= account'[v].version
    BY <1>1 DEF Versioned, Active, SessionTypeOK
  <2> QED
    BY <1>5, <2>1, <2>2, <2>3 DEF Versioned
<1>8. OneHeir'
  BY <1>2, <1>3, <1>5 DEF OneHeir
<1>9. Marked'
  BY <1>2, <1>3, <1>5 DEF Marked
<1>10. Alarmed'
  BY <1>1, <1>2, <1>3, <1>4, <1>5 DEF Alarmed
<1>11. \A s \in Tokens : s # n => (Live(s)' <=> Live(s))
  BY <1>1, <1>2, <1>5 DEF Live, Active
<1>12. Spent'
  BY <1>1, <1>2, <1>3, <1>4, <1>5, <1>11 DEF Spent
<1> QED
  BY <1>6, <1>7, <1>8, <1>9, <1>10, <1>12

(* refresh hands the family on to a fresh token. *)
LEMMA RotateKeeps ==
    ASSUME SessionInv, SessionTypeOK', NEW t \in Tokens, NEW n \in Tokens, RefreshRotate(t, n)
    PROVE  SessionInv'
<1> USE DEF SessionInv
<1> DEFINE u == token[t].user
           f == token[t].family
<1>1. UNCHANGED <<account, login, reuses>> /\ Fresh(n) /\ Live(t) /\ Present(t)
  BY DEF RefreshRotate
<1>2. /\ Issued(t) /\ ~token[t].revoked /\ Active(u) /\ token[t].version = account[u].version
      /\ token[t] \in TokenRow
  BY <1>1 DEF Live, Issued, SessionTypeOK
<1>3. u \in Users /\ f \in Tokens /\ Issued(f) /\ f <= t /\ t < n /\ t # n /\ f # n
  BY <1>1, <1>2, TokenFields, FamilyUser, FreshIsLast DEF Rooted, Tokens
<1>4. /\ token'[n] = NewToken(u, f, account[u].version)
      /\ token'[t] = [token[t] EXCEPT !.revoked = TRUE]
      /\ \A s \in Tokens : s # n /\ s # t => token'[s] = token[s]
  BY <1>3 DEF RefreshRotate, SessionTypeOK
<1>5. /\ token'[n].user = u /\ token'[n].family = f /\ token'[n].version = account[u].version
      /\ ~token'[n].revoked /\ ~token'[n].reuse /\ ~token'[n].expired
  BY <1>4, NewTokenFields
<1>6. /\ token'[t].user = u /\ token'[t].family = f /\ token'[t].version = token[t].version
      /\ token'[t].revoked /\ (token'[t].reuse <=> token[t].reuse)
  BY <1>2, <1>4 DEF TokenRow
<1>7. ~Issued(n) /\ Issued(n)' /\ Issued(t)'
  <2>1. NewToken(u, f, account[u].version) \in TokenRow
    BY <1>3, VersionType DEF NewToken, TokenRow
  <2>2. [token[t] EXCEPT !.revoked = TRUE] \in TokenRow
    BY <1>2, TokenRowUpdates
  <2> QED
    BY <1>1, <1>4, <2>1, <2>2, SessionAssumption DEF Fresh, Issued
<1>8. \A s \in Tokens : s # n =>
         /\ Issued(s)' <=> Issued(s)
         /\ Issued(s) => s < n /\ token[s].family # n
         /\ Issued(s) => /\ token'[s].family = token[s].family
                         /\ token'[s].user = token[s].user
                         /\ token'[s].version = token[s].version
                         /\ token'[s].reuse <=> token[s].reuse
                         /\ token[s].revoked => token'[s].revoked
  <2> SUFFICES ASSUME NEW s \in Tokens, s # n
               PROVE  /\ Issued(s)' <=> Issued(s)
                      /\ Issued(s) => s < n /\ token[s].family # n
                      /\ Issued(s) => /\ token'[s].family = token[s].family
                                      /\ token'[s].user = token[s].user
                                      /\ token'[s].version = token[s].version
                                      /\ token'[s].reuse <=> token[s].reuse
                                      /\ token[s].revoked => token'[s].revoked
    OBVIOUS
  <2>1. Issued(s) => s < n /\ token[s].family # n
    BY <1>1, FreshIsLast, TokenFields DEF Tokens
  <2>2. CASE s = t
    BY <1>2, <1>6, <1>7, <2>1, <2>2
  <2>3. CASE s # t
    BY <1>4, <2>1, <2>3 DEF Issued
  <2> QED
    BY <2>2, <2>3
<1>9. Rooted'
  <2> SUFFICES ASSUME NEW r \in Tokens, Issued(r)'
               PROVE  /\ \A s \in Tokens : s < r => Issued(s)'
                      /\ token'[r].family <= r
                      /\ token'[token'[r].family].user = token'[r].user
    BY DEF Rooted
  <2>1. CASE r = n
    <3>1. \A s \in Tokens : s < n => Issued(s)'
      BY <1>1, <1>8 DEF Fresh, Tokens
    <3>2. token[f].user = u
      BY <1>2 DEF Rooted
    <3> QED
      BY <1>3, <1>5, <1>8, <2>1, <3>1, <3>2 DEF Tokens
  <2>2. CASE r # n
    <3>1. Issued(r) /\ r < n /\ token[r].family # n /\ token[r].family \in Tokens
          /\ token'[r].family = token[r].family /\ token'[r].user = token[r].user
      BY <1>8, <2>2, TokenFields
    <3>2. Issued(token[r].family)
      BY <3>1, FamilyUser
    <3> QED
      BY <1>8, <3>1, <3>2 DEF Rooted, Tokens
  <2> QED
    BY <2>1, <2>2
<1>10. Versioned'
  <2>1. \A s \in Tokens : s # n /\ Issued(s) => Current(s)'
    BY <1>1, <1>8 DEF Versioned, Current, Active
  <2>2. Current(n)'
    <3>1. account[u].version \in Nat /\ account[u].status # "ABSENT"
      BY <1>2, <1>3, VersionType DEF Active
    <3> QED
      BY <1>1, <1>2, <1>5, <3>1 DEF Current, Active
  <2>3. \A v \in Users : login'[v] # NoLogin => Active(v)' /\ login'[v] <= account'[v].version
    BY <1>1 DEF Versioned, Active
  <2> QED
    BY <1>8, <2>1, <2>2, <2>3 DEF Versioned
<1>11. \A s \in Tokens : Issued(s) /\ token[s].family = f /\ s # t => token[s].revoked
  BY <1>2 DEF OneHeir
<1>12. \A s \in Tokens : Issued(s) /\ token[s].family = f => ~token[s].reuse
  BY <1>2 DEF Marked
<1>13. OneHeir'
  <2> SUFFICES ASSUME NEW r \in Tokens, NEW s \in Tokens,
                      Issued(r)', ~token'[r].revoked, Issued(s)', ~token'[s].revoked,
                      token'[r].family = token'[s].family
               PROVE  r = s
    BY DEF OneHeir
  <2>1. \A q \in Tokens : q # n /\ Issued(q)' /\ ~token'[q].revoked =>
           Issued(q) /\ ~token[q].revoked /\ token[q].family # f
    BY <1>6, <1>8, <1>11
  <2> QED
    BY <1>5, <1>8, <2>1 DEF OneHeir
<1>14. Marked'
  BY <1>5, <1>8, <1>12 DEF Marked
<1>15. Alarmed'
  BY <1>1, <1>2, <1>5, <1>7, <1>8, <1>12 DEF Alarmed
<1>16. \A s \in Tokens : s # n /\ s # t => (Live(s)' <=> Live(s))
  BY <1>1, <1>4, <1>8 DEF Live, Active
<1>17. Spent'
  <2> SUFFICES ASSUME NEW s \in Tokens, presented'[s] > 0
               PROVE  /\ Issued(s)'
                      /\ (token[s].revoked \/ token[s].version < account[token[s].user].version)'
                      /\ presented'[s] = 2 => \A r \in Tokens :
                            (Issued(r) /\ token[r].family = token[s].family => ~Live(r))'
    BY DEF Spent
  <2>1. CASE s = t
    <3>1. ~(presented[t] > 0)
      BY <1>2, <1>3, VersionType DEF Spent
    <3>2. presented'[t] # 2
      BY <1>1, <3>1, PresentCounts
    <3> QED
      BY <1>6, <1>7, <2>1, <3>2
  <2>2. CASE s # t
    <3>1. presented[s] > 0 /\ presented'[s] = presented[s]
      BY <1>1, <2>2, PresentCounts
    <3>2. Issued(s) /\ s # n
      BY <1>7, <3>1 DEF Spent
    <3>3. token'[s] = token[s] /\ Issued(s)'
      BY <1>4, <1>8, <2>2, <3>2
    <3>4. (token[s].revoked \/ token[s].version < account[token[s].user].version)'
      BY <1>1, <3>1, <3>3 DEF Spent
    <3>5. ASSUME presented[s] = 2, NEW r \in Tokens, Issued(r)',
                 token'[r].family = token'[s].family
          PROVE  ~Live(r)'
      <4>1. token[s].family # f
        BY <1>1, <1>2, <3>1, <3>5 DEF Spent
      <4>2. r # n /\ r # t
        BY <1>5, <1>6, <3>3, <3>5, <4>1
      <4>3. ~Live(r)
        BY <1>8, <3>1, <3>3, <3>5, <4>2 DEF Spent
      <4> QED
        BY <1>16, <4>2, <4>3
    <3> QED
      BY <3>1, <3>3, <3>4, <3>5
  <2> QED
    BY <2>1, <2>2
<1> QED
  BY <1>9, <1>10, <1>13, <1>14, <1>15, <1>17

-----------------------------------------------------------------------------
(* The session invariant                                                   *)

(* Init has no token. *)
LEMMA SessionInvInit == SessionInit => SessionInv
<1> SUFFICES ASSUME SessionInit PROVE SessionInv
  OBVIOUS
<1>1. SessionTypeOK
  BY SessionTypeInit
<1>2. /\ \A t \in Tokens : ~Issued(t) /\ presented[t] = 0 /\ reuses[t] = 0
      /\ \A u \in Users : login[u] = NoLogin
  BY DEF SessionInit, Issued
<1> QED
  BY <1>1, <1>2 DEF SessionInv, Rooted, Versioned, OneHeir, Marked, Spent, Alarmed

(* A handler issues the first token of a family, hands a family on, or ages
   the rows. *)
LEMMA SessionCases ==
    ASSUME SessionInv, [SessionStep \/ Administer]_sessionVars
    PROVE  /\ SessionInv'
           /\ \/ Aging
              \/ \E u \in Users, n \in Tokens : LoginCommit(u, n)
              \/ \E t, n \in Tokens : RefreshRotate(t, n)
<1>0. SessionTypeOK'
  BY SessionTypeInductive DEF SessionInv
<1>1. ASSUME NEW u \in Users, LoginRead(u) \/ LoginFail(u)
      PROVE  SessionInv' /\ Aging
  BY <1>0, <1>1, LoginKeeps
<1>2. ASSUME NEW u \in Users, NEW n \in Tokens, LoginCommit(u, n)
      PROVE  SessionInv'
  BY <1>0, <1>2, LoginCommitKeeps
<1>3. ASSUME NEW t \in Tokens, RefreshReused(t)
      PROVE  SessionInv' /\ Aging
  BY <1>0, <1>3, RefreshReusedKeeps
<1>4. ASSUME NEW t \in Tokens, RefreshInvalid(t)
      PROVE  SessionInv' /\ Aging
  BY <1>0, <1>4, RefreshInvalidKeeps
<1>5. ASSUME NEW t \in Tokens, NEW n \in Tokens, RefreshRotate(t, n)
      PROVE  SessionInv'
  BY <1>0, <1>5, RotateKeeps
<1>6. ASSUME NEW t \in Tokens, Logout(t) \/ Expire(t)
      PROVE  SessionInv' /\ Aging
  BY <1>0, <1>6, LogoutKeeps
<1>7. ASSUME NEW u \in Users, Enrol(u)
      PROVE  SessionInv' /\ Aging
  BY <1>0, <1>7, EnrolKeeps
<1>8. ASSUME NEW u \in Users, account[u].status # "ABSENT",
             \/ \E s \in Status \ {"ABSENT"} : EndSessions(u, s)
             \/ ReplacePassword(u)
             \/ RetireAccount(u)
      PROVE  SessionInv' /\ Aging
  BY <1>0, <1>8, AdministrationKeeps
<1>9. CASE UNCHANGED sessionVars
  <2>1. UNCHANGED <<account, token, login, presented, reuses>>
    BY <1>9 DEF sessionVars
  <2>2. Aging /\ ReuseKept
    BY <2>1, VersionType DEF SessionInv, Aging, ReuseKept, Issued, Active
  <2>3. LoginsKept
    BY <2>1 DEF SessionInv, LoginsKept, Versioned, Active
  <2> QED
    BY <1>0, <2>1, <2>2, <2>3, AgingStep
<1> QED
  BY <1>1, <1>2, <1>3, <1>4, <1>5, <1>6, <1>7, <1>8, <1>9
     DEF SessionStep, Administer, Refresh

(* The invariant of the sessions. *)
LEMMA SessionInvariant == SessionSpec => []SessionInv
<1>1. SessionInv /\ [SessionStep \/ Administer]_sessionVars => SessionInv'
  BY SessionCases
<1> QED
  BY SessionInvInit, <1>1, PTL DEF SessionSpec

(* POST /auth/refresh keeps its promise about families of tokens, for any
   number of users and tokens: one heir at a time, none once a token was used
   twice, one alarm for each family. *)
LEMMA SessionInvImplies == SessionInv => TokenFamilies
<1> SUFFICES ASSUME SessionInv PROVE TokenFamilies
  OBVIOUS
<1>1. OneLiveToken
  BY DEF SessionInv, OneHeir, OneLiveToken, Live
<1>2. ReuseEndsFamily
  BY DEF SessionInv, Spent, ReuseEndsFamily, Kin
<1>3. ReportedOnce
  <2> SUFFICES ASSUME NEW f \in Tokens PROVE reuses[f] <= 1
    BY DEF ReportedOnce
  <2>1. reuses[f] \in Nat /\ (reuses[f] > 0 => reuses[f] = 1)
    BY DEF SessionInv, Alarmed, SessionTypeOK
  <2> QED
    BY <2>1
<1> QED
  BY <1>1, <1>2, <1>3 DEF TokenFamilies

-----------------------------------------------------------------------------
(* Sessions implement SessionLife                                          *)

Phases == [f \in Tokens |-> Phase(f)]

(* What a phase says. *)
LEMMA PhaseMeans ==
    ASSUME NEW f \in Tokens
    PROVE  /\ Phase(f) \in {"none", "open", "closed"}
           /\ Phase(f) = "none" <=> ~\E t \in Tokens : Issued(t) /\ token[t].family = f
           /\ Phase(f) = "open" <=> \E t \in Tokens : Live(t) /\ token[t].family = f
BY DEF Phase, Live

(* Ageing rows end some sessions and start none. *)
LEMMA AgingEnds ==
    ASSUME SessionInv, SessionInv', Aging
    PROVE  Life!Next
<1> DEFINE F == {f \in Tokens : Phase(f) = "open" /\ Phase(f)' # "open"}
<1>1. ASSUME NEW f \in Tokens
      PROVE  Phase(f)' = IF f \in F THEN "closed" ELSE Phase(f)
  <2>1. (\E t \in Tokens : Issued(t) /\ token[t].family = f)'
          <=> \E t \in Tokens : Issued(t) /\ token[t].family = f
    BY DEF Aging
  <2>2. (\E t \in Tokens : Live(t) /\ token[t].family = f)'
          => \E t \in Tokens : Live(t) /\ token[t].family = f
    BY AgingLive DEF SessionInv, Aging, Live
  <2>3. /\ (Phase(f) = "none" <=> ~\E t \in Tokens : Issued(t) /\ token[t].family = f)'
        /\ (Phase(f) = "open" <=> \E t \in Tokens : Live(t) /\ token[t].family = f)'
        /\ Phase(f)' \in {"none", "open", "closed"}
    BY DEF Phase, Live
  <2> QED
    BY <2>1, <2>2, <2>3, PhaseMeans
<1>2. Phases' = [f \in Tokens |-> IF f \in F THEN "closed" ELSE Phases[f]]
  BY <1>1 DEF Phases
<1>3. \A f \in F : Phases[f] = "open"
  BY DEF Phases
<1>4. Life!End(F)
  BY <1>2, <1>3 DEF Life!End, Phases
<1> QED
  BY <1>4 DEF Life!Next

(* A login starts the session that bears the id of its token. *)
LEMMA LoginStarts ==
    ASSUME SessionInv, SessionInv', NEW u \in Users, NEW n \in Tokens, LoginCommit(u, n)
    PROVE  Life!Next
<1>1. /\ UNCHANGED account /\ Fresh(n) /\ login[u] # NoLogin
      /\ token'[n] = NewToken(u, n, login[u])
      /\ \A s \in Tokens : s # n => token'[s] = token[s]
  BY DEF LoginCommit, SessionInv, SessionTypeOK
<1>2. \A s \in Tokens : Issued(s) => token[s].family # n /\ s # n
  BY <1>1, FreshIsLast, TokenFields DEF SessionInv, Tokens
<1>3. token'[n].family = n /\ Issued(n)'
  <2>1. NewToken(u, n, login[u]) \in TokenRow
    BY <1>1 DEF NewToken, TokenRow, SessionInv, SessionTypeOK
  <2> QED
    BY <1>1, <2>1, NewTokenFields, SessionAssumption DEF Issued
<1>4. ASSUME NEW f \in Tokens, f # n
      PROVE  Phase(f)' = Phase(f)
  <2>1. \A s \in Tokens : token[s].family = f /\ Issued(s)
                            <=> (token[s].family = f /\ Issued(s))'
    BY <1>1, <1>2, <1>3, <1>4 DEF Issued, Fresh
  <2>2. \A s \in Tokens : token[s].family = f /\ Live(s)
                            <=> (token[s].family = f /\ Live(s))'
    BY <1>1, <1>2, <1>3, <1>4 DEF Issued, Fresh, Live, Active
  <2> QED
    BY <2>1, <2>2 DEF Phase
<1>5. Phase(n) = "none" /\ Phase(n)' \in {"open", "closed"}
  BY <1>2, <1>3 DEF Phase
<1>6. Phases' = [Phases EXCEPT ![n] = Phase(n)']
  BY <1>4 DEF Phases
<1>7. Life!Start(n)
  BY <1>5, <1>6 DEF Life!Start, Phases
<1> QED
  BY <1>7 DEF Life!Next

(* A rotation leaves its session open and the others alone. *)
LEMMA RotateStutters ==
    ASSUME SessionInv, SessionInv', NEW t \in Tokens, NEW n \in Tokens, RefreshRotate(t, n)
    PROVE  Phases' = Phases
<1> DEFINE u == token[t].user
           f == token[t].family
<1>1. UNCHANGED account /\ Fresh(n) /\ Live(t) /\ Issued(t) /\ token[t] \in TokenRow
  BY DEF RefreshRotate, Live, Issued, SessionInv, SessionTypeOK
<1>2. u \in Users /\ f \in Tokens /\ t # n /\ ~Issued(n)
  BY <1>1, TokenFields DEF SessionInv, Fresh
<1>3. /\ token'[n] = NewToken(u, f, account[u].version)
      /\ token'[t] = [token[t] EXCEPT !.revoked = TRUE]
      /\ \A s \in Tokens : s # n /\ s # t => token'[s] = token[s]
  BY <1>2 DEF RefreshRotate, SessionInv, SessionTypeOK
<1>4. /\ token'[n].family = f /\ Live(n)'
  <2>1. NewToken(u, f, account[u].version) \in TokenRow
    BY <1>2, VersionType DEF NewToken, TokenRow, SessionInv
  <2>2. Issued(n)'
    BY <1>3, <2>1, SessionAssumption DEF Issued
  <2> QED
    BY <1>1, <1>3, <2>2, NewTokenFields DEF Live, Active
<1>5. token'[t].family = f /\ Issued(t)'
  <2>1. [token[t] EXCEPT !.revoked = TRUE] \in TokenRow
    BY <1>1, TokenRowUpdates
  <2> QED
    BY <1>1, <1>3, <2>1, SessionAssumption DEF Issued, TokenRow
<1>6. ASSUME NEW g \in Tokens
      PROVE  Phase(g)' = Phase(g)
  <2>1. CASE g = f
    BY <1>1, <1>4, <2>1 DEF Phase, Live
  <2>2. CASE g # f
    <3>1. \A s \in Tokens : token[s].family = g /\ Issued(s)
                              <=> (token[s].family = g /\ Issued(s))'
      BY <1>2, <1>3, <1>4, <1>5, <2>2 DEF Issued
    <3>2. \A s \in Tokens : token[s].family = g /\ Live(s)
                              <=> (token[s].family = g /\ Live(s))'
      BY <1>1, <1>2, <1>3, <1>4, <1>5, <2>2 DEF Issued, Live, Active
    <3> QED
      BY <3>1, <3>2 DEF Phase
  <2> QED
    BY <2>1, <2>2
<1> QED
  BY <1>6 DEF Phases

(* Sessions behave as SessionLife says: what has ended never comes back, for
   any number of users and tokens. *)
THEOREM SessionsImplementLife == SessionSpec => LifeSpec
<1>1. SessionInit => Life!Init
  <2> SUFFICES ASSUME SessionInit PROVE Life!Init
    OBVIOUS
  <2>1. \A f \in Tokens : Phase(f) = "none"
    BY DEF SessionInit, Phase, Issued
  <2> QED
    BY <2>1 DEF Life!Init
<1>2. SessionInv /\ SessionInv' /\ [SessionStep \/ Administer]_sessionVars
        => [Life!Next]_Phases
  BY SessionCases, AgingEnds, LoginStarts, RotateStutters
<1> QED
  BY <1>1, <1>2, SessionInvariant, PTL DEF SessionSpec, LifeSpec, Life!Spec, Phases

-----------------------------------------------------------------------------
(* The handlers of accounts, roles and keys, seen from the sessions        *)

(* A mutation is the work of one of these handlers; those that touch no
   session row are left to the last disjunct. *)
LEMMA PolicyHandlers ==
    ASSUME NEW p \in Requests, Mutate(p)
    PROVE  \/ \E u \in Users, R \in RoleSets : CreateUser(p, u, R)
           \/ \E u \in Users, R \in RoleSets : ReplaceUserRoles(p, u, R)
           \/ \E u \in Users, s \in Status \ {"ABSENT"} : UpdateUser(p, u, s)
           \/ \E u \in Users, h \in Users \cup {NoOwner} : RetireUser(p, u, h)
           \/ \E u \in Users : ChangePassword(p, u)
           \/ UNCHANGED sessionVars
<1>1. ASSUME NEW u, NEW k, NEW P, CreateKey(p, u, k, P) PROVE UNCHANGED sessionVars
  BY <1>1, Zenon DEF CreateKey
<1>2. ASSUME NEW r, NEW pr, UpdateRole(p, r, pr) PROVE UNCHANGED sessionVars
  BY <1>2, Zenon DEF UpdateRole
<1>3. ASSUME NEW r, DeleteRole(p, r) PROVE UNCHANGED sessionVars
  BY <1>3, Zenon DEF DeleteRole
<1>4. ASSUME NEW r, NEW P, ReplacePermissions(p, r, P) PROVE UNCHANGED sessionVars
  BY <1>4, Zenon DEF ReplacePermissions
<1>5. ASSUME NEW r, NEW n, ReplaceLimits(p, r, n) PROVE UNCHANGED sessionVars
  BY <1>5, Zenon DEF ReplaceLimits
<1>6. ASSUME NEW r, NEW P, NEW n, ReplacePolicy(p, r, P, n) PROVE UNCHANGED sessionVars
  BY <1>6, Zenon DEF ReplacePolicy
<1>7. ASSUME NEW r, NEW pr, NEW P, NEW n, CreateRole(p, r, pr, P, n) PROVE UNCHANGED sessionVars
  BY <1>7, Zenon DEF CreateRole
<1>8. ASSUME NEW b, NEW R, ReplaceRoleGrants(p, b, R) PROVE UNCHANGED sessionVars
  BY <1>8, Zenon DEF ReplaceRoleGrants
<1>9. ASSUME NEW k, RevokeKey(p, k) PROVE UNCHANGED sessionVars
  BY <1>9, Zenon DEF RevokeKey
<1>10. ASSUME NEW k, NEW n, RotateKey(p, k, n) PROVE UNCHANGED sessionVars
  BY <1>10, Zenon DEF RotateKey
<1> QED
  BY <1>1, <1>2, <1>3, <1>4, <1>5, <1>6, <1>7, <1>8, <1>9, <1>10, Zenon DEF Mutate

(* Every step of the service is a step of the sessions. *)
LEMMA AccountStepIsSessionStep ==
    ASSUME SessionTypeOK, [AccountNext]_accountVars
    PROVE  [SessionStep \/ Administer]_sessionVars
<1> USE DEF Administer
<1>1. ASSUME NEW p \in Requests, NEW a \in Users, Begin(p, a)
      PROVE  UNCHANGED sessionVars
  BY <1>1 DEF Begin
<1>2. ASSUME NEW p \in Requests, Mutate(p)
      PROVE  Administer \/ UNCHANGED sessionVars
  <2>1. ASSUME NEW u \in Users, NEW R, CreateUser(p, u, R)
        PROVE  Administer
    BY <2>1 DEF CreateUser
  <2>2. ASSUME NEW u \in Users, NEW R, ReplaceUserRoles(p, u, R)
        PROVE  Administer
    <3>1. account[u].status \in Status \ {"ABSENT"} /\ account[u].status # "ABSENT"
      BY <2>2 DEF ReplaceUserRoles, SessionTypeOK, AccountRow
    <3>2. EndSessions(u, account[u].status)
      BY <2>2 DEF ReplaceUserRoles
    <3> QED
      BY <3>1, <3>2
  <2>3. ASSUME NEW u \in Users, NEW s \in Status \ {"ABSENT"}, UpdateUser(p, u, s)
        PROVE  Administer
    BY <2>3 DEF UpdateUser
  <2>4. ASSUME NEW u \in Users, NEW h, RetireUser(p, u, h)
        PROVE  Administer
    BY <2>4 DEF RetireUser
  <2>5. ASSUME NEW u \in Users, ChangePassword(p, u)
        PROVE  Administer
    BY <2>5 DEF ChangePassword
  <2> QED
    BY <1>2, <2>1, <2>2, <2>3, <2>4, <2>5, PolicyHandlers
<1>3. ASSUME NEW p \in Requests, Use(p)
      PROVE  UNCHANGED sessionVars
  BY <1>3 DEF Use, Enter, CreateKB, CreateBudget, Chat, Leave
<1>4. ASSUME NEW l \in lease, ChatEnds(l)
      PROVE  UNCHANGED sessionVars
  BY <1>4 DEF ChatEnds
<1>5. ASSUME NEW u \in Users, NEW r \in Roles, Bootstrap(u, r)
      PROVE  Administer
  <2>1. account[u].status # "ABSENT" /\ "ACTIVE" \in Status \ {"ABSENT"}
    BY <1>5 DEF Bootstrap, Active, Status
  <2>2. EndSessions(u, "ACTIVE")
    BY <1>5 DEF Bootstrap
  <2> QED
    BY <2>1, <2>2
<1>6. CASE Authenticate
  BY <1>6 DEF Authenticate
<1>7. CASE UNCHANGED accountVars
  BY <1>7 DEF accountVars
<1> QED
  BY <1>1, <1>2, <1>3, <1>4, <1>5, <1>6, <1>7 DEF AccountNext

(* The seeded database is an initial state of the sessions. *)
LEMMA AccountInitIsSessionInit == AccountInit => SessionInit
BY AccountAssumption DEF AccountInit, SessionInit

(* Accounts, roles, keys and requests implement the sessions: whatever the
   administration handlers do, they end sessions only in the ways Sessions
   describes. *)
THEOREM AccountsImplementSessions == AccountSpec => SessionSpec
<1>1. SessionTypeOK /\ [AccountNext]_accountVars => [SessionStep \/ Administer]_sessionVars
  BY AccountStepIsSessionStep
<1>2. SessionTypeOK /\ [AccountNext]_accountVars => SessionTypeOK'
  BY <1>1, SessionTypeInductive
<1> QED
  BY AccountInitIsSessionInit, SessionTypeInit, <1>1, <1>2, PTL DEF AccountSpec, SessionSpec

(* POST /auth/refresh keeps its promise about families of tokens, whatever
   requests, mutations and logins run beside it. *)
THEOREM AccountTokenFamilies == AccountSpec => []TokenFamilies
BY AccountsImplementSessions, SessionInvariant, SessionInvImplies, PTL

(* What has ended a session of a user ends it for good, whatever requests,
   mutations and logins run beside it. *)
THEOREM AccountSessionsImplementLife == AccountSpec => LifeSpec
BY AccountsImplementSessions, SessionsImplementLife

-----------------------------------------------------------------------------
(* Standing of accounts                                                    *)

(* Nobody's status or retirement changes. *)
StandingKept ==
    \A u \in Users : /\ account'[u].status = account[u].status
                     /\ account'[u].retired = account[u].retired

(* A retired account is disabled and signed out. *)
SignedOut ==
    \A u \in Users : account[u].retired =>
        /\ account[u].status = "DISABLED"
        /\ \A t \in Tokens : Issued(t) /\ token[t].user = u => token[t].revoked

(* Only administration changes anyone's standing. *)
LEMMA SessionStepStanding ==
    ASSUME SessionTypeOK, SessionStep
    PROVE  StandingKept
<1>1. ASSUME UNCHANGED account PROVE StandingKept
  BY <1>1 DEF StandingKept
<1>2. ASSUME NEW t \in Tokens, RefreshReused(t) PROVE StandingKept
  <2>1. CASE token[t].reuse
    BY <1>1, <1>2, <2>1 DEF RefreshReused
  <2>2. CASE ~token[t].reuse
    <3>1. account' = BumpVersion(token[t].user)
      BY <1>2, <2>2 DEF RefreshReused
    <3> QED
      BY <3>1 DEF BumpVersion, StandingKept, SessionTypeOK, AccountRow
  <2> QED
    BY <2>1, <2>2
<1> QED
  BY <1>1, <1>2, Zenon DEF SessionStep, LoginRead, LoginFail, LoginCommit, Refresh, RefreshInvalid,
     RefreshRotate, Logout, Expire

(* What each way of administering an account does to standings. *)
LEMMA EnrolStanding ==
    ASSUME SessionTypeOK, NEW u \in Users, Enrol(u)
    PROVE  /\ account[u].status = "ABSENT"
           /\ account'[u].status = "ACTIVE" /\ ~account'[u].retired
           /\ \A v \in Users \ {u} : account'[v] = account[v]
BY DEF Enrol, SessionTypeOK

LEMMA EndSessionsStanding ==
    ASSUME SessionTypeOK, NEW u \in Users, NEW s \in Status, EndSessions(u, s)
    PROVE  /\ account'[u].status = s
           /\ account'[u].retired = account[u].retired
           /\ account[u].retired => s = account[u].status
           /\ \A v \in Users \ {u} : account'[v] = account[v]
           /\ UNCHANGED token
BY DEF EndSessions, SessionTypeOK, AccountRow

LEMMA ReplacePasswordStanding ==
    ASSUME SessionTypeOK, NEW u \in Users, ReplacePassword(u)
    PROVE  StandingKept /\ ~account[u].retired
<1>1. account' = [account EXCEPT ![u] =
                    [account[u] EXCEPT !.password = @ + 1, !.version = @ + 1]]
  BY DEF ReplacePassword
<1>2. /\ account'[u] = [account[u] EXCEPT !.password = @ + 1, !.version = @ + 1]
      /\ \A v \in Users \ {u} : account'[v] = account[v]
  BY <1>1 DEF SessionTypeOK
<1>3. account'[u].status = account[u].status /\ account'[u].retired = account[u].retired
  BY <1>2 DEF SessionTypeOK, AccountRow
<1>4. ~account[u].retired
  BY DEF ReplacePassword
<1> QED
  BY <1>2, <1>3, <1>4 DEF StandingKept

LEMMA RetireAccountStanding ==
    ASSUME SessionTypeOK, NEW u \in Users, RetireAccount(u)
    PROVE  /\ account'[u].status = "DISABLED" /\ account'[u].retired
           /\ \A v \in Users \ {u} : account'[v] = account[v]
           /\ \A t \in Tokens : Issued(t) /\ token[t].user = u => token'[t].revoked
<1>1. account' = [account EXCEPT ![u] =
          [account[u] EXCEPT !.status = "DISABLED", !.retired = TRUE, !.version = @ + 1]]
  BY DEF RetireAccount
<1>2. /\ account'[u] = [account[u] EXCEPT !.status = "DISABLED", !.retired = TRUE, !.version = @ + 1]
      /\ \A v \in Users \ {u} : account'[v] = account[v]
  BY <1>1 DEF SessionTypeOK
<1>3. account'[u].status = "DISABLED" /\ account'[u].retired
  BY <1>2 DEF SessionTypeOK, AccountRow
<1>4. ASSUME NEW t \in Tokens, Issued(t), token[t].user = u
      PROVE  token'[t].revoked
  BY <1>4 DEF RetireAccount, RevokeAll, Issued, TokenRow, SessionTypeOK
<1> QED
  BY <1>2, <1>3, <1>4

(* Whatever a handler does, a retired account stays signed out. *)
LEMMA SignedOutKeeps ==
    ASSUME SessionInv, SignedOut, [SessionStep \/ Administer]_sessionVars
    PROVE  SignedOut'
<1> USE DEF SessionInv
<1>0. SessionInv' /\ SessionTypeOK'
  BY SessionCases
<1>1. ASSUME StandingKept, Aging PROVE SignedOut'
  BY <1>1 DEF StandingKept, Aging, SignedOut
<1>2. ASSUME NEW u \in Users, NEW n \in Tokens, LoginCommit(u, n)
      PROVE  SignedOut'
  <2>1. ~account[u].retired
    BY <1>2 DEF LoginCommit, Versioned, Active
  <2>2. token'[n].user = u /\ \A t \in Tokens \ {n} : token'[t] = token[t]
    BY <1>2 DEF LoginCommit, NewToken, SessionTypeOK
  <2>3. account' = account
    BY <1>2 DEF LoginCommit
  <2> QED
    BY <2>1, <2>2, <2>3 DEF SignedOut, Issued
<1>3. ASSUME NEW t \in Tokens, NEW n \in Tokens, RefreshRotate(t, n)
      PROVE  SignedOut'
  <2>1. /\ ~account[token[t].user].retired /\ Issued(t) /\ t # n /\ token[t] \in TokenRow
    BY <1>3 DEF RefreshRotate, Live, Active, Fresh, Issued, SessionTypeOK
  <2>2. /\ token'[n].user = token[t].user
        /\ token'[t] = [token[t] EXCEPT !.revoked = TRUE]
        /\ \A s \in Tokens \ {n, t} : token'[s] = token[s]
    BY <1>3, <2>1 DEF RefreshRotate, NewToken, SessionTypeOK
  <2>3. token'[t].user = token[t].user
    BY <2>1, <2>2, TokenRowKeeps
  <2>4. account' = account
    BY <1>3 DEF RefreshRotate
  <2> QED
    BY <2>1, <2>2, <2>3, <2>4 DEF SignedOut, Issued
<1>4. CASE SessionStep
  BY <1>1, <1>2, <1>3, <1>4, SessionStepStanding, SessionCases
<1>5. ASSUME NEW u \in Users, Enrol(u)
      PROVE  SignedOut'
  BY <1>5, EnrolStanding DEF Enrol, SignedOut, Issued
<1>6. ASSUME NEW u \in Users, NEW s \in Status, EndSessions(u, s)
      PROVE  SignedOut'
  BY <1>6, EndSessionsStanding DEF SignedOut, Issued
<1>7. ASSUME NEW u \in Users, account[u].status # "ABSENT", ReplacePassword(u)
      PROVE  SignedOut'
  BY <1>0, <1>1, <1>7, ReplacePasswordStanding, AdministrationKeeps
<1>8. ASSUME NEW u \in Users, account[u].status # "ABSENT", RetireAccount(u)
      PROVE  SignedOut'
  <2>1. Aging
    BY <1>0, <1>8, AdministrationKeeps
  <2> QED
    BY <1>8, <2>1, RetireAccountStanding DEF SignedOut, Aging
<1>9. CASE UNCHANGED sessionVars
  BY <1>9 DEF sessionVars, SignedOut, Issued
<1> QED
  BY <1>4, <1>5, <1>6, <1>7, <1>8, <1>9 DEF Administer

-----------------------------------------------------------------------------
(* The invariant of accounts, roles, keys, leases and requests             *)

(* A retired account has given up its roles, its keys and its knowledge
   bases. *)
Divested ==
    \A u \in Users : account[u].retired =>
        /\ assigned[u] = {}
        /\ \A k \in Keys : LiveKey(k) => key[k].owner # u
        /\ \A b \in KBs : owner[b] # u

(* References lead to rows: of roles held, granted or built in, and of the
   first key of a lineage. *)
Referenced ==
    /\ RolesExist
    /\ \A r \in SystemRoles : Exists(r)
    /\ \A k \in Keys : key[k] # NoKey => key[key[k].family] # NoKey

(* What an external call under way relies on; a key it came with is that of
   its user. *)
Protected(l) ==
    /\ Active(l.user) /\ Reaches(l.user, l.kb)
    /\ l.key # NoKey => LiveKey(l.key) /\ key[l.key].owner = l.user
    /\ "chat:query" \in Scope(l.user, l.key)

(* What an ordinary request relies on until it commits. *)
Authentic(p) ==
    /\ req[p].key \in Keys \cup {NoKey}
    /\ Active(req[p].user)
    /\ req[p].key # NoKey => LiveKey(req[p].key) /\ key[req[p].key].owner = req[p].user
    /\ req[p].seen = Scope(req[p].user, req[p].key)

RequestSound ==
    /\ req = [p \in Requests |-> req[p]]
    /\ \A p \in Requests : Kind(p) \in {"mutation", "ordinary"} => req[p].user \in Users
    /\ \A p \in Requests : Kind(p) = "ordinary" => Authentic(p)

AccountInv ==
    /\ AccountTypeOK /\ SessionInv /\ SignedOut /\ Divested /\ SuperuserRemains
    /\ Referenced /\ OneLiveKey
    /\ \A l \in lease : Protected(l)
    /\ RequestSound

(* The invariant is what the runs check, and more. *)
LEMMA AccountInvImplies ==
    AccountInv => SuperuserRemains /\ RemovalComplete /\ AccessCurrent
<1> SUFFICES ASSUME AccountInv PROVE SuperuserRemains /\ RemovalComplete /\ AccessCurrent
  OBVIOUS
<1>1. RetiredInert
  BY DEF AccountInv, RetiredInert, Divested, SignedOut
<1>2. LeaseProtects
  BY DEF AccountInv, LeaseProtects, Protected
<1>3. SnapshotCurrent
  BY DEF AccountInv, SnapshotCurrent, RequestSound, Authentic
<1> QED
  BY <1>1, <1>2, <1>3 DEF AccountInv, RemovalComplete, Referenced, AccessCurrent

(* The seeded database has it. *)
LEMMA AccountInvInit == AccountInit => AccountInv
<1> SUFFICES ASSUME AccountInit PROVE AccountInv
  OBVIOUS
<1> USE AccountAssumption, NullAssumption, SeedAssumption
<1>1. SessionInv
  BY AccountInitIsSessionInit, SessionInvInit
<1>2. AccountTypeOK
  <2>1. owner \in [KBs -> Users \cup {NoOwner}]
    <3>1. FirstOwners[budget] \subseteq Users \cup {NoOwner}
      BY DEF AccountInit
    <3> QED
      BY <3>1 DEF AccountInit
  <2>2. /\ assignment \in [Users -> Nat]
        /\ grant \in [KBs -> [roles : SUBSET Roles, version : Nat]]
    BY DEF AccountInit
  <2> QED
    BY <1>1, <2>1, <2>2 DEF AccountInit, AccountTypeOK, SessionInv
<1>3. /\ \A u \in Users : ~account[u].retired
      /\ \A u \in Superusers : Active(u)
  BY DEF AccountInit, Active
<1>4. SignedOut /\ Divested
  BY <1>3 DEF SignedOut, Divested
<1>5. SuperuserRemains
  BY <1>3 DEF SuperuserRemains
<1>6. Referenced
  BY DEF AccountInit, Referenced, RolesExist, Exists
<1>7. OneLiveKey
  BY DEF AccountInit, OneLiveKey, LiveKey
<1>8. RequestSound /\ lease = {}
  BY DEF AccountInit, RequestSound, Kind
<1> QED
  BY <1>1, <1>2, <1>4, <1>5, <1>6, <1>7, <1>8 DEF AccountInv

-----------------------------------------------------------------------------
(* What keeps access as it is                                              *)

(* A scope depends on the roles held, on their permissions and on the key. *)
LEMMA ScopeKept ==
    ASSUME NEW u, NEW k, assigned'[u] = assigned[u],
           \A r \in assigned[u] : role'[r].permissions = role[r].permissions,
           k # NoKey => key'[k].scope = key[k].scope
    PROVE  Granted(u)' = Granted(u) /\ Scope(u, k)' = Scope(u, k)
<1>1. Granted(u)' = Granted(u)
  BY DEF Granted
<1> QED
  BY <1>1 DEF Scope

(* A lease stays protected by a step that leaves alone its user, the roles of
   its user, its key and its knowledge base. *)
LEMMA ProtectedKept ==
    ASSUME NEW l, Protected(l), Active(l.user)',
           assigned'[l.user] = assigned[l.user],
           \A r \in assigned[l.user] : role'[r].permissions = role[r].permissions,
           l.key # NoKey => key'[l.key] = key[l.key],
           owner'[l.kb] = owner[l.kb], grant'[l.kb].roles = grant[l.kb].roles
    PROVE  Protected(l)'
<1>1. Scope(l.user, l.key)' = Scope(l.user, l.key)
  BY ScopeKept
<1>2. Reaches(l.user, l.kb)'
  BY DEF Protected, Reaches
<1>3. l.key # NoKey => (LiveKey(l.key) /\ key[l.key].owner = l.user)'
  BY DEF Protected, LiveKey
<1> QED
  BY <1>1, <1>2, <1>3 DEF Protected

(* The fields of a lease. *)
LEMMA LeaseFields ==
    ASSUME AccountTypeOK, NEW l \in lease
    PROVE  l.user \in Users /\ l.key \in Keys \cup {NoKey} /\ l.kb \in KBs
BY DEF AccountTypeOK

(* A mutation is alone with its lock: it ends its own request, and there is no
   ordinary request that could notice. *)
LEMMA CommitKeeps ==
    ASSUME RequestSound, NEW p \in Requests, NEW needs, Locked(p, needs), Commit(p)
    PROVE  /\ RequestSound' /\ lease' = lease
           /\ req[p].user \in Users /\ Active(req[p].user)
<1>1. \A q \in Requests : Kind(q)' # "ordinary"
  BY DEF RequestSound, Locked, Commit, Kind
<1>2. \A q \in Requests : Kind(q)' = "mutation" => req'[q] = req[q] /\ Kind(q) = "mutation"
  BY DEF RequestSound, Commit, Kind
<1>3. req' = [q \in Requests |-> req'[q]]
  BY DEF RequestSound, Commit
<1> QED
  BY <1>1, <1>2, <1>3 DEF RequestSound, Commit, Locked

(* Nothing but the lease, the request and the sessions is touched. *)
LEMMA PolicyKeeps ==
    ASSUME AccountInv, SessionTypeOK', UNCHANGED policyVars, StandingKept,
           lease' \subseteq [user : Users, key : Keys \cup {NoKey}, kb : KBs]
    PROVE  /\ AccountTypeOK' /\ Divested' /\ SuperuserRemains' /\ Referenced' /\ OneLiveKey'
           /\ \A l \in lease : Protected(l)'
           /\ \A p \in Requests :
                 Kind(p) = "ordinary" /\ req'[p] = req[p] => Authentic(p)'
<1> USE DEF AccountInv
<1>0. UNCHANGED <<role, gone, assigned, assignment, key, owner, grant>>
  BY DEF policyVars
<1>1. AccountTypeOK'
  BY <1>0 DEF AccountTypeOK
<1>2. Divested'
  BY <1>0 DEF Divested, StandingKept, LiveKey
<1>3. \A u \in Users : Active(u)' <=> Active(u)
  BY DEF StandingKept, Active
<1>4. SuperuserRemains'
  BY <1>3, AccountAssumption DEF SuperuserRemains
<1>5. Referenced' /\ OneLiveKey'
  BY <1>0 DEF Referenced, RolesExist, Exists, OneLiveKey, LiveKey
<1>6. ASSUME NEW l \in lease PROVE Protected(l)'
  BY <1>0, <1>3, LeaseFields, ProtectedKept DEF Protected
<1>7. ASSUME NEW p \in Requests, Kind(p) = "ordinary", req'[p] = req[p]
      PROVE  Authentic(p)'
  <2>1. Authentic(p) /\ req[p].user \in Users
    BY <1>7 DEF RequestSound
  <2>2. Scope(req[p].user, req[p].key)' = Scope(req[p].user, req[p].key)
    BY <1>0, <1>7 DEF Scope, Granted
  <2> QED
    BY <1>0, <1>3, <1>7, <2>1, <2>2 DEF Authentic, LiveKey, Active
<1> QED
  BY <1>1, <1>2, <1>4, <1>5, <1>6, <1>7

(* What is left to show of a handler: the sessions look after themselves. *)
PolicyInv ==
    /\ AccountTypeOK /\ Divested /\ SuperuserRemains /\ Referenced /\ OneLiveKey
    /\ \A l \in lease : Protected(l)
    /\ RequestSound

(* The request locks and the leases themselves. *)
LEMMA UseKeeps ==
    ASSUME AccountInv, SessionTypeOK', NEW p \in Requests,
           \/ \E a \in Users : Begin(p, a)
           \/ \E u \in Callers, k \in Keys \cup {NoKey} : Enter(p, u, k)
           \/ \E b \in KBs : Chat(p, b)
           \/ Leave(p)
    PROVE  PolicyInv'
<1> USE NullAssumption DEF AccountInv
<1>1. UNCHANGED <<sessionVars, policyVars>>
  BY Zenon DEF Begin, Enter, Chat, Leave
<1>2. UNCHANGED account
  BY <1>1 DEF sessionVars
<1>3. StandingKept
  BY <1>2 DEF StandingKept
<1>4. UNCHANGED <<role, gone, assigned, assignment, key, owner, grant>>
  BY <1>1 DEF policyVars
<1> DEFINE Leases == [user : Users, key : Keys \cup {NoKey}, kb : KBs]
<1>5. ASSUME NEW a \in Users, Begin(p, a) PROVE PolicyInv'
  <2>1. lease' = lease /\ lease' \subseteq Leases
    BY <1>5 DEF Begin, AccountTypeOK
  <2>2. /\ req' = [q \in Requests |-> req'[q]]
        /\ req'[p].kind = "mutation" /\ req'[p].user = a
        /\ \A q \in Requests \ {p} : req'[q] = req[q]
    BY <1>5 DEF Begin, RequestSound
  <2>3. Kind(p)' # "ordinary" /\ \A q \in Requests \ {p} : Kind(q)' = Kind(q)
    BY <2>2 DEF Kind
  <2>4. RequestSound'
    BY <1>1, <1>3, <2>1, <2>2, <2>3, PolicyKeeps DEF RequestSound
  <2> QED
    BY <1>1, <1>3, <2>1, <2>4, PolicyKeeps DEF PolicyInv
<1>6. ASSUME NEW u \in Callers, NEW k \in Keys \cup {NoKey}, Enter(p, u, k)
      PROVE  PolicyInv'
  <2>1. lease' = lease /\ lease' \subseteq Leases
    BY <1>6 DEF Enter, AccountTypeOK
  <2>2. /\ req' = [q \in Requests |-> req'[q]]
        /\ req'[p].kind = "ordinary" /\ req'[p].user = u /\ req'[p].key = k
        /\ req'[p].seen = Scope(u, k)
        /\ \A q \in Requests \ {p} : req'[q] = req[q]
    BY <1>6 DEF Enter, RequestSound
  <2>3. \A q \in Requests \ {p} : Kind(q)' = Kind(q)
    BY <2>2 DEF Kind
  <2>4. Scope(u, k)' = Scope(u, k)
    BY <1>4 DEF Scope, Granted
  <2>5. Active(u)' /\ (k # NoKey => LiveKey(k)' /\ key'[k].owner = u)
    BY <1>2, <1>4, <1>6 DEF Enter, Active, LiveKey
  <2>6. Authentic(p)'
    BY <2>2, <2>4, <2>5 DEF Authentic, Active, LiveKey, Scope, Granted
  <2>7. RequestSound'
    BY <1>1, <1>3, <2>1, <2>2, <2>3, <2>6, PolicyKeeps DEF RequestSound
  <2> QED
    BY <1>1, <1>3, <2>1, <2>7, PolicyKeeps DEF PolicyInv
<1>7. ASSUME NEW b \in KBs, Chat(p, b) PROVE PolicyInv'
  <2>0. PICK l : l = [user |-> req[p].user, key |-> req[p].key, kb |-> b]
    OBVIOUS
  <2>1. Kind(p) = "ordinary" /\ Authentic(p) /\ req[p].user \in Users
    BY <1>7 DEF Chat, RequestSound
  <2>2. lease' = lease \cup {l} /\ lease' \subseteq Leases
    BY <1>7, <2>0, <2>1 DEF Chat, AccountTypeOK, Authentic
  <2>3. Protected(l)
    BY <1>7, <2>0, <2>1 DEF Chat, Protected, Authentic
  <2>4. Protected(l)'
    BY <1>2, <1>4, <2>3, ProtectedKept DEF Protected, Active
  <2>5. RequestSound'
    <3>1. /\ req' = [q \in Requests |-> req'[q]] /\ req'[p] = Idle
          /\ \A q \in Requests \ {p} : req'[q] = req[q]
      BY <1>7 DEF Chat, RequestSound
    <3>2. Kind(p)' = "idle" /\ \A q \in Requests \ {p} : Kind(q)' = Kind(q)
      BY <3>1 DEF Kind
    <3> QED
      BY <1>1, <1>3, <2>2, <3>1, <3>2, PolicyKeeps DEF RequestSound
  <2> QED
    BY <1>1, <1>3, <2>2, <2>4, <2>5, PolicyKeeps DEF PolicyInv
<1>8. CASE Leave(p)
  <2>1. lease' = lease /\ lease' \subseteq Leases
    BY <1>8 DEF Leave, AccountTypeOK
  <2>2. /\ req' = [q \in Requests |-> req'[q]] /\ req'[p] = Idle
        /\ \A q \in Requests \ {p} : req'[q] = req[q]
    BY <1>8 DEF Leave, RequestSound
  <2>3. Kind(p)' = "idle" /\ \A q \in Requests \ {p} : Kind(q)' = Kind(q)
    BY <2>2 DEF Kind
  <2>4. RequestSound'
    BY <1>1, <1>3, <2>1, <2>2, <2>3, PolicyKeeps DEF RequestSound
  <2> QED
    BY <1>1, <1>3, <2>1, <2>4, PolicyKeeps DEF PolicyInv
<1> QED
  BY <1>5, <1>6, <1>7, <1>8

(* login, refresh and logout. *)
LEMMA AuthenticateKeeps ==
    ASSUME AccountInv, SessionTypeOK', Authenticate
    PROVE  PolicyInv'
<1> USE DEF AccountInv
<1>1. StandingKept
  BY SessionStepStanding DEF Authenticate, AccountTypeOK
<1>2. UNCHANGED policyVars /\ UNCHANGED <<lease, req>>
  BY DEF Authenticate
<1>3. lease' \subseteq [user : Users, key : Keys \cup {NoKey}, kb : KBs]
  BY <1>2 DEF AccountTypeOK
<1>4. RequestSound'
  BY <1>1, <1>2, <1>3, PolicyKeeps DEF RequestSound, Kind
<1> QED
  BY <1>1, <1>2, <1>3, <1>4, PolicyKeeps DEF PolicyInv

LEMMA ChangePasswordKeeps ==
    ASSUME AccountInv, SessionTypeOK', NEW p \in Requests, NEW u \in Users,
           ChangePassword(p, u)
    PROVE  PolicyInv'
<1> USE DEF AccountInv
<1>1. StandingKept
  BY ReplacePasswordStanding DEF ChangePassword, AccountTypeOK
<1>2. UNCHANGED policyVars /\ lease' = lease /\ RequestSound'
  BY CommitKeeps, Zenon DEF ChangePassword
<1>3. lease' \subseteq [user : Users, key : Keys \cup {NoKey}, kb : KBs]
  BY <1>2 DEF AccountTypeOK
<1> QED
  BY <1>1, <1>2, <1>3, PolicyKeeps DEF PolicyInv

(* A knowledge base gets its first owner, who is active. *)
LEMMA CreateKBKeeps ==
    ASSUME AccountInv, SessionTypeOK', NEW p \in Requests, NEW b \in KBs, CreateKB(p, b)
    PROVE  PolicyInv'
<1> USE DEF AccountInv
<1>0. Kind(p) = "ordinary" /\ Authentic(p) /\ req[p].user \in Users
  BY DEF CreateKB, RequestSound
<1>1. /\ UNCHANGED <<account, role, gone, assigned, assignment, key, grant, lease>>
      /\ owner' = [owner EXCEPT ![b] = req[p].user] /\ owner[b] = NoOwner
  BY DEF CreateKB, sessionVars
<1>2. AccountTypeOK'
  BY <1>0, <1>1 DEF AccountTypeOK
<1>3. Divested'
  BY <1>0, <1>1 DEF Divested, LiveKey, Authentic, Active, AccountTypeOK
<1>4. SuperuserRemains' /\ Referenced' /\ OneLiveKey'
  BY <1>1 DEF SuperuserRemains, Active, Referenced, RolesExist, Exists, OneLiveKey, LiveKey
<1>5. ASSUME NEW l \in lease PROVE Protected(l)'
  <2>1. owner'[l.kb] = owner[l.kb] /\ Active(l.user)'
    BY <1>1, LeaseFields DEF Protected, Reaches, AccountTypeOK, Active
  <2> QED
    BY <1>1, <2>1, ProtectedKept
<1>6. RequestSound'
  <2>1. /\ req' = [q \in Requests |-> req'[q]] /\ req'[p] = Idle
        /\ \A q \in Requests \ {p} : req'[q] = req[q]
    BY DEF CreateKB, RequestSound
  <2>2. Kind(p)' = "idle" /\ \A q \in Requests \ {p} : Kind(q)' = Kind(q)
    BY <2>1 DEF Kind
  <2>3. ASSUME NEW q \in Requests \ {p}, Authentic(q) PROVE Authentic(q)'
    <3>1. req'[q] = req[q]
      BY <2>1
    <3>2. Scope(req[q].user, req[q].key)' = Scope(req[q].user, req[q].key)
      BY <1>1, <3>1 DEF Scope, Granted
    <3> QED
      BY <1>1, <2>3, <3>1, <3>2 DEF Authentic, Active, LiveKey
  <2> QED
    BY <2>1, <2>2, <2>3 DEF RequestSound
<1> QED
  BY <1>1, <1>2, <1>3, <1>4, <1>5, <1>6 DEF PolicyInv

(* A budget policy changes nothing that a call or a request relies on, and
   limits a secret that works or none at all. *)
LEMMA CreateBudgetKeeps ==
    ASSUME AccountInv, SessionTypeOK', NEW p \in Requests, NEW k \in Keys, CreateBudget(p, k)
    PROVE  PolicyInv'
<1> USE NullAssumption DEF AccountInv
<1>1. /\ UNCHANGED <<account, role, gone, assigned, assignment, owner, grant, lease>>
      /\ key[k] \in KeyRow
      /\ key' = [key EXCEPT ![k].budget = IF LiveKey(k) THEN "limit" ELSE "stray"]
  BY DEF CreateBudget, sessionVars, AccountTypeOK
<1>2. PICK row \in KeyRow :
        /\ key' = [key EXCEPT ![k] = row]
        /\ row.live = key[k].live /\ row.owner = key[k].owner
        /\ row.family = key[k].family /\ row.scope = key[k].scope
        /\ row.budget = IF LiveKey(k) THEN "limit" ELSE "stray"
  <2> DEFINE b == IF LiveKey(k) THEN "limit" ELSE "stray"
             row == [key[k] EXCEPT !.budget = b]
  <2>1. b \in {"none", "limit", "stray"}
    OBVIOUS
  <2>2. key' = [key EXCEPT ![k] = row]
    BY <1>1
  <2> HIDE DEF b
  <2>3. /\ row \in KeyRow /\ row.budget = b
        /\ row.live = key[k].live /\ row.owner = key[k].owner
        /\ row.family = key[k].family /\ row.scope = key[k].scope
    BY <1>1, <2>1 DEF KeyRow
  <2> HIDE DEF row
  <2> QED
    BY <2>2, <2>3 DEF b
<1>3. /\ key' \in [Keys -> KeyRow \cup {NoKey}]
      /\ key'[k] = row /\ \A j \in Keys \ {k} : key'[j] = key[j]
  BY <1>2 DEF AccountTypeOK
<1>4. /\ k \in Keys /\ key[k] # NoKey /\ row # NoKey
      /\ LiveKey(k)' = LiveKey(k)
      /\ \A j \in Keys \ {k} : LiveKey(j)' = LiveKey(j)
  BY <1>1, <1>2, <1>3 DEF LiveKey, KeyRow
<1>5. \A j \in Keys : /\ LiveKey(j)' = LiveKey(j)
                      /\ key[j] # NoKey => /\ key'[j].owner = key[j].owner
                                           /\ key'[j].scope = key[j].scope
  BY <1>2, <1>3, <1>4
<1>6. AccountTypeOK'
  BY <1>1, <1>3 DEF AccountTypeOK
<1>7. Divested' /\ SuperuserRemains'
  <2>1. Divested'
    BY <1>1, <1>5 DEF Divested, LiveKey
  <2>2. SuperuserRemains'
    BY <1>1 DEF SuperuserRemains, Active
  <2> QED
    BY <2>1, <2>2
<1>8. Referenced'
  <2>1. \A j \in Keys : key[j] # NoKey => key[j].family \in Keys /\ key[key[j].family] # NoKey
    BY DEF Referenced, AccountTypeOK, KeyRow
  <2>2. \A j \in Keys : key'[j] # NoKey => key'[key'[j].family] # NoKey
    BY <1>2, <1>3, <1>4, <2>1
  <2> QED
    BY <1>1, <2>2 DEF Referenced, RolesExist, Exists
<1>9. OneLiveKey'
  <2> SUFFICES ASSUME NEW i \in Keys, NEW j \in Keys, LiveKey(i)', key'[j] # NoKey,
                      key'[j].family = key'[i].family
               PROVE  /\ LiveKey(j)' => j = i
                      /\ key'[j].budget = "limit" => key'[i].budget = "limit"
    BY DEF OneLiveKey
  <2>1. /\ LiveKey(i) /\ key[j] # NoKey /\ key[j].family = key[i].family
        /\ LiveKey(j)' = LiveKey(j)
    BY <1>2, <1>3, <1>4, <1>5 DEF LiveKey
  <2>2. /\ LiveKey(j) => j = i
        /\ key[j].budget = "limit" => key[i].budget = "limit"
    BY <2>1 DEF OneLiveKey
  <2>3. CASE i = k
    BY <1>2, <1>3, <2>1, <2>2, <2>3
  <2>4. CASE i # k
    BY <1>2, <1>3, <2>1, <2>2, <2>4
  <2> QED
    BY <2>1, <2>2, <2>3, <2>4
<1>10. ASSUME NEW u, NEW j \in Keys \cup {NoKey}, j # NoKey => LiveKey(j)
       PROVE  Scope(u, j)' = Scope(u, j)
  <2>1. j # NoKey => key'[j].scope = key[j].scope
    BY <1>5, <1>10 DEF LiveKey
  <2> QED
    BY <1>1, <2>1, ScopeKept
<1>11. ASSUME NEW l \in lease PROVE Protected(l)'
  <2>1. l.key \in Keys \cup {NoKey} /\ Protected(l)
    BY LeaseFields
  <2>2. l.key # NoKey => LiveKey(l.key)
    BY <2>1 DEF Protected
  <2>3. Scope(l.user, l.key)' = Scope(l.user, l.key)
    BY <1>10, <2>1, <2>2
  <2>4. Active(l.user)' /\ Reaches(l.user, l.kb)'
    BY <1>1, <2>1 DEF Protected, Active, Reaches
  <2>5. l.key # NoKey => LiveKey(l.key)' /\ key'[l.key].owner = l.user
    BY <1>5, <2>1, <2>2 DEF Protected, LiveKey
  <2> QED
    BY <2>1, <2>3, <2>4, <2>5 DEF Protected
<1>12. RequestSound'
  <2>1. /\ req' = [q \in Requests |-> req'[q]] /\ req'[p] = Idle
        /\ \A q \in Requests \ {p} : req'[q] = req[q]
    BY DEF CreateBudget, RequestSound
  <2>2. Kind(p)' = "idle" /\ \A q \in Requests \ {p} : Kind(q)' = Kind(q)
    BY <2>1 DEF Kind
  <2>3. ASSUME NEW q \in Requests \ {p}, Authentic(q) PROVE Authentic(q)'
    <3>1. req'[q] = req[q]
      BY <2>1
    <3>2. req[q].key # NoKey => LiveKey(req[q].key)
      BY <2>3 DEF Authentic
    <3>3. Scope(req[q].user, req[q].key)' = Scope(req[q].user, req[q].key)
      BY <1>10, <2>3, <3>1, <3>2 DEF Authentic
    <3>4. Active(req[q].user)'
      BY <1>1, <2>3, <3>1 DEF Authentic, Active
    <3>5. req[q].key # NoKey => LiveKey(req[q].key)' /\ key'[req[q].key].owner = req[q].user
      BY <1>5, <2>3, <3>1, <3>2 DEF Authentic, LiveKey
    <3> QED
      BY <2>3, <3>1, <3>3, <3>4, <3>5 DEF Authentic
  <2> QED
    BY <2>1, <2>2, <2>3 DEF RequestSound
<1> QED
  BY <1>1, <1>6, <1>7, <1>8, <1>9, <1>11, <1>12 DEF PolicyInv

-----------------------------------------------------------------------------
(* users.py                                                                *)

LEMMA CreateUserKeeps ==
    ASSUME AccountInv, SessionTypeOK', NEW p \in Requests, NEW u \in Users,
           NEW R \in RoleSets, CreateUser(p, u, R)
    PROVE  PolicyInv'
<1> USE AccountAssumption DEF AccountInv
<1>1. RequestSound' /\ lease' = lease
  BY CommitKeeps, Zenon DEF CreateUser
<1>2. /\ assigned' = [assigned EXCEPT ![u] = R]
      /\ assignment' = [assignment EXCEPT ![u] = 1]
      /\ UNCHANGED <<role, gone, key, owner, grant>>
      /\ \A r \in R : Exists(r)
  BY DEF CreateUser
<1>3. /\ account[u].status = "ABSENT" /\ ~account'[u].retired
      /\ \A v \in Users \ {u} : account'[v] = account[v]
  BY EnrolStanding DEF CreateUser, AccountTypeOK
<1>4. R \subseteq Roles
  OBVIOUS
<1>5. AccountTypeOK'
  BY <1>1, <1>2, <1>4 DEF AccountTypeOK
<1>6. \A v \in Users : Active(v) => v # u /\ Active(v)'
  BY <1>3 DEF Active
<1>7. Divested'
  BY <1>2, <1>3 DEF Divested, LiveKey, AccountTypeOK
<1>8. SuperuserRemains'
  BY <1>6 DEF SuperuserRemains
<1>9. Referenced' /\ OneLiveKey'
  <2>1. \A v \in Users : \A r \in assigned'[v] : Exists(r)
    BY <1>2 DEF Referenced, RolesExist, AccountTypeOK
  <2> QED
    BY <1>2, <2>1 DEF Referenced, RolesExist, Exists, OneLiveKey, LiveKey
<1>10. ASSUME NEW l \in lease PROVE Protected(l)'
  <2>1. l.user \in Users /\ l.user # u /\ Active(l.user)'
    BY <1>6, LeaseFields DEF Protected
  <2>2. assigned'[l.user] = assigned[l.user]
    BY <1>2, <2>1 DEF AccountTypeOK
  <2> QED
    BY <1>2, <2>1, <2>2, ProtectedKept
<1> QED
  BY <1>1, <1>5, <1>7, <1>8, <1>9, <1>10 DEF PolicyInv

(* Only a superuser who is not the last one is shut out, and nobody in an
   external call. *)
LEMMA UpdateUserKeeps ==
    ASSUME AccountInv, SessionTypeOK', NEW p \in Requests, NEW u \in Users,
           NEW s \in Status \ {"ABSENT"}, UpdateUser(p, u, s)
    PROVE  PolicyInv'
<1> USE AccountAssumption DEF AccountInv
<1>1. RequestSound' /\ lease' = lease
  BY CommitKeeps, Zenon DEF UpdateUser
<1>2. UNCHANGED <<role, gone, assigned, assignment, key, owner, grant>>
  BY DEF UpdateUser, policyVars
<1>3. /\ account'[u].status = s /\ account'[u].retired = account[u].retired
      /\ account[u].retired => s = account[u].status
      /\ \A v \in Users \ {u} : account'[v] = account[v]
  BY EndSessionsStanding DEF UpdateUser, AccountTypeOK
<1>4. AccountTypeOK'
  BY <1>1, <1>2 DEF AccountTypeOK
<1>5. Divested'
  BY <1>2, <1>3 DEF Divested, LiveKey
<1>6. SuperuserRemains'
  <2>1. CASE u \in Superusers /\ s # "ACTIVE"
    <3>1. PICK v \in Superusers \ {u} : Active(v)
      BY <2>1 DEF UpdateUser, OtherSuperuser
    <3> QED
      BY <3>1, <1>3 DEF SuperuserRemains, Active
  <2>2. CASE ~(u \in Superusers /\ s # "ACTIVE")
    BY <2>2, <1>3 DEF SuperuserRemains, Active
  <2> QED
    BY <2>1, <2>2
<1>7. Referenced' /\ OneLiveKey'
  BY <1>2 DEF Referenced, RolesExist, Exists, OneLiveKey, LiveKey
<1>8. ASSUME NEW l \in lease PROVE Protected(l)'
  <2>1. l.user \in Users /\ Active(l.user)
    BY LeaseFields DEF Protected
  <2>2. Active(l.user)'
    BY <1>3, <2>1 DEF UpdateUser, NoEgressOf, Active
  <2> QED
    BY <1>2, <2>2, ProtectedKept
<1> QED
  BY <1>1, <1>4, <1>5, <1>6, <1>7, <1>8 DEF PolicyInv

(* What a handler may set in a row of api_keys. *)
LEMMA KeyRowUpdates ==
    ASSUME NEW row \in KeyRow, NEW new, new = [row EXCEPT !.live = FALSE]
    PROVE  /\ new \in KeyRow /\ ~new.live
           /\ new.family = row.family /\ new.owner = row.owner
           /\ new.budget = row.budget
           /\ row # NoKey
BY NullAssumption DEF KeyRow

(* Retirement takes the roles, the keys and the knowledge bases with it, and
   hands the latter to an active heir. *)
LEMMA RetireUserKeeps ==
    ASSUME AccountInv, SessionTypeOK', NEW p \in Requests, NEW u \in Users,
           NEW heir \in Users \cup {NoOwner}, RetireUser(p, u, heir)
    PROVE  PolicyInv'
<1> USE AccountAssumption, NullAssumption DEF AccountInv
<1>1. RequestSound' /\ lease' = lease
  BY CommitKeeps, Zenon DEF RetireUser
<1>2. /\ assigned' = [assigned EXCEPT ![u] = {}]
      /\ key' = RevokeKeys(u)
      /\ owner' = [b \in KBs |-> IF owner[b] = u THEN heir ELSE owner[b]]
      /\ UNCHANGED <<role, gone, grant>>
      /\ \A b \in KBs : owner[b] = u => NoEgressOn(b) /\ heir # NoOwner
      /\ NoEgressOf(u)
      /\ heir # NoOwner => heir # u /\ Active(heir)
      /\ u \in Superusers => OtherSuperuser(u)
  BY DEF RetireUser, Retirable
<1>3. /\ account'[u].status = "DISABLED" /\ account'[u].retired
      /\ \A v \in Users \ {u} : account'[v] = account[v]
  BY RetireAccountStanding DEF RetireUser, AccountTypeOK
<1>4. /\ key' \in [Keys -> KeyRow \cup {NoKey}]
      /\ \A k \in Keys : (LiveKey(k))' => LiveKey(k) /\ key[k].owner # u
      /\ \A k \in Keys : key[k] # NoKey =>
            /\ key'[k] # NoKey /\ key'[k].family = key[k].family
            /\ key'[k].owner = key[k].owner /\ key'[k].budget = key[k].budget
      /\ \A k \in Keys : key'[k] = NoKey \/ key[k] # NoKey
      /\ \A k \in Keys : key[k] # NoKey /\ key[k].owner # u => key'[k] = key[k]
  <2>1. /\ key' = [k \in Keys |-> key'[k]]
        /\ \A k \in Keys : LiveKey(k) /\ key[k].owner = u
                             => key'[k] = [key[k] EXCEPT !.live = FALSE]
        /\ \A k \in Keys : ~(LiveKey(k) /\ key[k].owner = u) => key'[k] = key[k]
    BY <1>2 DEF RevokeKeys
  <2>2. ASSUME NEW k \in Keys, LiveKey(k), key[k].owner = u
        PROVE  /\ key'[k] \in KeyRow /\ ~key'[k].live
               /\ key'[k].family = key[k].family
               /\ key'[k].owner = key[k].owner /\ key'[k].budget = key[k].budget
    <3>1. key[k] \in KeyRow
      BY <2>2 DEF LiveKey, AccountTypeOK
    <3>2. key'[k] = [key[k] EXCEPT !.live = FALSE]
      BY <2>1, <2>2
    <3> QED
      BY <3>1, <3>2, KeyRowUpdates
  <2>3. \A k \in Keys : key'[k] \in KeyRow \cup {NoKey}
    BY <2>1, <2>2 DEF AccountTypeOK
  <2> QED
    BY <2>1, <2>2, <2>3 DEF LiveKey
<1>5. AccountTypeOK'
  <2>1. owner' \in [KBs -> Users \cup {NoOwner}] /\ assigned' \in [Users -> SUBSET Roles]
    BY <1>2 DEF AccountTypeOK
  <2>2. assignment' \in [Users -> Nat]
    BY DEF RetireUser, AccountTypeOK
  <2> QED
    BY <1>1, <1>2, <1>4, <2>1, <2>2 DEF AccountTypeOK
<1>6. Divested'
  <2> SUFFICES ASSUME NEW v \in Users, account'[v].retired
               PROVE  /\ assigned'[v] = {}
                      /\ \A k \in Keys : LiveKey(k)' => key'[k].owner # v
                      /\ \A b \in KBs : owner'[b] # v
    BY DEF Divested
  <2>1. v # u => /\ account[v].retired /\ assigned[v] = {}
                 /\ \A k \in Keys : LiveKey(k) => key[k].owner # v
                 /\ \A b \in KBs : owner[b] # v
    BY <1>3 DEF Divested
  <2>2. assigned'[v] = {}
    BY <1>2, <2>1 DEF AccountTypeOK
  <2>3. ASSUME NEW k \in Keys, LiveKey(k)' PROVE key'[k].owner # v
    BY <1>4, <2>1, <2>3 DEF LiveKey
  <2>4. ASSUME NEW b \in KBs PROVE owner'[b] # v
    <3>1. CASE owner[b] = u
      BY <1>2, <1>3, <2>1, <3>1 DEF Active
    <3>2. CASE owner[b] # u
      BY <1>2, <2>1, <3>2
    <3> QED
      BY <3>1, <3>2
  <2> QED
    BY <2>2, <2>3, <2>4
<1>7. SuperuserRemains'
  <2>1. PICK v \in Superusers \ {u} : Active(v)
    BY <1>2 DEF OtherSuperuser, SuperuserRemains
  <2> QED
    BY <1>3, <2>1 DEF SuperuserRemains, Active
<1>8. Referenced'
  <2>1. \A v \in Users : assigned'[v] \subseteq assigned[v]
    BY <1>2 DEF AccountTypeOK
  <2>2. \A k \in Keys : key[k] # NoKey => key[k].family \in Keys
    BY DEF AccountTypeOK, KeyRow
  <2>3. \A k \in Keys : key'[k] # NoKey => key'[key'[k].family] # NoKey
    BY <1>4, <2>2 DEF Referenced
  <2> QED
    BY <1>2, <2>1, <2>3 DEF Referenced, RolesExist, Exists
<1>9. OneLiveKey'
  BY <1>4 DEF OneLiveKey, LiveKey
<1>10. ASSUME NEW l \in lease PROVE Protected(l)'
  <2>1. l.user \in Users /\ l.user # u /\ Active(l.user) /\ l.kb \in KBs
        /\ l.key \in Keys \cup {NoKey}
    BY <1>2, LeaseFields DEF Protected, NoEgressOf
  <2>2. assigned'[l.user] = assigned[l.user] /\ Active(l.user)'
    BY <1>2, <1>3, <2>1 DEF AccountTypeOK, Active
  <2>3. owner'[l.kb] = owner[l.kb]
    BY <1>2, <2>1 DEF NoEgressOn
  <2>4. l.key # NoKey => key'[l.key] = key[l.key]
    BY <1>4, <2>1 DEF Protected, LiveKey
  <2> QED
    BY <1>2, <2>2, <2>3, <2>4, ProtectedKept
<1> QED
  BY <1>1, <1>5, <1>6, <1>7, <1>8, <1>9, <1>10 DEF PolicyInv

LEMMA ReplaceUserRolesKeeps ==
    ASSUME AccountInv, SessionTypeOK', NEW p \in Requests, NEW u \in Users,
           NEW R \in RoleSets, ReplaceUserRoles(p, u, R)
    PROVE  PolicyInv'
<1> USE AccountAssumption DEF AccountInv
<1>1. RequestSound' /\ lease' = lease
  BY CommitKeeps, Zenon DEF ReplaceUserRoles
<1>2. /\ assigned' = [assigned EXCEPT ![u] = R]
      /\ assignment' = [assignment EXCEPT ![u] = @ + 1]
      /\ UNCHANGED <<role, gone, key, owner, grant>>
      /\ \A r \in R : Exists(r)
      /\ NoEgressOf(u) /\ (account[u].retired => R = {})
  BY DEF ReplaceUserRoles
<1>3. account[u].status \in Status /\ EndSessions(u, account[u].status)
  BY DEF ReplaceUserRoles, AccountTypeOK, SessionTypeOK, AccountRow
<1>4. StandingKept
  BY <1>3, EndSessionsStanding DEF AccountTypeOK, StandingKept
<1>5. AccountTypeOK'
  BY <1>1, <1>2 DEF AccountTypeOK
<1>6. Divested'
  BY <1>2, <1>4 DEF Divested, LiveKey, AccountTypeOK, StandingKept
<1>7. SuperuserRemains'
  BY <1>4 DEF SuperuserRemains, Active, StandingKept
<1>8. Referenced' /\ OneLiveKey'
  <2>1. \A v \in Users : \A r \in assigned'[v] : Exists(r)
    BY <1>2 DEF Referenced, RolesExist, AccountTypeOK
  <2> QED
    BY <1>2, <2>1 DEF Referenced, RolesExist, Exists, OneLiveKey, LiveKey
<1>9. ASSUME NEW l \in lease PROVE Protected(l)'
  <2>1. l.user \in Users /\ l.user # u /\ Active(l.user)'
    BY <1>2, <1>4, LeaseFields DEF Protected, NoEgressOf, Active, StandingKept
  <2>2. assigned'[l.user] = assigned[l.user]
    BY <1>2, <2>1 DEF AccountTypeOK
  <2> QED
    BY <1>2, <2>1, <2>2, ProtectedKept
<1> QED
  BY <1>1, <1>5, <1>6, <1>7, <1>8, <1>9 DEF PolicyInv

(* seed_database gives back a role that exists, to a superuser whose access
   does not depend on roles. *)
LEMMA BootstrapKeeps ==
    ASSUME AccountInv, SessionTypeOK', NEW u \in Users, NEW r \in Roles, Bootstrap(u, r)
    PROVE  PolicyInv'
<1> USE AccountAssumption, SeedAssumption DEF AccountInv
<1>1. /\ assigned' = [assigned EXCEPT ![u] = @ \cup {r}]
      /\ assignment' = [assignment EXCEPT ![u] = @ + 1]
      /\ UNCHANGED <<role, gone, key, owner, grant, lease, req>>
      /\ u \in Superusers /\ Active(u) /\ r \in SystemRoles
      /\ \A p \in Requests : Kind(p) # "ordinary"
  BY DEF Bootstrap
<1>2. "ACTIVE" \in Status /\ EndSessions(u, "ACTIVE")
  BY DEF Bootstrap, Status
<1>3. StandingKept
  BY <1>1, <1>2, EndSessionsStanding DEF AccountTypeOK, StandingKept, Active
<1>4. AccountTypeOK'
  BY <1>1 DEF AccountTypeOK
<1>5. Divested'
  BY <1>1, <1>3 DEF Divested, LiveKey, AccountTypeOK, StandingKept, Active
<1>6. SuperuserRemains'
  BY <1>3 DEF SuperuserRemains, Active, StandingKept
<1>7. Referenced' /\ OneLiveKey'
  <2>1. \A v \in Users : \A q \in assigned'[v] : Exists(q)
    BY <1>1 DEF Referenced, RolesExist, AccountTypeOK
  <2> QED
    BY <1>1, <2>1 DEF Referenced, RolesExist, Exists, OneLiveKey, LiveKey
<1>8. ASSUME NEW l \in lease PROVE Protected(l)'
  <2>1. l.user \in Users /\ Active(l.user)'
    BY <1>3, LeaseFields DEF Protected, Active, StandingKept
  <2>2. CASE l.user = u
    <3>1. Scope(u, l.key)' = Scope(u, l.key)
      BY <1>1 DEF Scope, Granted
    <3> QED
      BY <1>1, <2>1, <2>2, <3>1 DEF Protected, Reaches, LiveKey
  <2>3. CASE l.user # u
    BY <1>1, <2>1, <2>3, ProtectedKept DEF AccountTypeOK
  <2> QED
    BY <2>2, <2>3
<1>9. RequestSound'
  BY <1>1 DEF RequestSound, Kind
<1> QED
  BY <1>1, <1>4, <1>5, <1>6, <1>7, <1>8, <1>9 DEF PolicyInv

-----------------------------------------------------------------------------
(* roles.py, knowledge_bases.py and api_keys.py                            *)

(* Of the sessions and the rest, a role handler touches nothing. *)
RoleOnly == UNCHANGED <<account, assigned, assignment, key, owner, grant>>

(* A role is written.  An external call is not in the way when no permission
   changes; when one changes, nobody with the role is in one. *)
LEMMA RoleWritten ==
    ASSUME AccountInv, SessionTypeOK', RequestSound', lease' = lease, RoleOnly,
           NEW r \in Roles, NEW row \in RoleRow,
           role' = [role EXCEPT ![r] = row], gone' = gone,
           NoEgressUnder(r) \/ row.permissions = role[r].permissions
    PROVE  PolicyInv'
<1> USE NullAssumption DEF AccountInv, RoleOnly
<1>1. AccountTypeOK'
  BY DEF AccountTypeOK
<1>2. Divested' /\ SuperuserRemains' /\ OneLiveKey'
  BY DEF Divested, SuperuserRemains, Active, OneLiveKey, LiveKey
<1>3. \A q \in Roles : Exists(q) => Exists(q)'
  BY DEF Exists, AccountTypeOK
<1>4. Referenced'
  <2>1. /\ \A u \in Users : assigned'[u] \subseteq Roles
        /\ \A b \in KBs : grant'[b].roles \subseteq Roles
    BY DEF AccountTypeOK
  <2> QED
    BY <1>3, <2>1, SeedAssumption DEF Referenced, RolesExist
<1>5. ASSUME NEW l \in lease PROVE Protected(l)'
  <2>1. l.user \in Users /\ Active(l.user)'
    BY LeaseFields DEF Protected, Active
  <2>2. \A q \in assigned[l.user] : role'[q].permissions = role[q].permissions
    BY <2>1 DEF NoEgressUnder, AccountTypeOK
  <2> QED
    BY <2>1, <2>2, ProtectedKept
<1> QED
  BY <1>1, <1>2, <1>4, <1>5 DEF PolicyInv

(* Rows of roles, as the handlers write them. *)
LEMMA RoleRowUpdates ==
    ASSUME NEW row \in RoleRow
    PROVE  /\ \A x \in 1..MaxPriority : /\ [row EXCEPT !.priority = x, !.version = @ + 1] \in RoleRow
                             /\ [row EXCEPT !.priority = x, !.version = @ + 1].permissions = row.permissions
           /\ \A P \in SUBSET Permissions :
                 [row EXCEPT !.permissions = P, !.version = @ + 1] \in RoleRow
           /\ \A n \in 0..MaxLimit : /\ [row EXCEPT !.limit = n, !.version = @ + 1] \in RoleRow
                                     /\ [row EXCEPT !.limit = n, !.version = @ + 1].permissions = row.permissions
           /\ \A P \in SUBSET Permissions, n \in 0..MaxLimit :
                 [row EXCEPT !.permissions = P, !.limit = n, !.version = @ + 1] \in RoleRow
<1>1. row.version + 1 \in Nat
  BY DEF RoleRow
<1>2. ASSUME NEW v \in Nat
      PROVE  /\ \A x \in 1..MaxPriority : /\ [row EXCEPT !.priority = x, !.version = v] \in RoleRow
                               /\ [row EXCEPT !.priority = x, !.version = v].permissions = row.permissions
             /\ \A P \in SUBSET Permissions :
                   [row EXCEPT !.permissions = P, !.version = v] \in RoleRow
             /\ \A n \in 0..MaxLimit : /\ [row EXCEPT !.limit = n, !.version = v] \in RoleRow
                                       /\ [row EXCEPT !.limit = n, !.version = v].permissions = row.permissions
             /\ \A P \in SUBSET Permissions, n \in 0..MaxLimit :
                   [row EXCEPT !.permissions = P, !.limit = n, !.version = v] \in RoleRow
  BY DEF RoleRow
<1> QED
  BY <1>1, <1>2

(* A role that is being edited exists, and its row is well formed. *)
LEMMA EditedRole ==
    ASSUME AccountTypeOK, NEW p \in Requests, NEW r \in Roles, Editing(p, r)
    PROVE  role[r] \in RoleRow /\ Locked(p, {"role:manage"}) /\ r \notin SystemRoles
BY DEF AccountTypeOK, Editing, Exists

LEMMA UpdateRoleKeeps ==
    ASSUME AccountInv, SessionTypeOK', NEW p \in Requests, NEW r \in Roles,
           NEW pr \in Priorities, UpdateRole(p, r, pr)
    PROVE  PolicyInv'
<1>1. Editing(p, r) /\ Commit(p) /\ RoleOnly /\ gone' = gone
  BY DEF UpdateRole, sessionVars, RoleOnly
<1>2. role[r] \in RoleRow /\ Locked(p, {"role:manage"})
  BY <1>1, EditedRole DEF AccountInv
<1>3. pr \in 1..MaxPriority
  BY AccountAssumption
<1>4. role' = [role EXCEPT ![r] = [role[r] EXCEPT !.priority = pr, !.version = @ + 1]]
  BY DEF UpdateRole
<1>5. PICK row \in RoleRow : /\ role' = [role EXCEPT ![r] = row]
                             /\ row.permissions = role[r].permissions
  BY <1>2, <1>3, <1>4, RoleRowUpdates, Zenon
<1> QED
  BY <1>1, <1>2, <1>5, CommitKeeps, RoleWritten DEF AccountInv

LEMMA ReplacePermissionsKeeps ==
    ASSUME AccountInv, SessionTypeOK', NEW p \in Requests, NEW r \in Roles,
           NEW P \in Policies, ReplacePermissions(p, r, P)
    PROVE  PolicyInv'
<1>1. Editing(p, r) /\ Commit(p) /\ RoleOnly /\ gone' = gone /\ NoEgressUnder(r)
  BY DEF ReplacePermissions, sessionVars, RoleOnly
<1>2. role[r] \in RoleRow /\ Locked(p, {"role:manage"})
  BY <1>1, EditedRole DEF AccountInv
<1>3. P \in SUBSET Permissions
  BY AccountAssumption
<1>4. role' = [role EXCEPT ![r] = [role[r] EXCEPT !.permissions = P, !.version = @ + 1]]
  BY DEF ReplacePermissions
<1>5. PICK row \in RoleRow : role' = [role EXCEPT ![r] = row]
  BY <1>2, <1>3, <1>4, RoleRowUpdates, Zenon
<1> QED
  BY <1>1, <1>2, <1>5, CommitKeeps, RoleWritten DEF AccountInv

LEMMA ReplacePolicyKeeps ==
    ASSUME AccountInv, SessionTypeOK', NEW p \in Requests, NEW r \in Roles,
           NEW P \in Policies, NEW n \in 0..MaxLimit, ReplacePolicy(p, r, P, n)
    PROVE  PolicyInv'
<1>1. Editing(p, r) /\ Commit(p) /\ RoleOnly /\ gone' = gone /\ NoEgressUnder(r)
  BY Zenon DEF ReplacePolicy, sessionVars, RoleOnly
<1>2. role[r] \in RoleRow /\ Locked(p, {"role:manage"})
  BY <1>1, EditedRole DEF AccountInv
<1>3. P \in SUBSET Permissions
  BY AccountAssumption
<1>4. role' = [role EXCEPT ![r] =
                 [role[r] EXCEPT !.permissions = P, !.limit = n, !.version = @ + 1]]
  BY DEF ReplacePolicy
<1>5. PICK row \in RoleRow : role' = [role EXCEPT ![r] = row]
  BY <1>2, <1>3, <1>4, RoleRowUpdates, Zenon
<1> QED
  BY <1>1, <1>2, <1>5, CommitKeeps, RoleWritten DEF AccountInv

LEMMA ReplaceLimitsKeeps ==
    ASSUME AccountInv, SessionTypeOK', NEW p \in Requests, NEW r \in Roles,
           NEW n \in 0..MaxLimit, ReplaceLimits(p, r, n)
    PROVE  PolicyInv'
<1>1. Editing(p, r) /\ Commit(p) /\ RoleOnly /\ gone' = gone
  BY DEF ReplaceLimits, sessionVars, RoleOnly
<1>2. role[r] \in RoleRow /\ Locked(p, {"role:manage"})
  BY <1>1, EditedRole DEF AccountInv
<1>3. role' = [role EXCEPT ![r] = [role[r] EXCEPT !.limit = n, !.version = @ + 1]]
  BY DEF ReplaceLimits
<1>4. PICK row \in RoleRow : /\ role' = [role EXCEPT ![r] = row]
                             /\ row.permissions = role[r].permissions
  BY <1>2, <1>3, RoleRowUpdates, Zenon
<1> QED
  BY <1>1, <1>2, <1>4, CommitKeeps, RoleWritten DEF AccountInv

(* Nobody holds a role that is only being created. *)
LEMMA CreateRoleKeeps ==
    ASSUME AccountInv, SessionTypeOK', NEW p \in Requests, NEW r \in Roles,
           NEW pr \in Priorities, NEW P \in Policies, NEW n \in 0..MaxLimit,
           CreateRole(p, r, pr, P, n)
    PROVE  PolicyInv'
<1>1. Locked(p, {"role:manage"}) /\ Commit(p) /\ RoleOnly /\ gone' = gone /\ ~Exists(r)
  BY DEF CreateRole, sessionVars, RoleOnly
<1>2. PICK row \in RoleRow : role' = [role EXCEPT ![r] = row]
  BY AccountAssumption DEF CreateRole, RoleRow
<1>3. NoEgressUnder(r)
  BY <1>1, LeaseFields DEF NoEgressUnder, AccountInv, Referenced, RolesExist
<1> QED
  BY <1>1, <1>2, <1>3, CommitKeeps, RoleWritten DEF AccountInv

LEMMA DeleteRoleKeeps ==
    ASSUME AccountInv, SessionTypeOK', NEW p \in Requests, NEW r \in Roles, DeleteRole(p, r)
    PROVE  PolicyInv'
<1> USE DEF AccountInv, RoleOnly
<1>1. Editing(p, r) /\ Commit(p) /\ RoleOnly /\ Unused(r)
      /\ role' = [role EXCEPT ![r] = NoRole] /\ gone' = gone \cup {r}
  BY DEF DeleteRole, sessionVars
<1>2. RequestSound' /\ lease' = lease /\ r \notin SystemRoles
  BY <1>1, EditedRole, CommitKeeps
<1>3. AccountTypeOK'
  BY <1>1, <1>2 DEF AccountTypeOK
<1>4. Divested' /\ SuperuserRemains' /\ OneLiveKey'
  BY <1>1 DEF Divested, SuperuserRemains, Active, OneLiveKey, LiveKey
<1>5. \A q \in Roles : q # r /\ Exists(q) => Exists(q)'
  BY <1>1 DEF Exists, AccountTypeOK
<1>6. Referenced'
  <2>1. /\ \A u \in Users : assigned'[u] \subseteq Roles /\ r \notin assigned'[u]
        /\ \A b \in KBs : grant'[b].roles \subseteq Roles /\ r \notin grant'[b].roles
    BY <1>1 DEF AccountTypeOK, Unused
  <2> QED
    BY <1>1, <1>2, <1>5, <2>1, SeedAssumption DEF Referenced, RolesExist
<1>7. ASSUME NEW l \in lease PROVE Protected(l)'
  <2>1. l.user \in Users /\ Active(l.user)'
    BY <1>1, LeaseFields DEF Protected, Active
  <2>2. \A q \in assigned[l.user] : role'[q].permissions = role[q].permissions
    BY <1>1, <2>1 DEF Unused, AccountTypeOK
  <2> QED
    BY <1>1, <2>1, <2>2, ProtectedKept
<1> QED
  BY <1>2, <1>3, <1>4, <1>6, <1>7 DEF PolicyInv

LEMMA ReplaceRoleGrantsKeeps ==
    ASSUME AccountInv, SessionTypeOK', NEW p \in Requests, NEW b \in KBs,
           NEW R \in RoleSets, ReplaceRoleGrants(p, b, R)
    PROVE  PolicyInv'
<1> USE AccountAssumption DEF AccountInv
<1>1. RequestSound' /\ lease' = lease
  BY CommitKeeps, Zenon DEF ReplaceRoleGrants
<1>2. /\ grant' = [grant EXCEPT ![b] = [roles |-> R, version |-> grant[b].version + 1]]
      /\ UNCHANGED <<account, role, gone, assigned, assignment, key, owner>>
      /\ \A r \in R : Exists(r)
      /\ NoEgressOn(b)
  BY DEF ReplaceRoleGrants, sessionVars
<1>3. AccountTypeOK'
  <2>1. [roles |-> R, version |-> grant[b].version + 1] \in [roles : SUBSET Roles, version : Nat]
    BY DEF AccountTypeOK
  <2> QED
    BY <1>1, <1>2, <2>1 DEF AccountTypeOK
<1>4. Divested' /\ SuperuserRemains' /\ OneLiveKey'
  BY <1>2 DEF Divested, SuperuserRemains, Active, OneLiveKey, LiveKey
<1>5. Referenced'
  <2>1. \A c \in KBs : \A r \in grant'[c].roles : Exists(r)
    BY <1>2 DEF Referenced, RolesExist, AccountTypeOK
  <2> QED
    BY <1>2, <2>1 DEF Referenced, RolesExist, Exists
<1>6. ASSUME NEW l \in lease PROVE Protected(l)'
  <2>1. Active(l.user)' /\ l.kb # b /\ l.kb \in KBs
    BY <1>2, LeaseFields DEF Protected, Active, NoEgressOn
  <2>2. grant'[l.kb] = grant[l.kb]
    BY <1>2, <2>1 DEF AccountTypeOK
  <2> QED
    BY <1>2, <2>1, <2>2, ProtectedKept
<1> QED
  BY <1>1, <1>3, <1>4, <1>5, <1>6 DEF PolicyInv

(* A key handler leaves all rows alone but those of api_keys. *)
KeyOnly == UNCHANGED <<account, role, gone, assigned, assignment, owner, grant>>

(* What is left to show of a key handler: no call under way goes through a
   key it changes. *)
LEMMA KeyWritten ==
    ASSUME AccountInv, SessionTypeOK', RequestSound', lease' = lease, KeyOnly,
           key' \in [Keys -> KeyRow \cup {NoKey}], OneLiveKey',
           \A k \in Keys : key'[k] # NoKey => key'[key'[k].family] # NoKey,
           \A k \in Keys : LiveKey(k)' => \/ LiveKey(k) /\ key'[k].owner = key[k].owner
                                          \/ ~account[key'[k].owner].retired,
           \A l \in lease : l.key # NoKey => key'[l.key] = key[l.key]
    PROVE  PolicyInv'
<1> USE DEF AccountInv, KeyOnly
<1>1. AccountTypeOK'
  BY DEF AccountTypeOK
<1>2. Divested' /\ SuperuserRemains' /\ Referenced'
  <2>1. Divested'
    BY DEF Divested
  <2>2. SuperuserRemains'
    BY DEF SuperuserRemains, Active
  <2>3. Referenced'
    BY DEF Referenced, RolesExist, Exists
  <2> QED
    BY <2>1, <2>2, <2>3
<1>3. ASSUME NEW l \in lease PROVE Protected(l)'
  <2>1. Active(l.user)'
    BY DEF Protected, Active
  <2> QED
    BY <2>1, ProtectedKept
<1> QED
  BY <1>1, <1>2, <1>3 DEF PolicyInv

(* Keys that calls under way came with are live and have an owner. *)
LEMMA LeaseKey ==
    ASSUME AccountInv, NEW l \in lease, l.key # NoKey
    PROVE  l.key \in Keys /\ LiveKey(l.key)
BY LeaseFields DEF AccountInv, Protected

LEMMA CreateKeyKeeps ==
    ASSUME AccountInv, SessionTypeOK', NEW p \in Requests, NEW u \in Users,
           NEW k \in Keys, NEW P \in SUBSET PublicPermissions, CreateKey(p, u, k, P)
    PROVE  PolicyInv'
<1> USE NullAssumption DEF AccountInv
<1>1. RequestSound' /\ lease' = lease
  BY CommitKeeps, Zenon DEF CreateKey
<1>2. PICK row \in KeyRow : /\ key' = [key EXCEPT ![k] = row]
                            /\ row.owner = u /\ row.family = k /\ row.budget = "none"
  <2>1. [owner |-> u, family |-> k, scope |-> P, live |-> TRUE, budget |-> "none"] \in KeyRow
    BY DEF KeyRow
  <2> QED
    BY <2>1 DEF CreateKey
<1>3. KeyOnly /\ key[k] = NoKey /\ ~account[u].retired
  BY DEF CreateKey, KeyOnly, sessionVars, NextKey, Active
<1>4. /\ key' \in [Keys -> KeyRow \cup {NoKey}]
      /\ key'[k] = row /\ \A j \in Keys \ {k} : key'[j] = key[j]
  BY <1>2 DEF AccountTypeOK
<1>5. \A j \in Keys : key[j] # NoKey => key[j].family # k /\ key[j].family \in Keys
                                        /\ key[key[j].family] # NoKey
  BY <1>3 DEF Referenced, AccountTypeOK, KeyRow
<1>6. OneLiveKey'
  BY <1>2, <1>3, <1>4, <1>5 DEF OneLiveKey, LiveKey
<1>7. \A j \in Keys : key'[j] # NoKey => key'[key'[j].family] # NoKey
  BY <1>2, <1>4, <1>5
<1>8. \A j \in Keys : LiveKey(j)' => \/ LiveKey(j) /\ key'[j].owner = key[j].owner
                                     \/ ~account[key'[j].owner].retired
  BY <1>2, <1>3, <1>4 DEF LiveKey
<1>9. \A l \in lease : l.key # NoKey => key'[l.key] = key[l.key]
  BY <1>3, <1>4, LeaseKey DEF LiveKey
<1> QED
  BY <1>1, <1>3, <1>4, <1>6, <1>7, <1>8, <1>9, KeyWritten

LEMMA RevokeKeyKeeps ==
    ASSUME AccountInv, SessionTypeOK', NEW p \in Requests, NEW k \in Keys, RevokeKey(p, k)
    PROVE  PolicyInv'
<1> USE NullAssumption DEF AccountInv
<1>1. RequestSound' /\ lease' = lease
  BY CommitKeeps, Zenon DEF RevokeKey, Holding
<1>2. KeyOnly /\ LiveKey(k) /\ NoEgressThrough(k) /\ key[k] \in KeyRow
  BY DEF RevokeKey, Holding, KeyOnly, sessionVars, LiveKey, AccountTypeOK
<1>3. key' = [key EXCEPT ![k] = [key[k] EXCEPT !.live = FALSE]]
  BY DEF RevokeKey
<1>4. PICK row \in KeyRow : /\ key' = [key EXCEPT ![k] = row]
                            /\ ~row.live /\ row.family = key[k].family
                            /\ row.owner = key[k].owner /\ row.budget = key[k].budget
  BY <1>2, <1>3, KeyRowUpdates
<1>5. /\ key' \in [Keys -> KeyRow \cup {NoKey}]
      /\ key'[k] = row /\ \A j \in Keys \ {k} : key'[j] = key[j]
  BY <1>4 DEF AccountTypeOK
<1>6. OneLiveKey'
  BY <1>2, <1>4, <1>5 DEF OneLiveKey, LiveKey
<1>7. \A j \in Keys : key'[j] # NoKey => key'[key'[j].family] # NoKey
  <2>1. \A j \in Keys : key[j] # NoKey => key[j].family \in Keys /\ key[key[j].family] # NoKey
    BY DEF Referenced, AccountTypeOK, KeyRow
  <2> QED
    BY <1>2, <1>4, <1>5, <2>1 DEF LiveKey
<1>8. \A j \in Keys : LiveKey(j)' => \/ LiveKey(j) /\ key'[j].owner = key[j].owner
                                     \/ ~account[key'[j].owner].retired
  BY <1>4, <1>5 DEF LiveKey
<1>9. \A l \in lease : l.key # NoKey => key'[l.key] = key[l.key]
  BY <1>2, <1>5, LeaseKey DEF NoEgressThrough
<1> QED
  BY <1>1, <1>2, <1>5, <1>6, <1>7, <1>8, <1>9, KeyWritten

(* A rotated key hands on its lineage and its budget in one step. *)
LEMMA RotateKeyKeeps ==
    ASSUME AccountInv, SessionTypeOK', NEW p \in Requests, NEW k \in Keys, NEW n \in Keys,
           RotateKey(p, k, n)
    PROVE  PolicyInv'
<1> USE NullAssumption DEF AccountInv
<1>1. RequestSound' /\ lease' = lease
  BY CommitKeeps, Zenon DEF RotateKey, Holding
<1>2. /\ KeyOnly /\ LiveKey(k) /\ NoEgressThrough(k) /\ key[k] \in KeyRow
      /\ key[n] = NoKey /\ n # k /\ ~account[key[k].owner].retired
  BY DEF RotateKey, Holding, KeyOnly, sessionVars, LiveKey, AccountTypeOK, NextKey, Active
<1>3. key' = Successor(k, n)
  BY DEF RotateKey
<1>4. /\ key'[n] = key[k]
      /\ key'[k] = [key[k] EXCEPT !.live = FALSE, !.budget = "none"]
      /\ \A j \in Keys \ {k, n} : key'[j] = key[j]
      /\ key' = [j \in Keys |-> key'[j]]
  BY <1>2, <1>3 DEF Successor, AccountTypeOK
<1>5. key'[k] \in KeyRow /\ ~key'[k].live /\ key'[k].budget = "none"
      /\ key'[k].family = key[k].family
  BY <1>2, <1>4 DEF KeyRow
<1>6. key' \in [Keys -> KeyRow \cup {NoKey}]
  <2>1. \A j \in Keys : key'[j] \in KeyRow \cup {NoKey}
    BY <1>2, <1>4, <1>5 DEF AccountTypeOK
  <2> QED
    BY <1>4, <2>1
<1>7. OneLiveKey'
  <2> SUFFICES ASSUME NEW i \in Keys, NEW j \in Keys, LiveKey(i)', key'[j] # NoKey,
                      key'[j].family = key'[i].family
               PROVE  /\ LiveKey(j)' => j = i
                      /\ key'[j].budget = "limit" => key'[i].budget = "limit"
    BY DEF OneLiveKey
  <2>1. /\ \A a \in Keys : key[a] # NoKey /\ key[a].family = key[k].family =>
                (LiveKey(a) => a = k) /\ (key[a].budget = "limit" => key[k].budget = "limit")
    BY <1>2 DEF OneLiveKey
  <2>2. CASE i = n
    <3>1. CASE j = n
      BY <2>2, <3>1
    <3>2. CASE j = k
      BY <1>5, <2>2, <3>2 DEF LiveKey
    <3>3. CASE j \notin {k, n}
      BY <1>4, <2>1, <2>2, <3>3 DEF LiveKey
    <3> QED
      BY <3>1, <3>2, <3>3
  <2>3. CASE i # n
    <3>1. i # k /\ key'[i] = key[i] /\ LiveKey(i)
      BY <1>4, <1>5, <2>3 DEF LiveKey
    <3>2. key[i].family # key[k].family
      BY <2>1, <3>1 DEF LiveKey
    <3>3. j \notin {k, n}
      BY <1>4, <1>5, <3>1, <3>2
    <3> QED
      BY <1>4, <3>1, <3>3 DEF OneLiveKey, LiveKey
  <2> QED
    BY <2>2, <2>3
<1>8. \A j \in Keys : key'[j] # NoKey => key'[key'[j].family] # NoKey
  <2>1. \A j \in Keys : key[j] # NoKey => key[j].family \in Keys /\ key[key[j].family] # NoKey
    BY DEF Referenced, AccountTypeOK, KeyRow
  <2>2. \A j \in Keys : key[j] # NoKey => key'[j] # NoKey
    BY <1>2, <1>4, <1>5
  <2>3. \A j \in Keys : key'[j] # NoKey => \E i \in Keys : key[i] # NoKey /\ key'[j].family = key[i].family
    BY <1>2, <1>4, <1>5 DEF LiveKey
  <2> QED
    BY <2>1, <2>2, <2>3
<1>9. \A j \in Keys : LiveKey(j)' => \/ LiveKey(j) /\ key'[j].owner = key[j].owner
                                     \/ ~account[key'[j].owner].retired
  BY <1>2, <1>4, <1>5 DEF LiveKey
<1>10. \A l \in lease : l.key # NoKey => key'[l.key] = key[l.key]
  BY <1>2, <1>4, LeaseKey DEF NoEgressThrough, LiveKey
<1> QED
  BY <1>1, <1>2, <1>6, <1>7, <1>8, <1>9, <1>10, KeyWritten

(* Every handler keeps the policy rows, the leases and the requests sound. *)
LEMMA MutateKeeps ==
    ASSUME AccountInv, SessionTypeOK', NEW p \in Requests, Mutate(p)
    PROVE  PolicyInv'
BY CreateUserKeeps, UpdateUserKeeps, RetireUserKeeps, ReplaceUserRolesKeeps,
   ChangePasswordKeeps, UpdateRoleKeeps, ReplacePermissionsKeeps, ReplacePolicyKeeps,
   ReplaceLimitsKeeps, CreateRoleKeeps, DeleteRoleKeeps, ReplaceRoleGrantsKeeps,
   CreateKeyKeeps, RevokeKeyKeeps, RotateKeyKeeps, Zenon DEF Mutate

LEMMA AccountInvInductive ==
    ASSUME AccountInv, [AccountNext]_accountVars
    PROVE  AccountInv'
<1>1. [SessionStep \/ Administer]_sessionVars
  BY AccountStepIsSessionStep DEF AccountInv, SessionInv
<1>2. SessionInv' /\ SignedOut' /\ SessionTypeOK'
  BY <1>1, SessionCases, SignedOutKeeps DEF AccountInv, SessionInv
<1>3. ASSUME NEW p \in Requests, Use(p) PROVE PolicyInv'
  BY <1>2, <1>3, UseKeeps, CreateKBKeeps, CreateBudgetKeeps DEF Use
<1>4. ASSUME NEW p \in Requests, NEW a \in Users, Begin(p, a) PROVE PolicyInv'
  BY <1>2, <1>4, UseKeeps
<1>5. ASSUME NEW l \in lease, ChatEnds(l) PROVE PolicyInv'
  <2>1. lease' \subseteq lease /\ UNCHANGED <<sessionVars, policyVars, req>>
    BY <1>5 DEF ChatEnds
  <2>2. StandingKept /\ UNCHANGED policyVars
    BY <2>1 DEF sessionVars, StandingKept
  <2>3. lease' \subseteq [user : Users, key : Keys \cup {NoKey}, kb : KBs]
    BY <2>1 DEF AccountInv, AccountTypeOK
  <2>4. RequestSound'
    BY <1>2, <2>1, <2>2, <2>3, PolicyKeeps DEF AccountInv, RequestSound, Kind
  <2> QED
    BY <1>2, <2>1, <2>2, <2>3, <2>4, PolicyKeeps DEF PolicyInv
<1>6. ASSUME UNCHANGED accountVars PROVE PolicyInv'
  <2>1. UNCHANGED <<sessionVars, policyVars, lease, req>>
    BY <1>6 DEF accountVars
  <2>2. StandingKept /\ UNCHANGED policyVars
    BY <2>1 DEF sessionVars, StandingKept
  <2>3. lease' \subseteq [user : Users, key : Keys \cup {NoKey}, kb : KBs]
    BY <2>1 DEF AccountInv, AccountTypeOK
  <2>4. RequestSound'
    BY <1>2, <2>1, <2>2, <2>3, PolicyKeeps DEF AccountInv, RequestSound, Kind
  <2> QED
    BY <1>2, <2>1, <2>2, <2>3, <2>4, PolicyKeeps DEF PolicyInv
<1>7. PolicyInv'
  BY <1>2, <1>3, <1>4, <1>5, <1>6, MutateKeeps, AuthenticateKeeps, BootstrapKeeps
     DEF AccountNext
<1> QED
  BY <1>2, <1>7 DEF AccountInv, PolicyInv

(* The invariant of the account service. *)
LEMMA AccountInvariant == AccountSpec => []AccountInv
<1>1. AccountInv /\ [AccountNext]_accountVars => AccountInv'
  BY AccountInvInductive
<1> QED
  BY AccountInvInit, <1>1, PTL DEF AccountSpec

(* Whatever administrators do to each other, one superuser can sign in. *)
THEOREM SuperuserAlwaysRemains == AccountSpec => []SuperuserRemains
BY AccountInvariant, AccountInvImplies, PTL

(* What retire_user, delete_role, rotate_api_key and revoke_api_key remove is
   removed with all that hung on it. *)
THEOREM RemovalAlwaysComplete == AccountSpec => []RemovalComplete
BY AccountInvariant, AccountInvImplies, PTL

(* What a request or an external call relies on is true for as long as it
   lasts. *)
THEOREM AccessAlwaysCurrent == AccountSpec => []AccessCurrent
BY AccountInvariant, AccountInvImplies, PTL

-----------------------------------------------------------------------------
(* What an administrator may give away                                     *)

(* A bounded set of numbers has a greatest one. *)
LEMMA MaxIsTop ==
    ASSUME NEW n \in Nat, NEW S \in SUBSET (0..n), S # {}
    PROVE  Max(S) \in S /\ \A x \in S : x <= Max(S)
<1> DEFINE T == {b \in Nat : \A x \in S : x <= b}
<1>1. n \in T
  OBVIOUS
<1>2. PICK m \in T : \A b \in T : ~ (<<b, m>> \in OpToRel(<, Nat))
  <2> HIDE DEF T
  <2>1. T \subseteq Nat /\ T # {}
    BY <1>1 DEF T
  <2> QED
    BY <2>1, WFMin, NatLessThanWellFounded
<1>3. \A b \in T : ~ (b < m)
  BY <1>2 DEF OpToRel
<1>4. m \in S
  <2> SUFFICES ASSUME m \notin S PROVE FALSE
    OBVIOUS
  <2>1. PICK x \in S : TRUE
    OBVIOUS
  <2>2. \A y \in S : y \in Nat /\ y < m
    OBVIOUS
  <2>3. m - 1 \in T
    BY <2>1, <2>2
  <2> QED
    BY <1>3, <2>3
<1>5. \E x \in S : \A y \in S : x >= y
  BY <1>4
<1>6. Max(S) \in S /\ \A y \in S : Max(S) >= y
  BY <1>5 DEF Max
<1> QED
  BY <1>6

(* Raising the greatest of some numbers takes a number that is greater. *)
LEMMA MaxRaised ==
    ASSUME NEW n \in Nat, NEW F \in SUBSET (0..n), NEW G \in SUBSET (0..n),
           0 \in F, 0 \in G, Max(G) > Max(F)
    PROVE  Max(G) \in G /\ Max(G) # 0 /\ Max(G) \notin F
<1>1. PICK f \in F : f = Max(F) /\ \A x \in F : x <= f
  BY MaxIsTop
<1>2. PICK g \in G : g = Max(G)
  BY MaxIsTop
<1>3. g > f /\ g \in Nat /\ f \in Nat /\ F \subseteq Nat
  BY <1>1, <1>2
<1>4. g # 0 /\ g \notin F
  BY <1>1, <1>3
<1> QED
  BY <1>2, <1>4

(* What user u may gain of administrator a, as NoEscalation states it. *)
Bounded(a, u) ==
    /\ Granted(u)' \subseteq Granted(u) \cup Granted(a)
    /\ MaxRolePriority(u)' > MaxRolePriority(u) => MaxRolePriority(u)' < MaxRolePriority(a)
    /\ EffectiveLimit(u)' > EffectiveLimit(u) => EffectiveLimit(u)' <= EffectiveLimit(a)

(* Role r, as a step gives it to user u or leaves it with u, is no more than it
   was to u or than a may give. *)
Harmless(a, u, r) ==
    /\ \/ r \in assigned[u] /\ role'[r].permissions = role[r].permissions
       \/ role'[r].permissions \subseteq Granted(a)
    /\ \/ r \in assigned[u] /\ role'[r].priority = role[r].priority
       \/ role'[r].priority < MaxRolePriority(a)
    /\ \/ r \in assigned[u] /\ role'[r].limit = role[r].limit
       \/ role'[r].limit <= EffectiveLimit(a)

(* The roles somebody holds are rows. *)
LEMMA HeldRoles ==
    ASSUME AccountTypeOK, RolesExist, NEW u \in Users
    PROVE  assigned[u] \subseteq Roles /\ \A r \in assigned[u] : role[r] \in RoleRow
BY DEF AccountTypeOK, RolesExist, Exists

(* Harmless roles together are harmless. *)
LEMMA HarmlessBounded ==
    ASSUME AccountTypeOK, RolesExist, AccountTypeOK', RolesExist',
           NEW a, NEW u \in Users, \A r \in assigned'[u] : Harmless(a, u, r)
    PROVE  Bounded(a, u)
<1>1. /\ \A r \in assigned[u] : role[r] \in RoleRow
      /\ \A r \in assigned'[u] : role'[r] \in RoleRow
  BY HeldRoles, AccountTypeOK', RolesExist' DEF AccountTypeOK, RolesExist, Exists
<1>2. Granted(u)' \subseteq Granted(u) \cup Granted(a)
  BY DEF Granted, Harmless
<1>3. ASSUME MaxRolePriority(u)' > MaxRolePriority(u) PROVE MaxRolePriority(u)' < MaxRolePriority(a)
  <2> DEFINE F == {role[r].priority : r \in assigned[u]} \cup {0}
             G == {role'[r].priority : r \in assigned'[u]} \cup {0}
  <2>1. F \in SUBSET (0..MaxPriority) /\ G \in SUBSET (0..MaxPriority) /\ 0 \in F /\ 0 \in G
    BY <1>1, AccountAssumption DEF RoleRow
  <2>2. MaxRolePriority(u) = Max(F) /\ MaxRolePriority(u)' = Max(G)
    BY DEF MaxRolePriority
  <2>3. Max(G) \in G /\ Max(G) # 0 /\ Max(G) \notin F
    <3> HIDE DEF F, G
    <3>1. MaxPriority \in Nat /\ Max(G) > Max(F)
      BY <1>3, <2>2, AccountAssumption
    <3> QED
      BY <2>1, <3>1, MaxRaised
  <2>4. PICK r \in assigned'[u] : role'[r].priority = Max(G)
    BY <2>3
  <2>5. ~ (r \in assigned[u] /\ role'[r].priority = role[r].priority)
    BY <2>3, <2>4
  <2> QED
    BY <2>2, <2>4, <2>5 DEF Harmless
<1>4. ASSUME EffectiveLimit(u)' > EffectiveLimit(u) PROVE EffectiveLimit(u)' <= EffectiveLimit(a)
  <2> DEFINE F == {role[r].limit : r \in assigned[u]} \cup {0}
             G == {role'[r].limit : r \in assigned'[u]} \cup {0}
  <2>1. F \in SUBSET (0..MaxLimit) /\ G \in SUBSET (0..MaxLimit) /\ 0 \in F /\ 0 \in G
    BY <1>1, AccountAssumption DEF RoleRow
  <2>2. EffectiveLimit(u) = Max(F) /\ EffectiveLimit(u)' = Max(G)
    BY DEF EffectiveLimit
  <2>3. Max(G) \in G /\ Max(G) # 0 /\ Max(G) \notin F
    <3> HIDE DEF F, G
    <3>1. MaxLimit \in Nat /\ Max(G) > Max(F)
      BY <1>4, <2>2, AccountAssumption
    <3> QED
      BY <2>1, <3>1, MaxRaised
  <2>4. PICK r \in assigned'[u] : role'[r].limit = Max(G)
    BY <2>3
  <2>5. ~ (r \in assigned[u] /\ role'[r].limit = role[r].limit)
    BY <2>3, <2>4
  <2> QED
    BY <2>2, <2>4, <2>5 DEF Harmless
<1> QED
  BY <1>2, <1>3, <1>4 DEF Bounded

-----------------------------------------------------------------------------
(* What an editor was shown                                                *)

(* A row that request p was shown is the row in force for as long as it has the
   same version; a role it was shown that is not there any more was deleted. *)
ShownTo(p) ==
    /\ \A u \in Users :
          /\ req[p].assignment[u] \in 0..assignment[u]
          /\ req[p].assignment[u] = assignment[u] => req[p].assigned[u] = assigned[u]
    /\ \A r \in Roles : req[p].role[r] # NoRole =>
          \/ r \in gone
          \/ /\ Exists(r) /\ req[p].role[r].version \in 0..role[r].version
             /\ req[p].role[r].version = role[r].version => req[p].role[r] = role[r]
    /\ \A b \in KBs :
          /\ req[p].grant[b].version \in 0..grant[b].version
          /\ req[p].grant[b].version = grant[b].version => req[p].grant[b] = grant[b]

(* With the rows of accounts that were not created yet: nobody has written them. *)
ShownInv ==
    /\ \A p \in Requests : Kind(p) = "mutation" => ShownTo(p)
    /\ \A r \in gone : role[r] = NoRole
    /\ \A u \in Users : account[u].status = "ABSENT" =>
          assignment[u] = 0 /\ account[u].password = 0 /\ ~account[u].retired

(* No row changes but with a higher version, and a deleted role stays deleted. *)
AssignmentsMove ==
    \A u \in Users : \/ assigned'[u] = assigned[u] /\ assignment'[u] = assignment[u]
                     \/ assignment'[u] > assignment[u]
RolesMove ==
    /\ gone \subseteq gone'
    /\ \A r \in gone' : role'[r] = NoRole
    /\ \A r \in Roles : role[r] # NoRole =>
          \/ role'[r] = role[r]
          \/ role'[r] # NoRole /\ role'[r].version > role[r].version
          \/ r \in gone'
GrantsMove ==
    \A b \in KBs : grant'[b] = grant[b] \/ grant'[b].version > grant[b].version

(* Nobody becomes absent, and the row of who is absent is left alone. *)
AbsentKept ==
    \A u \in Users : account'[u].status = "ABSENT" =>
        /\ account[u].status = "ABSENT" /\ account'[u].password = account[u].password
        /\ account'[u].retired = account[u].retired /\ assignment'[u] = assignment[u]

RowsMove == AssignmentsMove /\ RolesMove /\ GrantsMove /\ AbsentKept

(* The versions are numbers. *)
LEMMA VersionNumbers ==
    ASSUME AccountTypeOK
    PROVE  /\ \A u \in Users : assignment[u] \in Nat
           /\ \A r \in Roles : role[r] # NoRole => role[r].version \in Nat
           /\ \A b \in KBs : grant[b].version \in Nat
BY DEF AccountTypeOK, RoleRow

(* A number that grows leaves a snapshot behind. *)
LEMMA LeftBehind ==
    ASSUME NEW m \in Nat, NEW n \in Nat, NEW s \in 0..m, n > m
    PROVE  s \in 0..n /\ s # n
OBVIOUS

(* What was shown stays true while rows move by versions. *)
LEMMA ShownToKept ==
    ASSUME AccountTypeOK, AccountTypeOK', RowsMove, NEW p \in Requests,
           req'[p] = req[p], ShownTo(p)
    PROVE  ShownTo(p)'
<1>1. ASSUME NEW u \in Users
      PROVE  /\ req[p].assignment[u] \in 0..assignment'[u]
             /\ req[p].assignment[u] = assignment'[u] => req[p].assigned[u] = assigned'[u]
  <2>1. assignment[u] \in Nat /\ assignment'[u] \in Nat
    BY DEF AccountTypeOK
  <2>2. CASE assignment'[u] > assignment[u]
    BY <2>1, <2>2, LeftBehind DEF ShownTo
  <2>3. CASE assigned'[u] = assigned[u] /\ assignment'[u] = assignment[u]
    BY <2>3 DEF ShownTo
  <2> QED
    BY <2>2, <2>3 DEF RowsMove, AssignmentsMove
<1>2. ASSUME NEW r \in Roles, req[p].role[r] # NoRole, r \notin gone'
      PROVE  /\ role'[r] # NoRole /\ req[p].role[r].version \in 0..role'[r].version
             /\ req[p].role[r].version = role'[r].version => req[p].role[r] = role'[r]
  <2>1. /\ r \notin gone /\ role[r] # NoRole
        /\ req[p].role[r].version \in 0..role[r].version
        /\ req[p].role[r].version = role[r].version => req[p].role[r] = role[r]
    BY <1>2 DEF ShownTo, Exists, RowsMove, RolesMove
  <2>2. CASE role'[r] = role[r]
    BY <2>1, <2>2
  <2>3. CASE role'[r] # NoRole /\ role'[r].version > role[r].version
    <3>1. role[r].version \in Nat /\ role'[r].version \in Nat
      BY <2>1, <2>3 DEF AccountTypeOK, RoleRow
    <3> QED
      BY <2>1, <2>3, <3>1, LeftBehind
  <2> QED
    BY <1>2, <2>1, <2>2, <2>3 DEF RowsMove, RolesMove
<1>3. ASSUME NEW b \in KBs
      PROVE  /\ req[p].grant[b].version \in 0..grant'[b].version
             /\ req[p].grant[b].version = grant'[b].version => req[p].grant[b] = grant'[b]
  <2>1. grant[b].version \in Nat /\ grant'[b].version \in Nat
    BY DEF AccountTypeOK
  <2>2. CASE grant'[b].version > grant[b].version
    BY <2>1, <2>2, LeftBehind DEF ShownTo
  <2>3. CASE grant'[b] = grant[b]
    BY <2>3 DEF ShownTo
  <2> QED
    BY <2>2, <2>3 DEF RowsMove, GrantsMove
<1> QED
  BY <1>1, <1>2, <1>3 DEF ShownTo, Exists

(* An editor is shown the rows in force. *)
LEMMA BeginShows ==
    ASSUME AccountTypeOK, AccountTypeOK', RequestSound, NEW p \in Requests, NEW a, Begin(p, a)
    PROVE  ShownTo(p)' /\ \A q \in Requests \ {p} : req'[q] = req[q]
<1>1. UNCHANGED <<role, gone, assigned, assignment, key, owner, grant>>
  BY DEF Begin, policyVars
<1>2. /\ req'[p].assigned = assigned /\ req'[p].assignment = assignment
      /\ req'[p].role = role /\ req'[p].grant = grant
      /\ \A q \in Requests \ {p} : req'[q] = req[q]
  BY DEF Begin, RequestSound
<1>3. /\ \A u \in Users : assignment[u] \in 0..assignment[u]
      /\ \A r \in Roles : role[r] # NoRole => role[r].version \in 0..role[r].version
      /\ \A b \in KBs : grant[b].version \in 0..grant[b].version
  BY VersionNumbers
<1> QED
  BY <1>1, <1>2, <1>3 DEF ShownTo, Exists

(* A step of the service keeps what was shown, if its rows move by versions. *)
LEMMA ShownKept ==
    ASSUME AccountTypeOK, AccountTypeOK', ShownInv, RowsMove,
           \A p \in Requests : req'[p] = req[p] \/ Kind(p)' # "mutation" \/ ShownTo(p)'
    PROVE  ShownInv'
<1>1. ASSUME NEW p \in Requests, Kind(p)' = "mutation" PROVE ShownTo(p)'
  <2>1. CASE req'[p] = req[p]
    <3>1. Kind(p) = "mutation"
      BY <1>1, <2>1 DEF Kind
    <3> QED
      BY <2>1, <3>1, ShownToKept DEF ShownInv
  <2> QED
    BY <1>1, <2>1
<1>2. \A r \in gone' : role'[r] = NoRole
  BY DEF RowsMove, RolesMove
<1>3. \A u \in Users : account'[u].status = "ABSENT" =>
          assignment'[u] = 0 /\ account'[u].password = 0 /\ ~account'[u].retired
  BY DEF RowsMove, AbsentKept, ShownInv
<1> QED
  BY <1>1, <1>2, <1>3 DEF ShownInv

-----------------------------------------------------------------------------
(* What the commit of a mutation does                                      *)

(* The conjuncts of MutationsSound, for the commit of request p. *)
Contained(p) == req[p].user \notin Superusers => \A u \in Users : Bounded(req[p].user, u)

Informed(p) ==
    /\ \A u \in Users : assigned'[u] # assigned[u] /\ ~account'[u].retired
          /\ account[u].status # "ABSENT" => req[p].assigned[u] = assigned[u]
    /\ \A r \in Roles : role'[r] # role[r] /\ Exists(r) => req[p].role[r] = role[r]
    /\ \A b \in KBs : grant'[b] # grant[b] => req[p].grant[b] = grant[b]

Entitled(p) ==
    \A u \in Users : account'[u].password # account[u].password =>
        /\ ~account[u].retired
        /\ \/ req[p].user = u /\ req[p].password = account[u].password
           \/ req[p].user # u /\ req[p].user \in Superusers

SoundCommit(p) == RowsMove /\ Contained(p) /\ Informed(p) /\ Entitled(p)

(* It is enough to look at the roles one by one. *)
LEMMA ContainedBy ==
    ASSUME AccountInv, AccountInv', NEW p \in Requests,
           req[p].user \notin Superusers =>
              \A u \in Users : \A r \in assigned'[u] : Harmless(req[p].user, u, r)
    PROVE  Contained(p)
<1> SUFFICES ASSUME req[p].user \notin Superusers, NEW u \in Users
             PROVE  Bounded(req[p].user, u)
  BY DEF Contained
<1>1. PICK a : a = req[p].user
  OBVIOUS
<1>2. \A r \in assigned'[u] : Harmless(a, u, r)
  BY <1>1 DEF Harmless
<1>3. AccountTypeOK /\ RolesExist /\ AccountTypeOK' /\ RolesExist'
  BY DEF AccountInv, Referenced
<1>4. Bounded(a, u)
  BY <1>2, <1>3, HarmlessBounded
<1> QED
  BY <1>1, <1>4 DEF Bounded

(* Handlers that leave roles and assignments alone: UpdateUser, ChangePassword,
   the key handlers, ReplaceRoleGrants. *)
LEMMA NothingGiven ==
    ASSUME AccountInv, AccountInv', ShownInv, NEW p \in Requests,
           UNCHANGED <<role, gone, assigned, assignment>>
    PROVE  Contained(p) /\ AssignmentsMove /\ RolesMove
<1>1. Contained(p)
  BY ContainedBy DEF Harmless
<1>2. AssignmentsMove /\ RolesMove
  BY DEF AssignmentsMove, RolesMove, ShownInv
<1> QED
  BY <1>1, <1>2

(* The key handlers. *)
LEMMA KeyCommitSound ==
    ASSUME AccountInv, AccountInv', ShownInv, NEW p \in Requests, KeyOnly
    PROVE  SoundCommit(p)
<1>1. UNCHANGED <<account, role, gone, assigned, assignment, grant>>
  BY DEF KeyOnly
<1>2. GrantsMove /\ AbsentKept
  BY <1>1 DEF GrantsMove, AbsentKept
<1>3. Informed(p) /\ Entitled(p)
  BY <1>1 DEF Informed, Entitled
<1> QED
  BY <1>1, <1>2, <1>3, NothingGiven DEF SoundCommit, RowsMove

(* replace_role_grants. *)
LEMMA GrantCommitSound ==
    ASSUME AccountInv, AccountInv', ShownInv, NEW p \in Requests,
           NEW b \in KBs, NEW R, ReplaceRoleGrants(p, b, R)
    PROVE  SoundCommit(p)
<1>1. UNCHANGED <<account, role, gone, assigned, assignment>>
  BY DEF ReplaceRoleGrants, sessionVars
<1>2. /\ grant' = [grant EXCEPT ![b] = [roles |-> R, version |-> grant[b].version + 1]]
      /\ req[p].grant[b].version = grant[b].version /\ Kind(p) = "mutation"
  BY DEF ReplaceRoleGrants, Locked
<1>3. grant'[b].version = grant[b].version + 1 /\ \A c \in KBs \ {b} : grant'[c] = grant[c]
  BY <1>2 DEF AccountInv, AccountTypeOK
<1>4. grant[b].version \in Nat
  BY VersionNumbers DEF AccountInv
<1>5. GrantsMove /\ AbsentKept
  BY <1>1, <1>3, <1>4 DEF GrantsMove, AbsentKept
<1>6. req[p].grant[b] = grant[b]
  BY <1>2 DEF ShownInv, ShownTo
<1>7. Informed(p) /\ Entitled(p)
  BY <1>1, <1>3, <1>6 DEF Informed, Entitled
<1> QED
  BY <1>1, <1>5, <1>7, NothingGiven DEF SoundCommit, RowsMove

(* update_user, change_own_password and reset_user_password leave all roles. *)
LEMMA UserCommitSound ==
    ASSUME AccountInv, AccountInv', ShownInv, NEW p \in Requests, UNCHANGED policyVars,
           AbsentKept, Entitled(p)
    PROVE  SoundCommit(p)
<1>1. UNCHANGED <<role, gone, assigned, assignment, grant>>
  BY DEF policyVars
<1>2. GrantsMove /\ Informed(p)
  BY <1>1 DEF GrantsMove, Informed
<1> QED
  BY <1>1, <1>2, NothingGiven DEF SoundCommit, RowsMove

(* EndSessions writes a status and a version. *)
LEMMA EndSessionsKeeps ==
    ASSUME AccountTypeOK, NEW u \in Users, NEW s \in Status \ {"ABSENT"}, EndSessions(u, s)
    PROVE  /\ account'[u].status = s
           /\ \A v \in Users : /\ account'[v].password = account[v].password
                               /\ account'[v].retired = account[v].retired
                               /\ v # u => account'[v] = account[v]
BY DEF EndSessions, AccountTypeOK, SessionTypeOK, AccountRow

LEMMA UpdateUserSound ==
    ASSUME AccountInv, AccountInv', ShownInv, NEW p \in Requests,
           NEW u \in Users, NEW s \in Status \ {"ABSENT"}, UpdateUser(p, u, s)
    PROVE  SoundCommit(p)
<1>1. UNCHANGED policyVars /\ EndSessions(u, s)
  BY DEF UpdateUser
<1>2. /\ account'[u].status = s
      /\ \A v \in Users : /\ account'[v].password = account[v].password
                          /\ account'[v].retired = account[v].retired
                          /\ v # u => account'[v] = account[v]
  BY <1>1, EndSessionsKeeps DEF AccountInv
<1>3. assignment' = assignment
  BY <1>1 DEF policyVars
<1>4. AbsentKept /\ Entitled(p)
  BY <1>2, <1>3 DEF AbsentKept, Entitled
<1> QED
  BY <1>1, <1>4, UserCommitSound

LEMMA ChangePasswordSound ==
    ASSUME AccountInv, AccountInv', ShownInv, NEW p \in Requests,
           NEW u \in Users, ChangePassword(p, u)
    PROVE  SoundCommit(p)
<1>1. UNCHANGED policyVars /\ ReplacePassword(u)
      /\ IF u = req[p].user THEN Proof(p, u) ELSE req[p].user \in Superusers
  BY DEF ChangePassword
<1>2. ~account[u].retired /\ account' = [account EXCEPT ![u] =
          [account[u] EXCEPT !.password = @ + 1, !.version = @ + 1]]
  BY <1>1 DEF ReplacePassword
<1>3. /\ \A v \in Users : account'[v].status = account[v].status
                          /\ account'[v].retired = account[v].retired
      /\ \A v \in Users \ {u} : account'[v] = account[v]
  BY <1>2 DEF AccountInv, AccountTypeOK, SessionTypeOK, AccountRow
<1>4. account[u].status # "ABSENT" /\ assignment' = assignment
  BY <1>1 DEF ChangePassword, policyVars
<1>5. AbsentKept
  BY <1>3, <1>4 DEF AbsentKept
<1>6. Entitled(p)
  BY <1>1, <1>2, <1>3 DEF Entitled, Proof
<1> QED
  BY <1>1, <1>5, <1>6, UserCommitSound

(* The assignments of user u are replaced by R, which its editor may assign. *)
LEMMA AssignedHarmless ==
    ASSUME AccountInv, AccountInv', NEW p \in Requests, NEW u \in Users, NEW R,
           role' = role, assigned' = [assigned EXCEPT ![u] = R], Assignable(req[p].user, R)
    PROVE  Contained(p) /\ \A v \in Users \ {u} : assigned'[v] = assigned[v]
<1>1. assigned'[u] = R /\ \A v \in Users \ {u} : assigned'[v] = assigned[v]
  BY DEF AccountInv, AccountTypeOK
<1>2. ASSUME req[p].user \notin Superusers, NEW v \in Users, NEW r \in assigned'[v]
      PROVE  Harmless(req[p].user, v, r)
  <2>1. CASE v = u
    BY <1>1, <1>2, <2>1 DEF Assignable, Harmless
  <2>2. CASE v # u
    BY <1>1, <1>2, <2>2 DEF Harmless
  <2> QED
    BY <2>1, <2>2
<1> QED
  BY <1>1, <1>2, ContainedBy

LEMMA CreateUserSound ==
    ASSUME AccountInv, AccountInv', ShownInv, NEW p \in Requests,
           NEW u \in Users, NEW R, CreateUser(p, u, R)
    PROVE  SoundCommit(p)
<1>1. /\ UNCHANGED <<role, gone, grant>> /\ Assignable(req[p].user, R)
      /\ assigned' = [assigned EXCEPT ![u] = R]
      /\ assignment' = [assignment EXCEPT ![u] = 1]
  BY DEF CreateUser
<1>2. /\ account[u].status = "ABSENT"
      /\ account' = [account EXCEPT ![u] = [status |-> "ACTIVE", retired |-> FALSE,
                                            version |-> 0, password |-> 0]]
  BY DEF CreateUser, Enrol
<1>3. assignment[u] = 0 /\ account[u].password = 0
  BY <1>2 DEF ShownInv
<1>4. /\ assignment'[u] = 1 /\ account'[u].status = "ACTIVE" /\ account'[u].password = 0
      /\ \A v \in Users \ {u} : account'[v] = account[v] /\ assignment'[v] = assignment[v]
  BY <1>1, <1>2 DEF AccountInv, AccountTypeOK, SessionTypeOK
<1>5. Contained(p) /\ \A v \in Users \ {u} : assigned'[v] = assigned[v]
  BY <1>1, AssignedHarmless
<1>6. AssignmentsMove
  BY <1>3, <1>4, <1>5 DEF AssignmentsMove
<1>7. RolesMove /\ GrantsMove /\ AbsentKept
  BY <1>1, <1>4 DEF RolesMove, GrantsMove, AbsentKept, ShownInv
<1>8. Informed(p) /\ Entitled(p)
  BY <1>1, <1>2, <1>3, <1>4, <1>5 DEF Informed, Entitled
<1> QED
  BY <1>5, <1>6, <1>7, <1>8 DEF SoundCommit, RowsMove

LEMMA ReplaceUserRolesSound ==
    ASSUME AccountInv, AccountInv', ShownInv, NEW p \in Requests,
           NEW u \in Users, NEW R, ReplaceUserRoles(p, u, R)
    PROVE  SoundCommit(p)
<1>1. /\ UNCHANGED <<role, gone, grant>> /\ Assignable(req[p].user, R)
      /\ assigned' = [assigned EXCEPT ![u] = R]
      /\ assignment' = [assignment EXCEPT ![u] = assignment[u] + 1]
      /\ account[u].status # "ABSENT" /\ EndSessions(u, account[u].status)
      /\ Kind(p) = "mutation" /\ req[p].assignment[u] = assignment[u]
  BY DEF ReplaceUserRoles, Locked, Unchanged
<1>2. assignment[u] \in Nat /\ account[u].status \in Status \ {"ABSENT"}
  BY <1>1 DEF AccountInv, AccountTypeOK, SessionTypeOK, AccountRow
<1>3. /\ account'[u].status = account[u].status
      /\ \A v \in Users : /\ account'[v].password = account[v].password
                          /\ account'[v].retired = account[v].retired
                          /\ v # u => account'[v] = account[v]
  BY <1>1, <1>2, EndSessionsKeeps DEF AccountInv
<1>4. /\ assignment'[u] = assignment[u] + 1
      /\ \A v \in Users \ {u} : assignment'[v] = assignment[v]
  BY <1>1 DEF AccountInv, AccountTypeOK
<1>5. Contained(p) /\ \A v \in Users \ {u} : assigned'[v] = assigned[v]
  BY <1>1, AssignedHarmless
<1>6. AssignmentsMove
  BY <1>2, <1>4, <1>5 DEF AssignmentsMove
<1>7. RolesMove /\ GrantsMove /\ AbsentKept
  BY <1>1, <1>3, <1>4 DEF RolesMove, GrantsMove, AbsentKept, ShownInv
<1>8. req[p].assigned[u] = assigned[u]
  BY <1>1 DEF ShownInv, ShownTo
<1>9. Informed(p) /\ Entitled(p)
  BY <1>1, <1>3, <1>5, <1>8 DEF Informed, Entitled
<1> QED
  BY <1>5, <1>6, <1>7, <1>9 DEF SoundCommit, RowsMove

LEMMA RetireUserSound ==
    ASSUME AccountInv, AccountInv', ShownInv, NEW p \in Requests,
           NEW u \in Users, NEW h, RetireUser(p, u, h)
    PROVE  SoundCommit(p)
<1>1. /\ UNCHANGED <<role, gone, grant>>
      /\ assigned' = [assigned EXCEPT ![u] = {}]
      /\ assignment' = [assignment EXCEPT ![u] = IF assigned[u] = {} THEN assignment[u]
                                                 ELSE assignment[u] + 1]
  BY DEF RetireUser
<1>2. account' = [account EXCEPT ![u] = [account[u] EXCEPT !.status = "DISABLED",
                                         !.retired = TRUE, !.version = @ + 1]]
  BY DEF RetireUser, RetireAccount
<1>3. /\ account'[u].status = "DISABLED" /\ account'[u].retired
      /\ \A v \in Users : account'[v].password = account[v].password
      /\ \A v \in Users \ {u} : account'[v] = account[v]
  BY <1>2 DEF AccountInv, AccountTypeOK, SessionTypeOK, AccountRow
<1>4. /\ assigned'[u] = {}
      /\ assignment'[u] = IF assigned[u] = {} THEN assignment[u] ELSE assignment[u] + 1
      /\ \A v \in Users \ {u} : assigned'[v] = assigned[v] /\ assignment'[v] = assignment[v]
  BY <1>1 DEF AccountInv, AccountTypeOK
<1>5. Contained(p)
  BY <1>1, <1>4, ContainedBy DEF Harmless
<1>6. assignment[u] \in Nat
  BY DEF AccountInv, AccountTypeOK
<1>7. AssignmentsMove
  <2>1. \/ assigned'[u] = assigned[u] /\ assignment'[u] = assignment[u]
        \/ assignment'[u] > assignment[u]
    BY <1>4, <1>6
  <2> QED
    BY <1>4, <2>1 DEF AssignmentsMove
<1>8. RolesMove /\ GrantsMove /\ AbsentKept
  BY <1>1, <1>3, <1>4 DEF RolesMove, GrantsMove, AbsentKept, ShownInv
<1>9. Informed(p) /\ Entitled(p)
  BY <1>1, <1>3, <1>4 DEF Informed, Entitled
<1> QED
  BY <1>5, <1>7, <1>8, <1>9 DEF SoundCommit, RowsMove

(* A role is written: its version moves on, and what it gives is not above what
   its editor may give. *)
LEMMA RoleCommitSound ==
    ASSUME AccountInv, AccountInv', ShownInv, NEW p \in Requests, NEW r \in Roles, NEW row,
           RoleOnly, gone' = gone, role' = [role EXCEPT ![r] = row],
           role[r] # NoRole /\ row # NoRole => row.version > role[r].version,
           role[r] # NoRole => req[p].role[r] = role[r],
           row # NoRole, r \notin gone,
           req[p].user \notin Superusers /\ role[r] # NoRole =>
               /\ row.permissions = role[r].permissions \/ row.permissions \subseteq Granted(req[p].user)
               /\ row.priority = role[r].priority \/ row.priority < MaxRolePriority(req[p].user)
               /\ row.limit = role[r].limit \/ row.limit <= EffectiveLimit(req[p].user)
    PROVE  SoundCommit(p)
<1>1. UNCHANGED <<account, assigned, assignment, grant>>
  BY DEF RoleOnly
<1>2. role'[r] = row /\ \A q \in Roles \ {r} : role'[q] = role[q]
  BY DEF AccountInv, AccountTypeOK
<1>3. ASSUME req[p].user \notin Superusers, NEW u \in Users, NEW q \in assigned'[u]
      PROVE  Harmless(req[p].user, u, q)
  <2>1. q \in assigned[u] /\ q \in Roles /\ role[q] # NoRole
    BY <1>1, <1>3 DEF AccountInv, AccountTypeOK, Referenced, RolesExist, Exists
  <2> QED
    BY <1>2, <1>3, <2>1 DEF Harmless
<1>4. Contained(p)
  BY <1>3, ContainedBy
<1>5. RolesMove
  BY <1>2 DEF RolesMove, ShownInv, AccountInv, AccountTypeOK
<1>6. AssignmentsMove /\ GrantsMove /\ AbsentKept
  BY <1>1 DEF AssignmentsMove, GrantsMove, AbsentKept
<1>7. Informed(p) /\ Entitled(p)
  BY <1>1, <1>2 DEF Informed, Entitled, Exists
<1> QED
  BY <1>4, <1>5, <1>6, <1>7 DEF SoundCommit, RowsMove

(* The editor of a role was shown the row in force. *)
LEMMA EditingShown ==
    ASSUME AccountInv, ShownInv, NEW p \in Requests, NEW r \in Roles, Editing(p, r)
    PROVE  /\ role[r] \in RoleRow /\ role[r] # NoRole /\ r \notin gone
           /\ req[p].role[r] = role[r]
<1>1. role[r] \in RoleRow /\ role[r] # NoRole
  BY NullAssumption, EditedRole DEF AccountInv
<1>2. Kind(p) = "mutation" /\ req[p].role[r] # NoRole /\ req[p].role[r].version = role[r].version
  BY DEF Editing, Locked
<1>3. r \notin gone
  BY <1>1 DEF ShownInv
<1> QED
  BY <1>1, <1>2, <1>3 DEF ShownInv, ShownTo

LEMMA UpdateRoleSound ==
    ASSUME AccountInv, AccountInv', ShownInv, NEW p \in Requests, NEW r \in Roles,
           NEW pr \in Priorities, UpdateRole(p, r, pr)
    PROVE  SoundCommit(p)
<1>1. /\ RoleOnly /\ gone' = gone
      /\ req[p].user \in Superusers \/ pr < MaxRolePriority(req[p].user)
  BY DEF UpdateRole, sessionVars, RoleOnly, Grantable
<1>2. /\ role[r] \in RoleRow /\ role[r] # NoRole /\ r \notin gone
      /\ req[p].role[r] = role[r]
  BY EditingShown DEF UpdateRole
<1>3. PICK row : row = [role[r] EXCEPT !.priority = pr, !.version = @ + 1]
  OBVIOUS
<1>4. role' = [role EXCEPT ![r] = row]
  BY <1>3 DEF UpdateRole
<1>5. /\ row.permissions = role[r].permissions /\ row.limit = role[r].limit
      /\ row.priority = pr
      /\ row.version > role[r].version
  BY <1>2, <1>3 DEF RoleRow
<1>6. row # NoRole
  <2>1. pr \in 1..MaxPriority
    BY AccountAssumption
  <2>2. row \in RoleRow
    BY <1>2, <1>3, <2>1, RoleRowUpdates, Zenon
  <2> QED
    BY <2>2, NullAssumption
<1> QED
  BY <1>1, <1>2, <1>4, <1>5, <1>6, RoleCommitSound

LEMMA ReplacePermissionsSound ==
    ASSUME AccountInv, AccountInv', ShownInv, NEW p \in Requests, NEW r \in Roles,
           NEW P \in Policies, ReplacePermissions(p, r, P)
    PROVE  SoundCommit(p)
<1>1. /\ RoleOnly /\ gone' = gone
      /\ req[p].user \in Superusers \/ P \subseteq Granted(req[p].user)
  BY DEF ReplacePermissions, sessionVars, RoleOnly, Grantable
<1>2. /\ role[r] \in RoleRow /\ role[r] # NoRole /\ r \notin gone
      /\ req[p].role[r] = role[r]
  BY EditingShown DEF ReplacePermissions
<1>3. PICK row : row = [role[r] EXCEPT !.permissions = P, !.version = @ + 1]
  OBVIOUS
<1>4. role' = [role EXCEPT ![r] = row]
  BY <1>3 DEF ReplacePermissions
<1>5. /\ row.permissions = P /\ row.limit = role[r].limit
      /\ row.priority = role[r].priority
      /\ row.version > role[r].version
  BY <1>2, <1>3 DEF RoleRow
<1>6. row # NoRole
  <2>1. P \in SUBSET Permissions
    BY AccountAssumption
  <2>2. row \in RoleRow
    BY <1>2, <1>3, <2>1, RoleRowUpdates, Zenon
  <2> QED
    BY <2>2, NullAssumption
<1> QED
  BY <1>1, <1>2, <1>4, <1>5, <1>6, RoleCommitSound

LEMMA ReplacePolicySound ==
    ASSUME AccountInv, AccountInv', ShownInv, NEW p \in Requests, NEW r \in Roles,
           NEW P \in Policies, NEW n \in 0..MaxLimit, ReplacePolicy(p, r, P, n)
    PROVE  SoundCommit(p)
<1>1. /\ RoleOnly /\ gone' = gone
      /\ req[p].user \in Superusers \/ (P \subseteq Granted(req[p].user) /\ n <= EffectiveLimit(req[p].user))
  BY DEF ReplacePolicy, sessionVars, RoleOnly, Grantable
<1>2. /\ role[r] \in RoleRow /\ role[r] # NoRole /\ r \notin gone
      /\ req[p].role[r] = role[r]
  BY EditingShown DEF ReplacePolicy
<1>3. PICK row : row = [role[r] EXCEPT !.permissions = P, !.limit = n, !.version = @ + 1]
  OBVIOUS
<1>4. role' = [role EXCEPT ![r] = row]
  BY <1>3 DEF ReplacePolicy
<1>5. /\ row.permissions = P /\ row.limit = n
      /\ row.priority = role[r].priority
      /\ row.version > role[r].version
  BY <1>2, <1>3 DEF RoleRow
<1>6. row # NoRole
  <2>1. P \in SUBSET Permissions
    BY AccountAssumption
  <2>2. row \in RoleRow
    BY <1>2, <1>3, <2>1, RoleRowUpdates, Zenon
  <2> QED
    BY <2>2, NullAssumption
<1> QED
  BY <1>1, <1>2, <1>4, <1>5, <1>6, RoleCommitSound

LEMMA ReplaceLimitsSound ==
    ASSUME AccountInv, AccountInv', ShownInv, NEW p \in Requests, NEW r \in Roles,
           NEW n \in 0..MaxLimit, ReplaceLimits(p, r, n)
    PROVE  SoundCommit(p)
<1>1. /\ RoleOnly /\ gone' = gone
      /\ req[p].user \in Superusers \/ n <= EffectiveLimit(req[p].user)
  BY DEF ReplaceLimits, sessionVars, RoleOnly, Grantable
<1>2. /\ role[r] \in RoleRow /\ role[r] # NoRole /\ r \notin gone
      /\ req[p].role[r] = role[r]
  BY EditingShown DEF ReplaceLimits
<1>3. PICK row : row = [role[r] EXCEPT !.limit = n, !.version = @ + 1]
  OBVIOUS
<1>4. role' = [role EXCEPT ![r] = row]
  BY <1>3 DEF ReplaceLimits
<1>5. /\ row.permissions = role[r].permissions /\ row.limit = n
      /\ row.priority = role[r].priority
      /\ row.version > role[r].version
  BY <1>2, <1>3 DEF RoleRow
<1>6. row # NoRole
  <2>1. n \in 0..MaxLimit
    BY AccountAssumption
  <2>2. row \in RoleRow
    BY <1>2, <1>3, <2>1, RoleRowUpdates, Zenon
  <2> QED
    BY <2>2, NullAssumption
<1> QED
  BY <1>1, <1>2, <1>4, <1>5, <1>6, RoleCommitSound

LEMMA CreateRoleSound ==
    ASSUME AccountInv, AccountInv', ShownInv, NEW p \in Requests, NEW r \in Roles,
           NEW pr \in Priorities, NEW P \in Policies, NEW n \in 0..MaxLimit,
           CreateRole(p, r, pr, P, n)
    PROVE  SoundCommit(p)
<1>1. RoleOnly /\ gone' = gone /\ role[r] = NoRole /\ r \notin gone
  BY DEF CreateRole, sessionVars, RoleOnly, Exists
<1>2. PICK row : row = [priority |-> pr, permissions |-> P, limit |-> n, version |-> 1]
  OBVIOUS
<1>3. role' = [role EXCEPT ![r] = row]
  BY <1>2 DEF CreateRole
<1>4. row # NoRole
  BY <1>2, AccountAssumption, NullAssumption DEF RoleRow
<1> QED
  BY <1>1, <1>3, <1>4, RoleCommitSound

LEMMA DeleteRoleSound ==
    ASSUME AccountInv, AccountInv', ShownInv, NEW p \in Requests, NEW r \in Roles,
           DeleteRole(p, r)
    PROVE  SoundCommit(p)
<1>1. /\ RoleOnly /\ gone' = gone \cup {r} /\ role' = [role EXCEPT ![r] = NoRole]
      /\ \A u \in Users : r \notin assigned[u]
  BY DEF DeleteRole, sessionVars, RoleOnly, Unused
<1>2. req[p].role[r] = role[r]
  BY EditingShown DEF DeleteRole
<1>3. UNCHANGED <<account, assigned, assignment, grant>>
  BY <1>1 DEF RoleOnly
<1>4. role'[r] = NoRole /\ \A q \in Roles \ {r} : role'[q] = role[q]
  BY <1>1 DEF AccountInv, AccountTypeOK
<1>5. ASSUME NEW u \in Users, NEW q \in assigned'[u] PROVE Harmless(req[p].user, u, q)
  <2>1. q \in assigned[u] /\ q \in Roles \ {r}
    BY <1>1, <1>3, <1>5 DEF AccountInv, AccountTypeOK
  <2> QED
    BY <1>4, <2>1 DEF Harmless
<1>6. Contained(p)
  BY <1>5, ContainedBy
<1>7. RolesMove
  BY <1>1, <1>4 DEF RolesMove, ShownInv, AccountInv, AccountTypeOK
<1>8. AssignmentsMove /\ GrantsMove /\ AbsentKept
  BY <1>3 DEF AssignmentsMove, GrantsMove, AbsentKept
<1>9. Informed(p) /\ Entitled(p)
  BY <1>2, <1>3, <1>4 DEF Informed, Entitled, Exists
<1> QED
  BY <1>6, <1>7, <1>8, <1>9 DEF SoundCommit, RowsMove

LEMMA MutateSound ==
    ASSUME AccountInv, AccountInv', ShownInv, NEW p \in Requests, Mutate(p)
    PROVE  SoundCommit(p)
<1>1. ASSUME NEW u, NEW k, NEW P, CreateKey(p, u, k, P) PROVE KeyOnly
  BY <1>1 DEF CreateKey, KeyOnly, sessionVars
<1>2. ASSUME NEW k, RevokeKey(p, k) PROVE KeyOnly
  BY <1>2 DEF RevokeKey, KeyOnly, sessionVars
<1>3. ASSUME NEW k, NEW n, RotateKey(p, k, n) PROVE KeyOnly
  BY <1>3 DEF RotateKey, KeyOnly, sessionVars
<1> QED
  BY <1>1, <1>2, <1>3, KeyCommitSound, CreateUserSound, UpdateUserSound, RetireUserSound,
     ReplaceUserRolesSound, ChangePasswordSound, UpdateRoleSound, ReplacePermissionsSound,
     ReplacePolicySound, ReplaceLimitsSound, CreateRoleSound, DeleteRoleSound,
     GrantCommitSound, Zenon DEF Mutate

(* A mutation that commits ends its own request. *)
LEMMA MutateCommits ==
    ASSUME RequestSound, NEW p \in Requests, Mutate(p)
    PROVE  Commits(p) /\ \A q \in Requests \ {p} : req'[q] = req[q]
<1> DEFINE Ends == Kind(p) = "mutation" /\ Commit(p)
<1>1. ASSUME NEW u, NEW R, CreateUser(p, u, R) PROVE Ends
  BY <1>1, Zenon DEF CreateUser, Locked
<1>2. ASSUME NEW u, NEW s, UpdateUser(p, u, s) PROVE Ends
  BY <1>2, Zenon DEF UpdateUser, Locked
<1>3. ASSUME NEW u, NEW h, RetireUser(p, u, h) PROVE Ends
  BY <1>3, Zenon DEF RetireUser, Locked
<1>4. ASSUME NEW u, NEW R, ReplaceUserRoles(p, u, R) PROVE Ends
  BY <1>4, Zenon DEF ReplaceUserRoles, Locked
<1>5. ASSUME NEW u, ChangePassword(p, u) PROVE Ends
  BY <1>5, Zenon DEF ChangePassword, Locked
<1>6. ASSUME NEW r, NEW pr, UpdateRole(p, r, pr) PROVE Ends
  BY <1>6, Zenon DEF UpdateRole, Editing, Locked
<1>7. ASSUME NEW r, NEW P, ReplacePermissions(p, r, P) PROVE Ends
  BY <1>7, Zenon DEF ReplacePermissions, Editing, Locked
<1>8. ASSUME NEW r, NEW P, NEW n, ReplacePolicy(p, r, P, n) PROVE Ends
  BY <1>8, Zenon DEF ReplacePolicy, Editing, Locked
<1>9. ASSUME NEW r, NEW n, ReplaceLimits(p, r, n) PROVE Ends
  BY <1>9, Zenon DEF ReplaceLimits, Editing, Locked
<1>10. ASSUME NEW r, NEW pr, NEW P, NEW n, CreateRole(p, r, pr, P, n) PROVE Ends
  BY <1>10, Zenon DEF CreateRole, Locked
<1>11. ASSUME NEW r, DeleteRole(p, r) PROVE Ends
  BY <1>11, Zenon DEF DeleteRole, Editing, Locked
<1>12. ASSUME NEW b, NEW R, ReplaceRoleGrants(p, b, R) PROVE Ends
  BY <1>12, Zenon DEF ReplaceRoleGrants, Locked
<1>13. ASSUME NEW u, NEW k, NEW P, CreateKey(p, u, k, P) PROVE Ends
  BY <1>13, Zenon DEF CreateKey, Locked
<1>14. ASSUME NEW k, RevokeKey(p, k) PROVE Ends
  BY <1>14, Zenon DEF RevokeKey, Holding, Locked
<1>15. ASSUME NEW k, NEW n, RotateKey(p, k, n) PROVE Ends
  BY <1>15, Zenon DEF RotateKey, Holding, Locked
<1>16. Ends
  <2> HIDE DEF Ends
  <2> QED
    BY <1>1, <1>2, <1>3, <1>4, <1>5, <1>6, <1>7, <1>8, <1>9, <1>10,
       <1>11, <1>12, <1>13, <1>14, <1>15, Zenon DEF Mutate
<1> QED
  BY <1>16 DEF Commit, Commits, RequestSound

(* All other steps: they write no policy row without its version, and no
   password, and a request that ends in one leaves the policy alone. *)
Quietly ==
    /\ RowsMove
    /\ \A u \in Users : account'[u].password = account[u].password
    /\ \A p \in Requests : req'[p] = req[p] \/ Kind(p)' # "mutation" \/ ShownTo(p)'
    /\ \A p \in Requests : Commits(p) => UNCHANGED <<account, role, gone, assigned, assignment, grant>>

LEMMA UnchangedQuietly ==
    ASSUME ShownInv, UNCHANGED <<account, role, gone, assigned, assignment, grant>>,
           \A p \in Requests : req'[p] = req[p] \/ Kind(p)' # "mutation" \/ ShownTo(p)'
    PROVE  Quietly
<1>1. RowsMove
  BY DEF RowsMove, AssignmentsMove, RolesMove, GrantsMove, AbsentKept, ShownInv
<1> QED
  BY <1>1 DEF Quietly

LEMMA UseQuietly ==
    ASSUME AccountInv, AccountInv', ShownInv, NEW p \in Requests,
           Use(p) \/ \E a \in Users : Begin(p, a)
    PROVE  Quietly
<1>1. UNCHANGED <<account, role, gone, assigned, assignment, grant>>
  BY DEF Use, Begin, Enter, CreateKB, CreateBudget, Chat, Leave, sessionVars, policyVars
<1>2. ASSUME NEW a \in Users, Begin(p, a)
      PROVE  ShownTo(p)' /\ \A q \in Requests \ {p} : req'[q] = req[q]
  BY <1>2, BeginShows DEF AccountInv
<1>3. ASSUME Use(p)
      PROVE  Kind(p)' # "mutation" /\ \A q \in Requests \ {p} : req'[q] = req[q]
  <2>1. PICK x : req' = [req EXCEPT ![p] = x] /\ (x = Idle \/ x.kind = "ordinary")
    BY <1>3 DEF Use, Enter, CreateKB, CreateBudget, Chat, Leave
  <2> QED
    BY <2>1 DEF AccountInv, RequestSound, Kind
<1> QED
  BY <1>1, <1>2, <1>3, UnchangedQuietly

(* login, refresh and logout write nothing of an account but its version. *)
LEMMA AuthenticateQuietly ==
    ASSUME AccountInv, ShownInv, Authenticate
    PROVE  Quietly
<1>1. UNCHANGED <<role, gone, assigned, assignment, grant, req>> /\ SessionStep
  BY DEF Authenticate, policyVars
<1>2. \A u \in Users : /\ account'[u].password = account[u].password
                       /\ account'[u].status = account[u].status
                       /\ account'[u].retired = account[u].retired
  <2>1. account' = account \/ \E v : account' = BumpVersion(v)
    BY <1>1 DEF SessionStep, LoginRead, LoginFail, LoginCommit, Refresh, RefreshReused,
       RefreshInvalid, RefreshRotate, Logout, Expire
  <2> QED
    BY <2>1 DEF BumpVersion, AccountInv, AccountTypeOK, SessionTypeOK, AccountRow
<1>3. RowsMove
  BY <1>1, <1>2 DEF RowsMove, AssignmentsMove, RolesMove, GrantsMove, AbsentKept, ShownInv
<1>4. \A p \in Requests : ~Commits(p)
  BY <1>1 DEF Commits, Kind
<1> QED
  BY <1>1, <1>2, <1>3, <1>4 DEF Quietly

LEMMA BootstrapQuietly ==
    ASSUME AccountInv, ShownInv, NEW u \in Users, NEW r \in Roles, Bootstrap(u, r)
    PROVE  Quietly
<1>1. /\ UNCHANGED <<role, gone, grant, req>> /\ EndSessions(u, "ACTIVE")
      /\ assigned' = [assigned EXCEPT ![u] = assigned[u] \cup {r}]
      /\ assignment' = [assignment EXCEPT ![u] = assignment[u] + 1]
  BY DEF Bootstrap
<1>2. /\ account'[u].status = "ACTIVE"
      /\ \A v \in Users : /\ account'[v].password = account[v].password
                          /\ account'[v].retired = account[v].retired
                          /\ v # u => account'[v] = account[v]
  BY <1>1, EndSessionsKeeps DEF AccountInv, Status
<1>3. /\ assignment'[u] > assignment[u]
      /\ \A v \in Users \ {u} : assigned'[v] = assigned[v] /\ assignment'[v] = assignment[v]
  BY <1>1 DEF AccountInv, AccountTypeOK
<1>4. RowsMove
  BY <1>1, <1>2, <1>3 DEF RowsMove, AssignmentsMove, RolesMove, GrantsMove, AbsentKept, ShownInv
<1>5. \A p \in Requests : ~Commits(p)
  BY <1>1 DEF Commits, Kind
<1> QED
  BY <1>1, <1>2, <1>4, <1>5 DEF Quietly

(* Every step is quiet or the commit of one mutation. *)
LEMMA AccountStepCases ==
    ASSUME AccountInv, AccountInv', ShownInv, [AccountNext]_accountVars
    PROVE  Quietly \/ \E p \in Requests : Mutate(p)
<1>1. ASSUME NEW l \in lease, ChatEnds(l) PROVE Quietly
  <2>1. UNCHANGED <<account, role, gone, assigned, assignment, grant, req>>
    BY <1>1 DEF ChatEnds, sessionVars, policyVars
  <2> QED
    BY <2>1, UnchangedQuietly
<1>2. CASE UNCHANGED accountVars
  <2>1. UNCHANGED <<account, role, gone, assigned, assignment, grant, req>>
    BY <1>2 DEF accountVars, sessionVars, policyVars
  <2> QED
    BY <2>1, UnchangedQuietly
<1> QED
  BY <1>1, <1>2, UseQuietly, AuthenticateQuietly, BootstrapQuietly DEF AccountNext

LEMMA ShownInductive ==
    ASSUME AccountInv, AccountInv', ShownInv, [AccountNext]_accountVars
    PROVE  ShownInv'
<1>1. CASE Quietly
  BY <1>1, ShownKept DEF Quietly, AccountInv
<1>2. ASSUME NEW p \in Requests, Mutate(p) PROVE ShownInv'
  <2>1. RowsMove
    BY <1>2, MutateSound DEF SoundCommit
  <2>2. Commits(p) /\ \A q \in Requests \ {p} : req'[q] = req[q]
    BY <1>2, MutateCommits DEF AccountInv
  <2>3. Kind(p)' # "mutation"
    BY <2>2 DEF Commits, Kind
  <2> QED
    BY <2>1, <2>2, <2>3, ShownKept DEF AccountInv
<1> QED
  BY <1>1, <1>2, AccountStepCases

LEMMA ShownInit == AccountInit => ShownInv
BY DEF AccountInit, ShownInv, Kind

(* What MutationsSound says of a step. *)
LEMMA AccountStepSound ==
    ASSUME AccountInv, AccountInv', ShownInv, [AccountNext]_accountVars
    PROVE  /\ \A p \in Requests : Commits(p) => Contained(p) /\ Informed(p)
           /\ \A u \in Users : account'[u].password # account[u].password =>
                 /\ ~account[u].retired
                 /\ \E p \in Requests : Commits(p) /\
                       \/ req[p].user = u /\ req[p].password = account[u].password
                       \/ req[p].user # u /\ req[p].user \in Superusers
<1>1. CASE Quietly
  <2>1. ASSUME NEW p \in Requests, Commits(p) PROVE Contained(p) /\ Informed(p)
    <3>1. UNCHANGED <<account, role, gone, assigned, assignment, grant>>
      BY <1>1, <2>1 DEF Quietly
    <3> QED
      BY <3>1, NothingGiven DEF Informed
  <2> QED
    BY <1>1, <2>1 DEF Quietly
<1>2. CASE \E p \in Requests : Mutate(p)
  <2>1. PICK p \in Requests : Mutate(p)
    BY <1>2
  <2>2. Contained(p) /\ Informed(p) /\ Entitled(p)
    BY <2>1, MutateSound DEF SoundCommit
  <2>3. Commits(p) /\ \A q \in Requests \ {p} : req'[q] = req[q]
    BY <2>1, MutateCommits DEF AccountInv
  <2>4. \A q \in Requests : Commits(q) => q = p
    BY <2>3 DEF Commits, Kind
  <2> QED
    BY <2>2, <2>3, <2>4 DEF Entitled
<1> QED
  BY <1>1, <1>2, AccountStepCases

(* No handler of users.py, roles.py or knowledge_bases.py commits a mutation on
   what was true only before it had the exclusive RBAC lock, for any number of
   administrators, requests and edits. *)
THEOREM MutationsAlwaysSound == AccountSpec => MutationsSound
<1> DEFINE Escalated == \A p \in Requests : Commits(p) /\ req[p].user \notin Superusers =>
              LET a == req[p].user
              IN  \A u \in Users :
                    /\ Granted(u)' \subseteq Granted(u) \cup Granted(a)
                    /\ MaxRolePriority(u)' > MaxRolePriority(u)
                          => MaxRolePriority(u)' < MaxRolePriority(a)
                    /\ EffectiveLimit(u)' > EffectiveLimit(u)
                          => EffectiveLimit(u)' <= EffectiveLimit(a)
           Updated == \A p \in Requests : Commits(p) =>
              /\ \A u \in Users : assigned'[u] # assigned[u] /\ ~account'[u].retired
                    /\ account[u].status # "ABSENT" => req[p].assigned[u] = assigned[u]
              /\ \A r \in Roles : role'[r] # role[r] /\ Exists(r)
                    => req[p].role[r] = role[r]
              /\ \A b \in KBs : grant'[b] # grant[b] => req[p].grant[b] = grant[b]
           Replaced == \A u \in Users : account'[u].password # account[u].password =>
              /\ ~account[u].retired
              /\ \E p \in Requests : Commits(p) /\
                    \/ req[p].user = u /\ req[p].password = account[u].password
                    \/ req[p].user # u /\ req[p].user \in Superusers
<1>1. ASSUME AccountInv, AccountInv', ShownInv, [AccountNext]_accountVars
      PROVE  Escalated /\ Updated /\ Replaced
  BY <1>1, AccountStepSound DEF Contained, Bounded, Informed
<1>2. AccountInv /\ AccountInv' /\ ShownInv /\ [AccountNext]_accountVars
        => ShownInv' /\ [Escalated]_accountVars /\ [Updated]_accountVars /\ [Replaced]_accountVars
  BY <1>1, ShownInductive
<1>3. /\ NoEscalation <=> [][Escalated]_accountVars
      /\ NoLostUpdate <=> [][Updated]_accountVars
      /\ PasswordProof <=> [][Replaced]_accountVars
  BY DEF NoEscalation, NoLostUpdate, PasswordProof
<1> HIDE DEF Escalated, Updated, Replaced
<1> QED
  BY <1>2, <1>3, AccountInvariant, ShownInit, PTL DEF AccountSpec, MutationsSound
=============================================================================
