------------------------------ MODULE Accounts ------------------------------
(***************************************************************************)
(* Users, roles and API keys: the handlers of app/api/v1/routes/users.py,  *)
(* roles.py and api_keys.py on top of the sessions they end, and the       *)
(* requests that run under the policy they change.                         *)
(*                                                                         *)
(* A policy mutation is authenticated without any lock (Begin) and does    *)
(* its work in one transaction that first takes the exclusive RBAC lock,   *)
(* reads the actor again and authorizes again; that transaction is one     *)
(* step.  Ordinary and API-key requests hold the shared side of the lock   *)
(* from authentication to their commit, so no mutation runs meanwhile.     *)
(* Leases are HELD usage records: an external model call whose handler has *)
(* given up its locks.                                                     *)
(*                                                                         *)
(* Permissions, limits and priorities of a role are kept; names, texts,    *)
(* metadata and audit rows are not.                                        *)
(***************************************************************************)
EXTENDS Sessions, FiniteSetsExt

CONSTANTS
    Superusers,     \* users.is_superuser, set at bootstrap and never written
    Roles,          \* role ids
    SystemRoles,    \* roles.is_system, created at bootstrap
    Permissions,    \* permission codes
    PublicPermissions,  \* PUBLIC_API_PERMISSIONS
    Policies,       \* permission sets a payload may name
    RoleSets,       \* role sets a payload may name
    Priorities,     \* role priorities a payload may name
    MaxPriority,    \* the highest; 1 is the lowest, 0 stands for no role
    MaxLimit,       \* bound: role limits
    Keys,           \* API key ids, taken in order
    KBs,            \* knowledge base ids
    Requests,       \* requests in flight
    Callers,        \* bound: users whose ordinary requests are explored
    Visitors,       \* bound: users whose logins are explored
    NoRole, NoKey, NoOwner, Idle,
    FirstRoles, FirstAssigned, FirstKeys, FirstActive, FirstOwners,
                    \* what there is to begin with
    Budgets         \* bound: <<mutations, refresh tokens, ordinary requests>> to explore

Needed == {"user:manage", "role:assign", "role:manage", "api-key:manage",
           "knowledge:grant", "knowledge:create", "quota:manage", "chat:query"}
RoleRow == [priority : 1..MaxPriority, permissions : SUBSET Permissions,
            limit : 0..MaxLimit, version : Nat]
KeyRow == [owner : Users, family : Keys, scope : SUBSET PublicPermissions,
           live : BOOLEAN, budget : {"none", "limit", "stray"}]

ASSUME AccountAssumption ==
    /\ Needed \subseteq Permissions /\ PublicPermissions \subseteq Permissions
    /\ MaxPriority \in Nat /\ Priorities \subseteq 1..MaxPriority /\ MaxLimit \in Nat
    /\ Policies \subseteq SUBSET Permissions /\ RoleSets \subseteq SUBSET Roles
    /\ Superusers \subseteq FirstActive /\ FirstActive \subseteq Users
    /\ Keys \subseteq Nat /\ Budgets \subseteq Nat \X Nat \X Nat
    /\ FirstRoles \in [Roles -> RoleRow \cup {NoRole}]
    /\ FirstAssigned \in [Users -> SUBSET Roles]
    /\ FirstKeys \in [Keys -> KeyRow \cup {NoKey}]
    /\ FirstOwners \in [Budgets -> SUBSET (FirstActive \cup {NoOwner})]

(* The values that stand for NULL are no rows and no ids. *)
ASSUME NullAssumption ==
    /\ NoRole \notin RoleRow /\ NoKey \notin KeyRow /\ NoKey \notin Keys
    /\ NoOwner \notin Users
    /\ Callers \subseteq Users

(* A database that seed_database has set up: an administrator, the system
   roles, and rows that satisfy its foreign keys and unique indexes. *)
ASSUME SeedAssumption ==
    /\ Superusers # {} /\ SystemRoles \subseteq Roles
    /\ \A r \in SystemRoles : FirstRoles[r] # NoRole
    /\ \A u \in Users : \A r \in FirstAssigned[u] : FirstRoles[r] # NoRole
    /\ \A k \in Keys : FirstKeys[k] # NoKey => FirstKeys[FirstKeys[k].family] # NoKey
    /\ \A k, j \in Keys :
          /\ FirstKeys[k] # NoKey /\ FirstKeys[k].live
          /\ FirstKeys[j] # NoKey /\ FirstKeys[j].family = FirstKeys[k].family
          => /\ FirstKeys[j].live => j = k
             /\ FirstKeys[j].budget = "limit" => FirstKeys[k].budget = "limit"

VARIABLES
    role,           \* roles with their permissions, limits and policy_version
    gone,           \* roles that were deleted; an id is never used again
    assigned,       \* user_roles
    assignment,     \* users.role_assignment_version
    key,            \* api_keys, and the budget policy that points at the key: a
                    \* limit, or a stray one of a secret that no longer works
    owner,          \* knowledge_bases.owner_id
    grant,          \* knowledge_base_role_grants and role_grant_version
    lease,          \* HELD usage records: whose, through which key, on what
    req,            \* requests in flight
    budget          \* bound: mutations left, tokens, ordinary requests left

policyVars == <<role, gone, assigned, assignment, key, owner, grant>>
accountVars == <<sessionVars, policyVars, lease, req, budget>>

-----------------------------------------------------------------------------
(* AccessService.resolve. *)
Granted(u) ==
    IF u \in Superusers THEN Permissions
    ELSE UNION {role[r].permissions : r \in assigned[u]}
MaxRolePriority(u) == Max({role[r].priority : r \in assigned[u]} \cup {0})
EffectiveLimit(u) == Max({role[r].limit : r \in assigned[u]} \cup {0})

(* Owns user u through key k, or through no key. *)
Scope(u, k) == IF k = NoKey THEN Granted(u) ELSE key[k].scope \cap Granted(u)

Kind(p) == IF req[p] = Idle THEN "idle" ELSE req[p].kind
Exists(r) == role[r] # NoRole
LiveKey(k) == key[k] # NoKey /\ key[k].live
NextKey(k) == key[k] = NoKey /\ \A j \in Keys : j < k => key[j] # NoKey

(* require_knowledge_base_access; the access levels are one. *)
Reaches(u, b) ==
    /\ owner[b] # NoOwner
    /\ u \in Superusers \/ owner[b] = u \/ assigned[u] \cap grant[b].roles # {}

(* deny_if_active_external_llm_egress. *)
NoEgressOn(b) == ~\E l \in lease : l.kb = b
NoEgressOf(u) == ~\E l \in lease : l.user = u
NoEgressThrough(k) == ~\E l \in lease : l.key = k
NoEgressUnder(r) == ~\E l \in lease : r \in assigned[l.user]

-----------------------------------------------------------------------------
(* get_current_user on a marked route: no lock, and what the handler knows of
   the actor from here on may be out of date.  An editor also brings the
   assignments and policies it was shown. *)
Begin(p, a) ==
    /\ req[p] = Idle /\ budget[1] > 0 /\ Active(a)
    /\ req' = [req EXCEPT ![p] =
            [kind |-> "mutation", user |-> a, key |-> NoKey, seen |-> Granted(a),
             password |-> account[a].password,
             assigned |-> assigned, assignment |-> assignment, role |-> role,
             grant |-> grant]]
    /\ UNCHANGED <<sessionVars, policyVars, lease, budget>>

(* Authentication of an ordinary request, by access token or by API key: the
   shared RBAC lock and the user's shared activity lock are held until Leave. *)
Enter(p, u, k) ==
    /\ req[p] = Idle /\ budget[3] > 0 /\ Active(u)
    /\ k # NoKey => LiveKey(k) /\ key[k].owner = u
    /\ req' = [req EXCEPT ![p] =
            [kind |-> "ordinary", user |-> u, key |-> k, seen |-> Scope(u, k),
             password |-> 0, assigned |-> <<>>, assignment |-> <<>>, role |-> <<>>,
             grant |-> <<>>]]
    /\ budget' = [budget EXCEPT ![3] = @ - 1]
    /\ UNCHANGED <<sessionVars, policyVars, lease>>

Leave(p) ==
    /\ req[p] # Idle
    /\ req' = [req EXCEPT ![p] = Idle]
    /\ UNCHANGED <<sessionVars, policyVars, lease, budget>>

(* create_knowledge_base. *)
CreateKB(p, b) ==
    /\ Kind(p) = "ordinary" /\ req[p].key = NoKey
    /\ "knowledge:create" \in req[p].seen
    /\ owner[b] = NoOwner
    /\ owner' = [owner EXCEPT ![b] = req[p].user]
    /\ req' = [req EXCEPT ![p] = Idle]
    /\ UNCHANGED <<sessionVars, role, gone, assigned, assignment, key, grant, lease, budget>>

(* create_budget_policy: any key that exists will do, also one that was rotated
   or revoked and whose id no call will ever carry again. *)
CreateBudget(p, k) ==
    /\ Kind(p) = "ordinary" /\ req[p].key = NoKey
    /\ "quota:manage" \in req[p].seen
    /\ key[k] # NoKey
    /\ key' = [key EXCEPT ![k].budget = IF LiveKey(k) THEN "limit" ELSE "stray"]
    /\ req' = [req EXCEPT ![p] = Idle]
    /\ UNCHANGED <<sessionVars, role, gone, assigned, assignment, owner, grant, lease, budget>>

(* A chat request commits its HELD usage record and with it lets go of the
   locks; the provider is called under the lease alone. *)
Chat(p, b) ==
    /\ Kind(p) = "ordinary" /\ "chat:query" \in req[p].seen
    /\ Reaches(req[p].user, b)
    /\ lease' = lease \cup {[user |-> req[p].user, key |-> req[p].key, kb |-> b]}
    /\ req' = [req EXCEPT ![p] = Idle]
    /\ UNCHANGED <<sessionVars, policyVars, budget>>

(* Settled, released or reconciled. *)
ChatEnds(l) ==
    /\ lease' = lease \ {l}
    /\ UNCHANGED <<sessionVars, policyVars, req, budget>>

-----------------------------------------------------------------------------
(* Slip: the RBAC lock is taken shared, like everyone else's. *)
SlipLocked(p, needs) ==
    /\ Kind(p) = "mutation" /\ budget[1] > 0
    /\ Active(req[p].user)
    /\ needs \subseteq req[p].seen \cap Granted(req[p].user)

(* The exclusive RBAC lock excludes every ordinary request; the actor is read
   again and must still be active and hold what the route requires. *)
Locked(p, needs) ==
    /\ Kind(p) = "mutation" /\ budget[1] > 0
    /\ \A q \in Requests : Kind(q) # "ordinary"
    /\ Active(req[p].user)
    /\ needs \subseteq req[p].seen \cap Granted(req[p].user)

(* The commit that ends a mutation. *)
Commit(p) ==
    /\ req' = [req EXCEPT ![p] = Idle]
    /\ budget' = [budget EXCEPT ![1] = @ - 1]
    /\ lease' = lease

(* _ensure_target_is_below_actor and _authorize_managed_user_target. *)
Below(a, u) ==
    \/ a \in Superusers
    \/ /\ u \notin Superusers
       /\ assigned[u] \cap SystemRoles = {}
       /\ MaxRolePriority(u) < MaxRolePriority(a)

(* Slip: priorities are compared, permissions and limits are not. *)
SlipAssignable(a, R) ==
    \/ a \in Superusers
    \/ R \cap SystemRoles = {} /\ \A r \in R : role[r].priority < MaxRolePriority(a)

(* _ensure_roles_assignable. *)
Assignable(a, R) ==
    \/ a \in Superusers
    \/ /\ R \cap SystemRoles = {}
       /\ \A r \in R : /\ role[r].priority < MaxRolePriority(a)
                       /\ role[r].permissions \subseteq Granted(a)
                       /\ role[r].limit <= EffectiveLimit(a)
                       /\ \A b \in KBs : r \in grant[b].roles => Reaches(a, b)

(* Slip: a disabled superuser counts. *)
SlipOtherSuperuser(u) == Superusers \ {u} # {}

(* _lock_superuser_guard and the count behind it. *)
OtherSuperuser(u) == \E s \in Superusers \ {u} : Active(s)

-----------------------------------------------------------------------------
CreateUser(p, u, R) ==
    /\ Locked(p, {"user:manage"} \cup (IF R = {} THEN {} ELSE {"role:assign"}))
    /\ \A r \in R : Exists(r)
    /\ Assignable(req[p].user, R)
    /\ Enrol(u)
    /\ assigned' = [assigned EXCEPT ![u] = R]
    /\ assignment' = [assignment EXCEPT ![u] = 1]
    /\ UNCHANGED <<role, gone, key, owner, grant>>
    /\ Commit(p)

(* update_user with a status in the payload. *)
UpdateUser(p, u, s) ==
    /\ Locked(p, {"user:manage"}) /\ account[u].status # "ABSENT"
    /\ Below(req[p].user, u)
    /\ account[u].retired => s = "DISABLED"
    /\ u \in Superusers /\ s # "ACTIVE" => OtherSuperuser(u)
    /\ account[u].status = "ACTIVE" /\ s # "ACTIVE" => NoEgressOf(u)
    /\ EndSessions(u, s)
    /\ UNCHANGED policyVars
    /\ Commit(p)

(* Slip: the keys of the account survive it. *)
SlipRevokeKeys(u) == key

RevokeKeys(u) ==
    [k \in Keys |-> IF LiveKey(k) /\ key[k].owner = u
                    THEN [key[k] EXCEPT !.live = FALSE] ELSE key[k]]

(* retire_user: who may retire u and hand its knowledge bases to heir. *)
Retirable(a, u, heir) ==
    /\ u # a /\ Below(a, u) /\ ~account[u].retired
    /\ heir # NoOwner => /\ heir # u /\ Active(heir)
                         /\ "knowledge:grant" \in Granted(a)
    /\ u \in Superusers => OtherSuperuser(u)

(* retire_user: the knowledge bases change hands and the account ends with all
   it holds, unless one of them or the account is in an external call. *)
RetireUser(p, u, heir) ==
    LET owned == {b \in KBs : owner[b] = u}
    IN  /\ Locked(p, {"user:manage"}) /\ account[u].status # "ABSENT"
        /\ Retirable(req[p].user, u, heir)
        /\ owned # {} => heir # NoOwner
        /\ \A b \in owned : Reaches(req[p].user, b) /\ NoEgressOn(b)
        /\ owned # {} => "knowledge:grant" \in Granted(req[p].user)
        /\ NoEgressOf(u)
        /\ owner' = [b \in KBs |-> IF b \in owned THEN heir ELSE owner[b]]
        /\ RetireAccount(u)
        /\ key' = RevokeKeys(u)
        /\ assigned' = [assigned EXCEPT ![u] = {}]
        /\ assignment' = [assignment EXCEPT ![u] = IF assigned[u] = {} THEN @ ELSE @ + 1]
        /\ UNCHANGED <<role, gone, grant>>
        /\ Commit(p)

(* The password was verified before the lock, against the hash read then. *)
Proof(p, u) == req[p].password = account[u].password

(* change_own_password and reset_user_password. *)
ChangePassword(p, u) ==
    /\ Locked(p, IF u = req[p].user THEN {} ELSE {"user:manage"})
    /\ account[u].status # "ABSENT"
    /\ IF u = req[p].user THEN Proof(p, u) ELSE req[p].user \in Superusers
    /\ ReplacePassword(u)
    /\ UNCHANGED policyVars
    /\ Commit(p)

(* payload.expected_version. *)
Unchanged(p, u) == req[p].assignment[u] = assignment[u]

ReplaceUserRoles(p, u, R) ==
    /\ Locked(p, {"role:assign"}) /\ account[u].status # "ABSENT"
    /\ Below(req[p].user, u)
    /\ account[u].retired => R = {}
    /\ u \in Superusers => OtherSuperuser(u)
    /\ Unchanged(p, u)
    /\ \A r \in R : Exists(r)
    /\ Assignable(req[p].user, R)
    /\ R # assigned[u] /\ NoEgressOf(u)
    /\ assigned' = [assigned EXCEPT ![u] = R]
    /\ assignment' = [assignment EXCEPT ![u] = @ + 1]
    /\ EndSessions(u, account[u].status)
    /\ UNCHANGED <<role, gone, key, owner, grant>>
    /\ Commit(p)

-----------------------------------------------------------------------------
(* replace_role_grants. *)
ReplaceRoleGrants(p, b, R) ==
    /\ Locked(p, {"knowledge:grant"})
    /\ Reaches(req[p].user, b)
    /\ req[p].grant[b].version = grant[b].version
    /\ \A r \in R : Exists(r)
    /\ R # grant[b].roles /\ NoEgressOn(b)
    /\ grant' = [grant EXCEPT ![b] = [roles |-> R, version |-> @.version + 1]]
    /\ UNCHANGED <<sessionVars, role, gone, assigned, assignment, key, owner>>
    /\ Commit(p)

(* _lock_and_refresh_role_admin, _ensure_role_mutable and
   _ensure_role_policy_version. *)
Editing(p, r) ==
    /\ Locked(p, {"role:manage"})
    /\ Exists(r) /\ r \notin SystemRoles
    /\ req[p].user \in Superusers \/ role[r].priority < MaxRolePriority(req[p].user)
    /\ req[p].role[r] # NoRole /\ req[p].role[r].version = role[r].version

(* _ensure_policy_grantable. *)
Grantable(a, P, n) ==
    a \in Superusers \/ (P \subseteq Granted(a) /\ n <= EffectiveLimit(a))

CreateRole(p, r, pr, P, n) ==
    /\ Locked(p, {"role:manage"})
    /\ ~Exists(r) /\ r \notin gone
    /\ req[p].user \in Superusers \/ pr < MaxRolePriority(req[p].user)
    /\ Grantable(req[p].user, P, n)
    /\ role' = [role EXCEPT ![r] = [priority |-> pr, permissions |-> P,
                                    limit |-> n, version |-> 1]]
    /\ UNCHANGED <<sessionVars, gone, assigned, assignment, key, owner, grant>>
    /\ Commit(p)

(* update_role with a new priority. *)
UpdateRole(p, r, pr) ==
    /\ Editing(p, r)
    /\ req[p].user \in Superusers \/ pr < MaxRolePriority(req[p].user)
    /\ pr # role[r].priority
    /\ role' = [role EXCEPT ![r].priority = pr, ![r].version = @ + 1]
    /\ UNCHANGED <<sessionVars, gone, assigned, assignment, key, owner, grant>>
    /\ Commit(p)

Unused(r) ==
    /\ \A u \in Users : r \notin assigned[u]
    /\ \A b \in KBs : r \notin grant[b].roles

DeleteRole(p, r) ==
    /\ Editing(p, r) /\ Unused(r)
    /\ role' = [role EXCEPT ![r] = NoRole]
    /\ gone' = gone \cup {r}
    /\ UNCHANGED <<sessionVars, assigned, assignment, key, owner, grant>>
    /\ Commit(p)

(* replace_permissions. *)
ReplacePermissions(p, r, P) ==
    /\ Editing(p, r)
    /\ P # role[r].permissions /\ Grantable(req[p].user, P, 0)
    /\ NoEgressUnder(r)
    /\ role' = [role EXCEPT ![r].permissions = P, ![r].version = @ + 1]
    /\ UNCHANGED <<sessionVars, gone, assigned, assignment, key, owner, grant>>
    /\ Commit(p)

(* replace_policy. *)
ReplacePolicy(p, r, P, n) ==
    /\ Editing(p, r)
    /\ <<P, n>> # <<role[r].permissions, role[r].limit>>
    /\ Grantable(req[p].user, P, n)
    /\ NoEgressUnder(r)
    /\ role' = [role EXCEPT ![r].permissions = P, ![r].limit = n, ![r].version = @ + 1]
    /\ UNCHANGED <<sessionVars, gone, assigned, assignment, key, owner, grant>>
    /\ Commit(p)

(* replace_limits: no permission changes, so no lease is consulted. *)
ReplaceLimits(p, r, n) ==
    /\ Editing(p, r)
    /\ n # role[r].limit /\ Grantable(req[p].user, {}, n)
    /\ role' = [role EXCEPT ![r].limit = n, ![r].version = @ + 1]
    /\ UNCHANGED <<sessionVars, gone, assigned, assignment, key, owner, grant>>
    /\ Commit(p)

-----------------------------------------------------------------------------
(* create_api_key: the permissions must be public ones the owner holds. *)
CreateKey(p, u, k, P) ==
    /\ Locked(p, {"api-key:manage"})
    /\ u = req[p].user \/ req[p].user \in Superusers
    /\ Active(u)
    /\ P \subseteq PublicPermissions \cap Granted(u)
    /\ NextKey(k)
    /\ key' = [key EXCEPT ![k] = [owner |-> u, family |-> k, scope |-> P,
                                  live |-> TRUE, budget |-> "none"]]
    /\ UNCHANGED <<sessionVars, role, gone, assigned, assignment, owner, grant>>
    /\ Commit(p)

(* _lock_api_key_mutation. *)
Holding(p, k) ==
    /\ Locked(p, {"api-key:manage"})
    /\ LiveKey(k)
    /\ key[k].owner = req[p].user \/ req[p].user \in Superusers

(* The replacement takes over family, scope and the budget policy of the secret
   it replaces. *)
Successor(k, n) ==
    [key EXCEPT ![k].live = FALSE, ![k].budget = "none", ![n] = key[k]]

RotateKey(p, k, n) ==
    /\ Holding(p, k)
    /\ Active(key[k].owner) /\ NoEgressThrough(k)
    /\ NextKey(n)
    /\ key' = Successor(k, n)
    /\ UNCHANGED <<sessionVars, role, gone, assigned, assignment, owner, grant>>
    /\ Commit(p)

RevokeKey(p, k) ==
    /\ Holding(p, k) /\ NoEgressThrough(k)
    /\ key' = [key EXCEPT ![k].live = FALSE]
    /\ UNCHANGED <<sessionVars, role, gone, assigned, assignment, owner, grant>>
    /\ Commit(p)

(* seed_database, run again at a start of the service: it takes the same locks
   and gives its administrator the system role back. *)
Bootstrap(u, r) ==
    /\ \A p \in Requests : Kind(p) # "ordinary"
    /\ u \in Superusers /\ Active(u)
    /\ r \in SystemRoles \ assigned[u]
    /\ assigned' = [assigned EXCEPT ![u] = @ \cup {r}]
    /\ assignment' = [assignment EXCEPT ![u] = @ + 1]
    /\ EndSessions(u, "ACTIVE")
    /\ UNCHANGED <<role, gone, key, owner, grant, lease, req, budget>>

-----------------------------------------------------------------------------
Mutate(p) ==
    \/ \E u \in Users :
        \/ \E R \in RoleSets : CreateUser(p, u, R) \/ ReplaceUserRoles(p, u, R)
        \/ \E s \in Status \ {"ABSENT"} : UpdateUser(p, u, s)
        \/ \E h \in Users \cup {NoOwner} : RetireUser(p, u, h)
        \/ ChangePassword(p, u)
        \/ \E k \in Keys, P \in SUBSET PublicPermissions : CreateKey(p, u, k, P)
    \/ \E r \in Roles :
        \/ \E pr \in Priorities : UpdateRole(p, r, pr)
        \/ DeleteRole(p, r)
        \/ \E P \in Policies : ReplacePermissions(p, r, P)
        \/ \E n \in 0..MaxLimit : ReplaceLimits(p, r, n)
        \/ \E P \in Policies, n \in 0..MaxLimit :
              \/ ReplacePolicy(p, r, P, n)
              \/ \E pr \in Priorities : CreateRole(p, r, pr, P, n)
    \/ \E b \in KBs, R \in RoleSets : ReplaceRoleGrants(p, b, R)
    \/ \E k \in Keys : RevokeKey(p, k) \/ \E n \in Keys : RotateKey(p, k, n)

Use(p) ==
    \/ \E u \in Callers, k \in Keys \cup {NoKey} : Enter(p, u, k)
    \/ \E b \in KBs : CreateKB(p, b) \/ Chat(p, b)
    \/ \E k \in Keys : CreateBudget(p, k)
    \/ Leave(p)

(* login, refresh, logout: no RBAC lock, within the tokens of the budget. *)
Authenticate ==
    /\ budget[2] > 0 /\ SessionStep
    /\ \A u \in Users \ Visitors : login'[u] = NoLogin
    /\ \A t \in Tokens : t > budget[2] => token'[t] = NoToken
    /\ UNCHANGED <<policyVars, lease, req, budget>>

AccountInit ==
    /\ account = [u \in Users |->
            [status |-> IF u \in FirstActive THEN "ACTIVE" ELSE "ABSENT",
             retired |-> FALSE, version |-> 0, password |-> 0]]
    /\ token = [t \in Tokens |-> NoToken]
    /\ login = [u \in Users |-> NoLogin]
    /\ presented = [t \in Tokens |-> 0] /\ reuses = [t \in Tokens |-> 0]
    /\ role = FirstRoles /\ gone = {}
    /\ assigned = FirstAssigned /\ assignment = [u \in Users |-> IF u \in FirstActive THEN 1 ELSE 0]
    /\ key = FirstKeys
    /\ grant = [b \in KBs |-> [roles |-> {}, version |-> 1]]
    /\ lease = {} /\ req = [p \in Requests |-> Idle]
    /\ budget \in Budgets
    /\ owner \in [KBs -> FirstOwners[budget]]

AccountNext ==
    \/ \E p \in Requests : (\E a \in Users : Begin(p, a)) \/ Mutate(p) \/ Use(p)
    \/ \E l \in lease : ChatEnds(l)
    \/ \E u \in Users, r \in Roles : Bootstrap(u, r)
    \/ Authenticate

AccountSpec == AccountInit /\ [][AccountNext]_accountVars

-----------------------------------------------------------------------------
(* The rows have the shape app/db/models.py gives them. *)
AccountTypeOK ==
    /\ SessionTypeOK
    /\ role \in [Roles -> RoleRow \cup {NoRole}] /\ gone \subseteq Roles
    /\ assigned \in [Users -> SUBSET Roles] /\ assignment \in [Users -> Nat]
    /\ key \in [Keys -> KeyRow \cup {NoKey}]
    /\ owner \in [KBs -> Users \cup {NoOwner}]
    /\ grant \in [KBs -> [roles : SUBSET Roles, version : Nat]]
    /\ lease \subseteq [user : Users, key : Keys \cup {NoKey}, kb : KBs]

(* Whatever administrators do to each other at the same time, one superuser can
   still sign in (_lock_superuser_guard). *)
SuperuserRemains == \E s \in Superusers : Active(s)

(* A retired account holds nothing that works and owns nothing: no role, key,
   knowledge base or session, though requests of it were under way. *)
RetiredInert ==
    \A u \in Users : account[u].retired =>
        /\ account[u].status = "DISABLED" /\ assigned[u] = {}
        /\ \A k \in Keys : LiveKey(k) => key[k].owner # u
        /\ \A b \in KBs : owner[b] # u
        /\ \A t \in Tokens : Issued(t) /\ token[t].user = u => token[t].revoked

(* Every role someone holds or was granted a knowledge base exists
   (delete_role under the foreign keys). *)
RolesExist ==
    /\ \A u \in Users : \A r \in assigned[u] : Exists(r)
    /\ \A b \in KBs : \A r \in grant[b].roles : Exists(r)

(* An external call under way stays authorized until it settles: its user is
   active, may chat, reaches the knowledge base and the key it came with has
   not been revoked (deny_if_active_external_llm_egress). *)
LeaseProtects ==
    \A l \in lease :
        /\ Active(l.user) /\ Reaches(l.user, l.kb)
        /\ l.key # NoKey => LiveKey(l.key)
        /\ "chat:query" \in Scope(l.user, l.key)

(* What an ordinary request was allowed at authentication it is still allowed
   when it commits (acquire_authenticated_request_locks). *)
SnapshotCurrent ==
    \A p \in Requests : Kind(p) = "ordinary" =>
        /\ Active(req[p].user)
        /\ req[p].key # NoKey => LiveKey(req[p].key)
        /\ req[p].seen = Scope(req[p].user, req[p].key)

(* One secret of a client lineage works at a time, and a limit that was written
   for a secret while it worked limits the one that works now, however often
   the key was rotated and whatever was written for its dead secrets meanwhile
   (rotate_api_key, create_budget_policy). *)
OneLiveKey ==
    \A k, j \in Keys : LiveKey(k) /\ key[j] # NoKey /\ key[j].family = key[k].family =>
        /\ LiveKey(j) => j = k
        /\ key[j].budget = "limit" => key[k].budget = "limit"

(* What retire_user, delete_role, rotate_api_key and revoke_api_key remove is
   removed with all that hung on it, whatever requests were in between: rows are
   well formed, no retired account or deleted role is left in use, no lineage
   has two working secrets. *)
RemovalComplete == AccountTypeOK /\ RetiredInert /\ RolesExist /\ OneLiveKey

(* What a request or an external call relies on is true for as long as it
   lasts, though revocations run beside it (the shared request locks of
   dependencies.py and the leases of llm_usage.py). *)
AccessCurrent == LeaseProtects /\ SnapshotCurrent

(* The request whose mutation a step commits. *)
Commits(p) == Kind(p) = "mutation" /\ req'[p] = Idle

(* No administrator other than a superuser gives anyone, by assigning roles or
   by editing the roles they hold, a permission, a limit or a rank that is not
   below its own at that moment. *)
NoEscalation ==
    [][\A p \in Requests : Commits(p) /\ req[p].user \notin Superusers =>
        LET a == req[p].user
        IN  \A u \in Users :
              /\ Granted(u)' \subseteq Granted(u) \cup Granted(a)
              /\ MaxRolePriority(u)' > MaxRolePriority(u)
                    => MaxRolePriority(u)' < MaxRolePriority(a)
              /\ EffectiveLimit(u)' > EffectiveLimit(u)
                    => EffectiveLimit(u)' <= EffectiveLimit(a)]_accountVars

(* Roles and assignments are only replaced by an editor who was shown exactly
   what it replaces (expected_version). *)
NoLostUpdate ==
    [][\A p \in Requests : Commits(p) =>
        /\ \A u \in Users : assigned'[u] # assigned[u] /\ ~account'[u].retired
              /\ account[u].status # "ABSENT" => req[p].assigned[u] = assigned[u]
        /\ \A r \in Roles : role'[r] # role[r] /\ Exists(r)
              => req[p].role[r] = role[r]
        /\ \A b \in KBs : grant'[b] # grant[b] => req[p].grant[b] = grant[b]]_accountVars

(* A user's own password is only replaced on the proof of the password in
   force, not of one that was replaced meanwhile; nobody but a superuser
   replaces another's, and a retired account never changes again. *)
PasswordProof ==
    [][\A u \in Users : account'[u].password # account[u].password =>
        /\ ~account[u].retired
        /\ \E p \in Requests : Commits(p) /\
              \/ req[p].user = u /\ req[p].password = account[u].password
              \/ req[p].user # u /\ req[p].user \in Superusers]_accountVars

(* No handler of users.py, roles.py or knowledge_bases.py commits a mutation on
   what was true only before it had the exclusive RBAC lock: not the authority
   of its actor, not the version it edits, not the password it was shown. *)
MutationsSound == NoEscalation /\ NoLostUpdate /\ PasswordProof
==============================================================================
