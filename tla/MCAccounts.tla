----------------------------- MODULE MCAccounts -----------------------------
(* Two superusers, a manager, a member and an account still to be created; a
   manager role above a member role and a role still to be created. *)
EXTENDS Accounts, TLC

CONSTANTS root, deputy, manager, member, newcomer, admin, lead, staff, extra

MCPermissions == Needed
MCPolicies == {{"chat:query"}, {"chat:query", "role:manage", "knowledge:create"}}
MCRoleSets == {{}, {staff}, {lead, extra}, {admin}}
MCFirstRoles ==
    [r \in Roles |->
        CASE r = admin -> [priority |-> 3, limit |-> 1, version |-> 1,
                           permissions |-> Needed]
          [] r = lead -> [priority |-> 2, limit |-> 1, version |-> 1,
                          permissions |-> Needed \ {"knowledge:create"}]
          [] r = staff -> [priority |-> 1, limit |-> 0, version |-> 1,
                           permissions |-> {"chat:query", "knowledge:create", "quota:manage"}]
          [] OTHER -> NoRole]
MCFirstAssigned ==
    [u \in Users |->
        CASE u \in Superusers -> {admin} [] u = manager -> {lead} [] u = member -> {staff} [] OTHER -> {}]
MCFirstKeys ==
    [k \in Keys |-> IF k = 1
        THEN [owner |-> member, family |-> 1, scope |-> {"chat:query"},
              live |-> TRUE, budget |-> "limit"]
        ELSE NoKey]
MCBudgets == {<<2, 0, 1>>, <<1, 2, 0>>, <<0, 3, 0>>}
MCFirstOwners ==
    [b \in MCBudgets |-> IF b[3] > 0 THEN {member, NoOwner} ELSE {NoOwner}]
MCSymmetry == Permutations(Requests) \cup Permutations({root, deputy})
==============================================================================
