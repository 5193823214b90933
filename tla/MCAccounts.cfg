SPECIFICATION AccountSpec
CONSTANTS
    root = root
    deputy = deputy
    manager = manager
    member = member
    newcomer = newcomer
    admin = admin
    lead = lead
    staff = staff
    extra = extra
    Users = {root, deputy, manager, member, newcomer}
    Superusers = {root, deputy}
    FirstActive = {root, deputy, manager, member}
    Roles = {admin, lead, staff, extra}
    SystemRoles = {admin}
    RoleSets <- MCRoleSets
    Permissions <- MCPermissions
    PublicPermissions = {"chat:query"}
    Policies <- MCPolicies
    Priorities = {1, 2}
    MaxPriority = 3
    MaxLimit = 1
    Keys = {1, 2, 3}
    KBs = {kb}
    Requests = {p1, p2}
    Callers = {member}
    Visitors = {member}
    MaxTokens = 3
    NoToken = NoToken
    NoLogin = NoLogin
    NoRole = NoRole
    NoKey = NoKey
    NoOwner = NoOwner
    Idle = Idle
    FirstOwners <- MCFirstOwners
    FirstRoles <- MCFirstRoles
    FirstAssigned <- MCFirstAssigned
    FirstKeys <- MCFirstKeys
    Budgets <- MCBudgets
SYMMETRY MCSymmetry
CHECK_DEADLOCK FALSE
INVARIANTS
    SuperuserRemains
    RemovalComplete
    AccessCurrent
    TokenFamilies
PROPERTIES
    MutationsSound
    LifeSpec
