SPECIFICATION UploadSpec
CONSTANTS
    Uploads = {"s", "m"}
    Multipart = {"m"}
    Requests = {r1, r2}
    Workers = {w1}
    OneFinalizer = FALSE
    MaxCalls = 3
    MaxFaults = 1
    UploadKeys = {"storage", "uploads"}
    OtherKeys = {}
    DailyKeys = {"uploads"}
    Unlimited = Unlimited
    Limit <- MCLimit
    Amount <- MCAmount
    Direct = {1}
    MaxDay = 1
CHECK_DEADLOCK FALSE
SYMMETRY Symmetry
INVARIANTS
    UploadConsistent
    CapabilityRevoked
    QuotaSound
PROPERTIES
    NeverResurrected
    QuotaSpec
