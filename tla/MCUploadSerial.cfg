SPECIFICATION FairUploadSpec
CONSTANTS
    Uploads = {"s", "m"}
    Multipart = {"m"}
    Requests = {r1, r2}
    Workers = {w1}
    OneFinalizer = TRUE
    MaxCalls = 3
    MaxFaults = 1
    UploadKeys = {"storage", "uploads"}
    OtherKeys = {}
    DailyKeys = {"uploads"}
    Unlimited = Unlimited
    Limit <- MCLimit
    Amount <- MCAmount
    Direct = {}
    MaxDay = 0
CHECK_DEADLOCK FALSE
INVARIANTS
    ObjectsFollowSessions
    DenialHoldsUnlessFault
PROPERTIES
    HeldSettles
