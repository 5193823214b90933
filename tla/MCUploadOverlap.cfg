SPECIFICATION UploadSpec
CONSTANTS
    Uploads = {"s"}
    Multipart = {}
    Requests = {r1, r2}
    Workers = {w1}
    OneFinalizer = FALSE
    MaxCalls = 3
    MaxFaults = 0
    UploadKeys = {"storage", "uploads"}
    OtherKeys = {}
    DailyKeys = {"uploads"}
    Unlimited = Unlimited
    Limit <- MCLimit
    Amount <- MCAmount
    Direct = {}
    MaxDay = 0
CHECK_DEADLOCK FALSE
INVARIANT DuplicateCompletionHarmless
