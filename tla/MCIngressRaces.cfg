\* Two requests in flight at once, one of them with every trouble: safety.
SPECIFICATION IngressSafety
CONSTANTS
    Requests = {r1, r2}
    Troubled = {r1}
    MaxActive = 2
    MaxFaults = 1
INVARIANTS
    LatchSound
    WorkAccounted
    AnswerSound
\* A torn sentinel keeps the service down for good.
CHECK_DEADLOCK FALSE
