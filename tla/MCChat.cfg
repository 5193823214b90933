SPECIFICATION FairChatSpec
CONSTANTS
    Requests = {r1, r2}
    Bodies = {b1, b2}
    NoRecord = NoRecord
    NoBody = NoBody
    Models = {m1, m2}
    NoPrompt = NoPrompt
    MaxVersion = 2
    MaxCalls = 2
    MaxFaults = 2
SYMMETRY Interchangeable
CHECK_DEADLOCK FALSE
INVARIANTS
    ReplaySound
    EgressSound
PROPERTIES
    OutcomeFinal
    ProcessingSettles
