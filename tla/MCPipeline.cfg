SPECIFICATION FairPipelineSpec
CONSTANTS
    Files = {1, 2}
    Bases = {"kb"}
    NoBase = NoBase
    Base <- MCMixedBase
    Owner <- MCOwner
    Workers = {w1, w2}
    MaxAttempts = 2
    MaxRetries = 1
    MaxFaults = 1
CHECK_DEADLOCK FALSE
INVARIANTS
    JobSound
    PublishedIsClean
    EgressExclusive
    ConsentRespected
PROPERTIES
    WorkSettles
