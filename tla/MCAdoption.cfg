CONSTANTS
    r1 = r1
    r2 = r2
    NoRun = NoRun
    c1 = c1
    c2 = c2
    d1 = d1
    d2 = d2
    NoDrill = NoDrill
    Commands <- MCCommands
    Runs <- MCRuns
    Drills <- MCDrills
    MaxIO = 2
    MaxTrouble = 1
    MaxWrites = 1
SPECIFICATION AdoptionSpec
INVARIANTS
    AttestationSound
    BackupSound
PROPERTY
    EvidenceStays
CONSTRAINT MCConstraint
CHECK_DEADLOCK FALSE
SYMMETRY MCSymmetry
