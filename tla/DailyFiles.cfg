SPECIFICATION FilesSpec
CONSTANTS
    Cve = {1, 2, 3}
    Worlds <- ThreeCves
    ScoredTtl = 1
    UnscoredTtl = 0
    KevTtl = 0
    EpssTtl = 0
    EpssBatch = 2
    Allowance = 2
    Window = 3
    Budget = 4
    MaxDelay = 3
    LastDay = 2
    MaxRuns = 3
    MaxFailures = 1
    None = None
    Writer = {w1, w2}
    Report = {r1, r2}
    Absent = Absent
    MaxFaults = 2
INVARIANTS
    TypeOK CopiesAreSpare EveryCveAccounted NvdPaced AgeIsTold CataloguesReachAll
PROPERTIES NoFileLost OldPairOrNewPair
SYMMETRY Symmetric
CHECK_DEADLOCK FALSE
