SPECIFICATION FairSpec
CONSTANTS
    Run = {r1, r2}
    PageSize = 2
    MaxSamples = 3
    LastJob = 4
    MaxFaults = 1
INVARIANTS TypeOK WatermarkCovers
PROPERTY EventuallyExported
CHECK_DEADLOCK FALSE
