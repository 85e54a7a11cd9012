SPECIFICATION Spec
CONSTANTS
    ThreatValues = {t1}
    FeodoValues = {f1}
    EtValues = {e1, e2}
    Says = {x, y}
    FeedHours = 2
    StallHours = 3
    Retention = 3
    MaxEt = 1
    MaxListed = 2
    MaxFaults = 1
    MaxClock = 5
    None = None
INVARIANTS
    TypeOK TablesHoldTheLastAnswers DeadInfrastructureGoes RefreshInTime
PROPERTY EveryWriteShows
CHECK_DEADLOCK FALSE
