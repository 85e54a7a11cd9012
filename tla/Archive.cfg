SPECIFICATION Spec
CONSTANTS
    Source = {s1}
    Article = {a1}
    SourceOf <- TheSource
    Run = {r1, r2}
    None = None
    LateLookback = 2
    HealthLookback = 3
    LastDay = 3
    MaxRuns = 4
    MaxLost = 1
INVARIANTS TypeOK CollectedOnce NoneOverlooked OutageMailed
SYMMETRY Symmetric
CHECK_DEADLOCK FALSE
