SPECIFICATION Spec
CONSTANTS
    Site = {"host", "ci"}
    Evidence <- TwoCollections
    None = None
    LastDay = 4
    MaxRuns = 4
    MaxLookups = 1
INVARIANTS TypeOK QuietRunStored MissedDaysWarned ReportedDaysExact
PROPERTY GuardKeepsDay
CONSTRAINT TwoSlotsOrHostAlone
CHECK_DEADLOCK FALSE
