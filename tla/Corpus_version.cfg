SPECIFICATION Spec
CONSTANTS
    Site = {"host", "ci"}
    Evidence <- Collections
    None = None
    LastDay = 2
    MaxRuns = 3
    MaxLookups = 2
INVARIANT SameVersionSameAnswer
CONSTRAINT LookupsAlone
CHECK_DEADLOCK FALSE
