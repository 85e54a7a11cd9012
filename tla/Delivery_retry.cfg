SPECIFICATION DeliverySpec
CONSTANTS
    Writer = {w1, w2}
    Resender = {}
    Report <- Reports
    Absent = Absent
    MaxFaults = 0
INVARIANT RetriesMailOnce
CONSTRAINT OneAfterTheOther
CHECK_DEADLOCK FALSE
