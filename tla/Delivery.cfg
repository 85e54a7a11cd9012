SPECIFICATION FairSpec
CONSTANTS
    Writer = {w1}
    Resender = {s1}
    Report <- Reports
    Absent = Absent
    MaxFaults = 1
INVARIANTS MailIsOnePair OneMailPerId SentMeansMailed
PROPERTY RunEnds
CHECK_DEADLOCK FALSE
