SPECIFICATION Spec
CONSTANTS
    Token = {t1}
    Bootstrap = Bootstrap
    Call = {k1, k2}
    Limits = {0}
    Null = Null
    DefaultPerMinute = 1
    DefaultPerDay = 1
    RetentionDays = 1
    LastDay = 2
    LastMinute = 1
    CronMinute = 1
INVARIANTS TypeOK MinuteQuota DayQuota DayRowTruthful RefusalsReported
PROPERTY QuotasAreKept
SYMMETRY Symmetric
CHECK_DEADLOCK FALSE
