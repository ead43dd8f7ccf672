SPECIFICATION FairSpec
CONSTANTS
    Threads = {t1}
    Dispatcher = d
    Alarms = {a1, a2}
    NoAlarm = none
    Periods = {1, 2}
    MaxTime = 3
    MaxExpired = 2
INVARIANTS
    CancelIsFinal
    ListIsSchedule
    HeadIsCovered
    PeriodsDoNotDrift
PROPERTIES
    DueIsDispatched
    CancelReturnsAtLast
CHECK_DEADLOCK FALSE
