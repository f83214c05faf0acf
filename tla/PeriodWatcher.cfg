SPECIFICATION WatcherSpec
CONSTANTS
    short = short
    long = long
    Schedules = {short, long}
    Length <- TwoLengths
    FirstDay = 6
    LastDay = 9
    MaxTroubles = 2
    NoSlot = NoSlot
INVARIANTS
    WatcherTypeOK
    OncePerPeriod
    DoneIsArchived
    EveryPeriodReported
\* The days run out.
CHECK_DEADLOCK FALSE
