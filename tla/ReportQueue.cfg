SPECIFICATION FairSpec
CONSTANTS
    Reports = {1, 2, 3}
    Slots = {s1}
    CliRuns = {c1}
    Mailers = {m1}
    MaxStamp = 1
    MaxCrashes = 1
    NoReport = NoReport
    NoPath = NoPath
INVARIANTS
    TypeOK
    RowsTellTheTruth
PROPERTIES
    KeepsLifecycle
    SettlesRequests
\* The ids run out: nothing is left to do.
CHECK_DEADLOCK FALSE
