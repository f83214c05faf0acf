SPECIFICATION Spec
CONSTANTS
    Orgs = {o1}
    Repos = {x1, x2}
    ScheduledJob = {sched}
    ManualJob = {}
    CliRuns = {cli}
    Admins = {a1}
    Concurrency = 1
    MaxCrashes = 1
    CliMayCrash = TRUE
    NoOrg = NoOrg
SYMMETRY RepoSymmetry
INVARIANTS
    TypeOK
    ExclusiveClaim
PROPERTIES
    StopIsFinal
    FatalDegrades
\* Once the org is removed nothing is left to do.
CHECK_DEADLOCK FALSE
