SPECIFICATION FairSpec
CONSTANTS
    Orgs = {o1}
    Repos = {x1}
    ScheduledJob = {sched}
    ManualJob = {manual}
    CliRuns = {cli}
    Admins = {}
    Concurrency = 1
    MaxCrashes = 1
    CliMayCrash = FALSE
    NoOrg = NoOrg
INVARIANTS
    RunningHasRunner
PROPERTIES
    SyncsRecur
\* Once the org is removed nothing is left to do.
CHECK_DEADLOCK FALSE
