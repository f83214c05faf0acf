SPECIFICATION Spec
CONSTANTS
    core = core
    tools = tools
    site = site
    acme = acme
    beta = beta
    None = None
    Never = Never
    Identities = {1, 2, 3}
    Repos = {core, tools, site}
    Orgs = {acme, beta}
    OrgOf <- MCOrgOf
    DaysPerWeek = 3
    GraceDays = 2
    FactPool <- MCFactPool
    MaxFacts = 5
    MaxEdits = 1
    Scopes <- MCScopes
    Bands = 1
    QualityFloor = 2
    DeliveryFloor = 1
    ConsistencyFloor = 1
    SpotlightLimit = 1
INVARIANTS
    NumbersTrace
    PeriodsCompose
    ComposedBlocksCompute
PROPERTIES
    MergesMoveNumbers
\* The facts and the edits run out.
CHECK_DEADLOCK FALSE
