CONSTANTS
    ann = ann
    cyd = cyd
    r1 = r1
    r2 = r2
    Pulls <- MCPulls
    Reviews <- MCReviews
    PullOf <- MCPullOf
    NumberOf <- MCNumberOf
    AuthorOf <- MCAuthorOf
    PrPage = 1
    RestPage = 2
    ReviewPage = 1
    MaxClock = 2
    MaxUpsets = 1
    Known <- MCKnown
SPECIFICATION Spec
INVARIANTS
    TypeOK
    WatermarkCovers
    RollupsFollow
PROPERTIES
    CatchesUp
CHECK_DEADLOCK FALSE
