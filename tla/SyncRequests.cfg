SPECIFICATION FairRequestsSpec
CONSTANTS
    OrgIds = {o1, o2}
    Requests = {q1, q2, q3}
    MaxJobCrashes = 2
INVARIANTS
    RequestsTypeOK
    NoSilentLoss
PROPERTIES
    EveryRequestHasItsTurn
\* The requests run out.
CHECK_DEADLOCK FALSE
