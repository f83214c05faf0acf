CONSTANTS
    n1 = n1
    n2 = n2
    NoNode = NoNode
    Nodes <- MCNodes
    Forks <- MCForks
    Initially <- MCInitially
    Filters <- MCFilters
    MaxName = 2
    Concurrency = 1
    MaxEvents = 2
SPECIFICATION Spec
INVARIANTS
    TypeOK
    OnlyReuseConfuses
PROPERTIES
    FiltersHold
    KeepsUp
CHECK_DEADLOCK FALSE
