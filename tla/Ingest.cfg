SPECIFICATION FairSpec
CONSTANTS
    r1 = r1
    r2 = r2
    ann = ann
    bob = bob
    Repos = {r1, r2}
    Idents = {ann, bob}
    Persons = {1, 2, 3, 4}
    Log <- TwoLogs
    Editors = {e1}
    MaxFails = 1
    MaxEdits = 2
    NoPerson = NoPerson
INVARIANTS
    TypeOK
    RollupSound
    CursorCovered
PROPERTIES
    EditsRepair
    AllIngested
\* Everything pushed is ingested and the edits are used up.
CHECK_DEADLOCK FALSE
