SPECIFICATION Spec
CONSTANTS
    ann = ann
    bob = bob
    first = first
    second = second
    Off = Off
    Pages = {"dashboard"}
    Subjects = {ann, bob}
    Reports <- MCReports
    Models = {m1}
    Briefs = {"", "formal"}
    Requests <- MCRequests
    AiSectionCap = 2
    MaxBegun = 2
    MaxChanges = 1
    MaxFailures = 1
INVARIANTS
    CacheSound
PROPERTIES
    AlwaysRenders
\* Nothing is asked for any more.
CHECK_DEADLOCK FALSE
