CONSTANTS
    i1 = i1
    i2 = i2
    i3 = i3
    i4 = i4
    None = None
    Idents <- MCIdents
    NameOf <- MCNameOf
    EmailOf <- MCEmailOf
    LoginOf <- MCLoginOf
    Names <- MCNames
    Emails <- MCEmails
    Handles <- MCHandles
    Full <- MCFull
    NewNames <- MCNewNames
    Squash <- MCSquash
    Similarity <- MCSimilarity
    NoreplyLogin <- MCNoreplyLogin
    Local <- MCLocal
    Excluded <- MCExcluded
    MemberLogins <- MCMemberLogins
    Initially <- MCInitially
    MaxPersons = 5
    MaxEdits = 2
SPECIFICATION Spec
INVARIANTS
    TypeOK
PROPERTIES
    QueueSettles
    AttributionHappens
    DecisionsKept
CHECK_DEADLOCK FALSE
