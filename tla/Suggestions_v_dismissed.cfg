CONSTANTS
    i1 = i1
    i2 = i2
    i3 = i3
    i4 = i4
    None = None
    Idents <- MCIdents
    NameOf <- MCNameOf
    EmailOf <- MCEmailOfChain
    LoginOf <- MCLoginOf
    Names <- MCNames
    Emails <- MCEmails
    Handles <- MCHandles
    Full <- MCFull
    NewNames <- MCNewNames
    Squash <- MCSquash
    Similarity <- MCSimilarity
    NoreplyLogin <- MCNoreplyLogin
    Local <- MCLocal
    Excluded <- MCExcluded
    MemberLogins <- MCMemberLogins
    Initially <- MCInitially
    MaxPersons = 5
    MaxEdits = 1
SPECIFICATION Spec
PROPERTIES
    DismissedNeverMerged
CHECK_DEADLOCK FALSE
