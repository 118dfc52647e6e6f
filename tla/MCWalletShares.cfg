CONSTANTS
    s1 = s1
    s2 = s2
    s3 = s3
    s4 = s4
    s5 = s5
    a1 = a1
    u1 = u1
    Share <- MCShare
    Override <- MCOverride
    Keyless <- MCKeyless
    Offered <- MCOffered
    Ids <- MCIds
    AcceptCall <- MCAccept
    UpdateCall <- MCUpdate
    NoCall = NoCall
    Size <- MCSize
    Envelope = 1
    MaxPayload = 4
SPECIFICATION FairSpec
INVARIANTS
    EntriesKept
    ReportsItsOwn
    OverridesReshared
PROPERTIES CallsEnd CallsComeCloser
CHECK_DEADLOCK FALSE
