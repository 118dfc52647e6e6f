CONSTANTS
    d1 = d1
    d2 = d2
    a = a
    b = b
    c = c
    pw1 = pw1
    pw2 = pw2
    Device = {d1, d2}
    V1Key = {a}
    V2Key = {b, c}
    Old = old
    New <- MCNew
    Foreign = foreign
    Absent = absent
    Unreadable = {c}
    Fits <- MCFits
    PageLimit = 1
    MaxRetries = 2
    MaxCalls = 2
    Nobody = nobody
SPECIFICATION FairSpec
INVARIANTS
    KeysFollowLogin
    DoneMeansChanged
PROPERTY ForeignKeysUntouched CallsAdvance EveryCallEnds
CHECK_DEADLOCK FALSE
