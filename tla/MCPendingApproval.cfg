CONSTANTS
    p1 = p1
    p2 = p2
    p3 = p3
    Approver <- MCApprover
    Spender <- MCSpender
    Listed = {}
    Kinds <- MCKinds
    Required = 2
    MaxCalls = 3
    None = None
SPECIFICATION FairSpec
INVARIANTS
    OnlyTheDeciderActs
    DeciderActs
    ApprovedHasTransaction
PROPERTY CallsEnd
CHECK_DEADLOCK FALSE
