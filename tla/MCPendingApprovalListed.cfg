CONSTANTS
    p1 = p1
    p2 = p2
    p3 = p3
    Approver <- MCApprover
    Spender <- MCSpender
    Listed <- MCSpender
    Kinds <- MCKinds
    Required = 1
    MaxCalls = 1
    None = None
SPECIFICATION Spec
INVARIANT DeciderActs
CHECK_DEADLOCK FALSE
