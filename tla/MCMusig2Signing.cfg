CONSTANTS
    f1 = f1
    f2 = f2
    f3 = f3
    t1 = t1
    t2 = t2
    s1 = s1
    s2 = s2
    n1 = n1
    n2 = n2
    Flow <- MCFlow
    External = {f1, f2}
    Tx <- MCTx
    Nonce <- MCNonce
    Signer <- MCSigner
    Route <- MCRoute
    NoNonce = NoNonce
    RetryLimit = 2
    MaxFlows = 2
SPECIFICATION FairSpec
INVARIANTS
    NonceNeverReused
    DoneMatchesItsNonce
    StickySessionFindsPsbt
PROPERTY EveryFlowEnds
CHECK_DEADLOCK FALSE
