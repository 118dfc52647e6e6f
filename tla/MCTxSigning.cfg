CONSTANTS
    local = local
    remote = remote
    remote2 = remote2
    h1 = h1
    h2 = h2
    b1 = b1
    b2 = b2
    Flow = {local, remote, remote2}
    External = {remote, remote2}
    Hash <- MCHash
    BitGoSid <- MCBitGoSid
    NoHash = NoHash
    NoOutput = NoOutput
    NoSession = NoSession
    NoPeer = NoPeer
    MaxAttempts = 1
    MaxFlows = 2
SPECIFICATION FairSpec
PROPERTY EveryFlowEnds FlowsAdvance ImplementsAgreement
INVARIANTS
    SignsWhatItFetched
    TakenUpOnce
    DoneMeansSigned
CHECK_DEADLOCK FALSE
