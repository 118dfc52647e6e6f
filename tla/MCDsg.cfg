CONSTANTS
    user = user
    bitgo = bitgo
    s1 = s1
    s2 = s2
    s3 = s3
    h1 = h1
    h2 = h2
    short = short
    Party <- MCParty
    Hash <- MCHash
    Digest32 <- MCDigest32
    Sid = {s1, s2, s3}
    NoSid = NoSid
    NoHash = NoHash
    NoSession = NoSession
    NoSignature = NoSignature
    MaxSaved = 2
    MaxInits = 2
    Careless = {user}
SPECIFICATION Spec
SYMMETRY Symmetry
PROPERTY ImplementsAgreement
INVARIANTS
    StateMatchesSession
    NoRoundSkipped
    SignatureNeedsBothShares
    NobodyWaitsInVain
CHECK_DEADLOCK FALSE
