CONSTANTS
    user = user
    backup = backup
    bitgo = bitgo
    h1 = h1
    h2 = h2
    s1 = s1
    s2 = s2
    s3 = s3
    Party <- MCParty
    Hash <- MCHash
    Sid <- MCSid
    NoSid = NoSid
    NoHash = NoHash
    NoParty = NoParty
    NoSession = NoSession
    NoSignature = NoSignature
    MaxSaved = 2
    Careless = {user}
SPECIFICATION Spec
SYMMETRY Symmetry
INVARIANT SignatureOnlyInComplete
CHECK_DEADLOCK FALSE
