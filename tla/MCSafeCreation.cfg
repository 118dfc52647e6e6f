CONSTANTS
    secp256k1Multisig = secp256k1Multisig
    ecdsaMpc = ecdsaMpc
    Slot <- MCSlot
    Rounds <- MCRounds
    Other = Other
    NoKeygen = NoKeygen
SPECIFICATION FairSpec
INVARIANTS
    WholeTriplets
    FailedSafeIsAbandoned
PROPERTY ImplementsPromise GenerateSafeEnds
CHECK_DEADLOCK FALSE
