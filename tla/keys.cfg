SPECIFICATION Spec
CONSTANTS
    Alg = {RS256, ES256}
    TTL = {1}
    Skew = 1
    Interval = 2
    LegacyAlg = {RS256}
    NoManifest = none
    PowerLoss = TRUE
    MaxDelay = 1
    MaxTime = 7
    MaxKeys = 3
INVARIANTS TypeOK OutstandingTokensVerify ConfiguredAlgSigns MemoryMatchesDisk
PROPERTIES ImplementsKeyRing
CHECK_DEADLOCK FALSE
