SPECIFICATION Spec
CONSTANTS
    Alg = {RS256}
    TTL = {1, 3}
    Skew = 0
    Interval = 2
    LegacyAlg = {}
    NoManifest = none
    PowerLoss = FALSE
    MaxDelay = 0
    MaxTime = 6
    MaxKeys = 4
INVARIANT OutstandingTokensVerify
