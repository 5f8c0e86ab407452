SPECIFICATION FairSpec
CONSTANTS
    Alg = {RS256}
    TTL = {1}
    Skew = 0
    Interval = 2
    LegacyAlg = {}
    NoManifest = none
    PowerLoss = FALSE
    MaxDelay = 1
    MaxTime = 5
    MaxKeys = 4
INVARIANT ManifestComplete
PROPERTIES RetiredKeysLeave
