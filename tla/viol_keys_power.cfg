SPECIFICATION Spec
CONSTANTS
    Alg = {RS256}
    TTL = {1}
    Skew = 1
    Interval = 2
    LegacyAlg = {}
    NoManifest = none
    PowerLoss = TRUE
    MaxDelay = 1
    MaxTime = 6
    MaxKeys = 4
INVARIANT ManifestComplete
