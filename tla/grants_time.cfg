SPECIFICATION FairSpec
CONSTANTS
    Grant = {g1}
    NoGrant = none
    Client = {c1}
    ClientOf <- MCClientOf1
    Dcr = {}
    Proc = {p1}
    Backend = "sql"
    AccessTTL = 1
    RefreshTTL = 2
    CodeTTL = 1
    Skew = 2
    MaxTime = 5
    MaxCodes = 1
    MaxTokens = 1
PROPERTIES SweepTakesOnlyExpired ExpiredRecordsAreReclaimed
