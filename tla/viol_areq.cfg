SPECIFICATION Spec
CONSTANTS
    Grant = {g1}
    NoGrant = none
    Client = {c1}
    ClientOf <- MCClientOf1
    Dcr = {c1}
    Proc = {p1}
    Backend = "kvs"
    AccessTTL = 2
    RefreshTTL = 3
    CodeTTL = 1
    Skew = 0
    MaxTime = 2
    MaxCodes = 1
    MaxTokens = 1
PROPERTY ExpiredAuthorizeRequestIsAbsent
