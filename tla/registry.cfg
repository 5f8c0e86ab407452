\* Two token requests, a cap of one, and expiries that fall due during the requests.
SPECIFICATION FairSpec
CONSTANTS
    Handler = {h1, h2}
    Backend = {"kvs", "sql"}
    MaxClients = 1
    TTL = {0, 1, 2}
    MaxTime = 3
    MaxId = 4
INVARIANTS
    TypeOK
    RevokedStayGone
    OvershootBounded
    LeaseKept
PROPERTY
    ExpiredAreReclaimed
CHECK_DEADLOCK FALSE
