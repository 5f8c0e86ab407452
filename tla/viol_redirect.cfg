\* The port is not the only part of a localhost redirect URI that may differ from a
\* declared one.
SPECIFICATION Spec
CONSTANTS
    Handler <- MCHandler
    Url <- MCUrl
    Page <- MCPage
    Application <- MCApplication
    Redirect <- MCRedirect
    LocalhostSpelling = {"localhost", "LOCALHOST"}
    LoopbackIP = {"127.0.0.1", "127.0.0.2", "::1"}
    h1 = h1
    h2 = h2
    Failure = Failure
    MaxSize = 2
    CacheTTL = 2
    NegativeTTL = 1
    FetchTimeout = 1
    MaxEntries = 2
INVARIANT OnlyThePortMayDiffer
CHECK_DEADLOCK FALSE
