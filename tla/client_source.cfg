\* Two requests, three client IDs for a cache of two.
SPECIFICATION FairSpec
CONSTANTS
    Handler <- MCHandler
    Url <- MCUrl
    Page <- MCPage
    Application <- MCApplication
    Redirect <- MCRedirect
    LocalhostSpelling = {"localhost", "LOCALHOST"}
    LoopbackIP = {"127.0.0.1", "127.0.0.2", "::1"}
    h1 = h1
    h2 = h2
    Failure = Failure
    MaxSize = 2
    CacheTTL = 2
    NegativeTTL = 1
    FetchTimeout = 1
    MaxEntries = 2
INVARIANTS
    CacheBounded
    AnswersAreFresh
    ClientsGetWhatTheyDeclare
    RedirectsStayDeclared
PROPERTIES
    EvictionIsLast
    FailuresAreForgotten
CHECK_DEADLOCK FALSE
