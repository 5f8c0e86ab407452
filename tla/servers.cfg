\* Each kind of upstream, one or two listeners, and one request in flight at each.
SPECIFICATION FairSpec
CONSTANTS
    Deployment <- MCDeployment
    MaxActive = 1
INVARIANTS
    RepoOutlivesListeners
    QuietEndsAreAsked
PROPERTY
    StopsOnceStopping
CHECK_DEADLOCK FALSE
