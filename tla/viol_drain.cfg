\* A signal while a request is in flight.
SPECIFICATION FairSpec
CONSTANTS
    Deployment <- MCDeployment
    MaxActive = 1
INVARIANT
    RequestsAreDrained
CHECK_DEADLOCK FALSE
