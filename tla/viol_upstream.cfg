\* A stdio upstream that ends with status 0.
SPECIFICATION FairSpec
CONSTANTS
    Deployment <- MCDeployment
    MaxActive = 0
PROPERTY
    UpstreamExitEndsGateway
CHECK_DEADLOCK FALSE
