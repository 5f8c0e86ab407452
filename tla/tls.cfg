\* Two renewals after the first pair, and handshakes all the while.
SPECIFICATION FairSpec
CONSTANTS
    MaxPair = 3
    MaxClock = 5
INVARIANTS
    UnchangedFilesAreServed
PROPERTY
    RenewedPairIsServed
CHECK_DEADLOCK FALSE
