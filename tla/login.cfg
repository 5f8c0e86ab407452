\* Two logins from one address, a lock of three ticks, and clock readings a tick old.
SPECIFICATION Spec
CONSTANTS
    Request = {r1, r2}
    Address = {a}
    Events = 2
    Threshold = 2
    Duration = 3
    Lag = 1
    MaxTime = 6
INVARIANTS
    GuessesAreRationed
    SweepIsInvisible
PROPERTIES
    LockRunsItsTime
    LocksAreEarned
CHECK_DEADLOCK FALSE
