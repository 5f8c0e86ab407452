\* A token request brings back a registration that was replaced under the cap.
SPECIFICATION Spec
CONSTANTS
    Handler = {h1, h2}
    Backend = {"kvs"}
    MaxClients = 1
    TTL = {1, 2}
    MaxTime = 3
    MaxId = 4
INVARIANT CapIsHard
CHECK_DEADLOCK FALSE
