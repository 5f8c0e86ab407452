\* SQLite's sweep deletes a registration that was extended after it was listed.
SPECIFICATION Spec
CONSTANTS
    Handler = {h1, h2}
    Backend = {"sql"}
    MaxClients = 1
    TTL = {1, 2}
    MaxTime = 3
    MaxId = 4
PROPERTY SweepSparesTheActive
CHECK_DEADLOCK FALSE
