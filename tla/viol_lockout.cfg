\* A gateway that relies on its passkeys, and the settings page that deletes them.
SPECIFICATION Spec
CONSTANTS
    Request = {r1}
    UserId = {1}
    Passkey = {c1}
    MaxCount = 1
    alice = alice
    bob = bob
    Identity = {alice, bob}
    EmptyPattern = EmptyPattern
    AttributesOf <- MCAttributesOf
    Deployment <- MCDeployment
INVARIANT
    NeverLockedOut
CHECK_DEADLOCK FALSE
