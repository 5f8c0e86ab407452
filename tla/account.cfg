\* Two concurrent requests against one account, its passkeys and a restart.
SPECIFICATION Spec
CONSTANTS
    Request = {r1, r2}
    UserId = {1, 2}
    Passkey = {c1, c2}
    MaxCount = 1
    alice = alice
    bob = bob
    Identity = {alice, bob}
    EmptyPattern = EmptyPattern
    AttributesOf <- MCAttributesOf
    Deployment <- MCDeployment
SYMMETRY Symmetry
INVARIANTS
    DeletedPasskeysStayDeleted
    SignCountIsKept
    OnlyTheAllowedEnter
PROPERTIES
    AccountIsForLife
    PasswordLoginsWereAllowed
    LockedOutByOwnHandOnly
CHECK_DEADLOCK FALSE
