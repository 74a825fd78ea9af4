SPECIFICATION Spec
CONSTANTS
    db = db
    api = api
    alice = alice
    vault = vault
    safe = safe
    Manifests = {db}
    Fprs = {alice, vault, safe}
    Recovery = {vault, safe}
    Keyring = {vault, safe}
    Lists = {{alice}}
    Wanted = alice
    Overlaps = FALSE
    MaxKeys = 2
    MaxValues = 2
    MaxCommands = 4
    MaxFailures = 0
SYMMETRY RecoverySymmetry
CHECK_DEADLOCK FALSE
INVARIANT TypeOK
INVARIANT EveryRecipientReads
INVARIANT LockedOut
INVARIANT RecoveryStays
INVARIANT AdmittedOpensForRequired
INVARIANT StampIsTrue
