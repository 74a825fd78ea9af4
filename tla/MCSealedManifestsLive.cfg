SPECIFICATION FairSpec
CONSTANTS
    db = db
    api = api
    alice = alice
    vault = vault
    safe = safe
    Manifests = {db, api}
    Fprs = {alice, vault, safe}
    Recovery = {vault, safe}
    Keyring = {vault, safe}
    Lists = {{alice}}
    Wanted = alice
    Overlaps = TRUE
    MaxKeys = 2
    MaxValues = 2
    MaxCommands = 2
    MaxFailures = 1
CHECK_DEADLOCK FALSE
PROPERTY RetryConverges
