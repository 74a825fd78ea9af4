SPECIFICATION Spec
CONSTANTS
    a = a
    b = b
    shared = shared
    p1 = p1
    p2 = p2
    None = None
    Unreadable = Unreadable
    Alien = Alien
    GitSecrets = {a, b}
    Secrets = {shared}
    Payloads = {p1}
    UserSpecs <- SharedTargetSpecs
    FaultKinds = {"api", "crash"}
    MaxEdits = 3
    MaxFaults = 1
    MaxClock = 0
    MaxVersion = 3
INVARIANT QuietOwnedIsSynced
PROPERTY NoTheft
PROPERTY GuardedSecretIsLeftAlone
SYMMETRY Symmetry
CHECK_DEADLOCK FALSE
