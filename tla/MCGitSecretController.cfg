SPECIFICATION Spec
CONSTANTS
    a = a
    b = b
    shared = shared
    p1 = p1
    p2 = p2
    None = None
    Unreadable = Unreadable
    Alien = Alien
    GitSecrets = {a}
    Secrets = {a}
    Payloads = {p1, p2}
    UserSpecs <- OneObjectSpecs
    FaultKinds = {"crash"}
    MaxEdits = 3
    MaxFaults = 1
    MaxClock = 0
    MaxVersion = 4
INVARIANT TypeOK
INVARIANT ReadyIsEarned
INVARIANT QuietReadyIsTrue
INVARIANT QuietIsReported
PROPERTY ObservedNeverRegresses
PROPERTY MirrorsSecrets
CHECK_DEADLOCK FALSE
