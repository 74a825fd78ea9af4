SPECIFICATION FairSpec
CONSTANTS
    a = a
    b = b
    shared = shared
    p1 = p1
    p2 = p2
    None = None
    Unreadable = Unreadable
    Alien = Alien
    GitSecrets = {a}
    Secrets = {a}
    Payloads = {p1, p2}
    UserSpecs <- OneObjectSpecs
    FaultKinds = {"gpg", "api", "crash"}
    MaxEdits = 2
    MaxFaults = 2
    MaxClock = 1
    MaxVersion = 3
PROPERTY EventuallySynced
CHECK_DEADLOCK FALSE
