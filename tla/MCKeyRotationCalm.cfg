SPECIFICATION Spec
CONSTANTS
    p = p
    q = q
    f = f
    g = g
    m = m
    me = me
    ana = ana
    raj = raj
    Plain = Plain
    None = None
    Me = me
    Procs = {p}
    Files = {f, g}
    Manifests = {}
    People = {me, ana}
    Global = {}
    Backends = {"file", "env", "gpg"}
    FaultKinds = {}
    UserOverlaps = FALSE
    MaxKeys = 3
    MaxEdits = 3
    MaxFaults = 0
INVARIANT StagedOpens
