SPECIFICATION Spec
CONSTANTS
    p = p
    q = q
    f = f
    g = g
    m = m
    me = me
    ana = ana
    raj = raj
    Plain = Plain
    None = None
    Me = me
    Procs = {p}
    Files = {f, g}
    Manifests = {m}
    People = {me, ana, raj}
    Global = {raj}
    Backends = {"file", "gpg"}
    FaultKinds = {"io", "git", "crash"}
    UserOverlaps = TRUE
    MaxKeys = 2
    MaxEdits = 1
    MaxFaults = 2
INVARIANT TypeOK
INVARIANT Recoverable
INVARIANT Revoked
INVARIANT NoSilentGrant
PROPERTY GrantsShow
SYMMETRY FileSymmetry
