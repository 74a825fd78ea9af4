\* Two callers and room for one, two requests at once.
CONSTANTS
    prometheus = prometheus
    curl = curl
    s = s
    t = t
    Callers = {prometheus, curl}
    Slots = {s, t}
    cacheTTL = 2
    reviewTimeout = 1
    maxCacheEntries = 1
SYMMETRY Symmetry
SPECIFICATION Spec
INVARIANTS TypeOK RevokedSoonRefused RefusedForCause CacheIsBounded
