SPECIFICATION FairSpec
CONSTANTS
    Requests = {r1, r2}
    Upstreams = {a1, a2}
    TTL = 2
    ResolveMax = 1
    MaxMoves = 3
    MaxHold = 2
    None = None
INVARIANTS TypeOK StalenessBound
PROPERTY CacheSettles
