SPECIFICATION FairSpec
CONSTANTS
    Handlers = {h1}
    Sessions = {s1, s2}
    Kernels = {k1}
    Interval = 2
    MaxAge = 2
    None = None
INVARIANTS TypeOK EvictionDeadline EvictsOldOnly NoImmortalKernel
PROPERTY Drains
