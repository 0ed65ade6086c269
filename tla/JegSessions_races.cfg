SPECIFICATION Spec
CONSTANTS
    s1 = s1
    s2 = s2
    k1 = k1
    k2 = k2
    r1 = r1
    r2 = r2
    jegSpec = jegSpec
    localSpec = localSpec
    p1 = p1
    NoPath = NoPath
    None = None
    Requests = {r1, r2}
    Sessions = {s1}
    Kernels = {k1}
    Specs = {jegSpec, localSpec}
    SpecOf <- MCSpecOf
    LocalSpecs = {localSpec}
    Paths = {NoPath, p1}
    Calls <- RacingCalls
    Faults = {"jeg", "gc", "restart"}
INVARIANTS BoundToLaunched PollShowsNoDeadKernel
SYMMETRY Interchangeable
