SPECIFICATION Spec
CONSTANTS
    s1 = s1
    s2 = s2
    k1 = k1
    k2 = k2
    r1 = r1
    r2 = r2
    jegSpec = jegSpec
    localSpec = localSpec
    p1 = p1
    NoPath = NoPath
    None = None
    Requests = {r1}
    Sessions = {s1, s2}
    Kernels = {k1, k2}
    Specs = {jegSpec, localSpec}
    SpecOf <- MCSpecOf
    LocalSpecs = {localSpec}
    Paths = {NoPath, p1}
    Calls <- AllCalls
    Faults = {"container", "workspace"}
INVARIANTS TypeOK PollIsView ChangeAsAnswered BindingKeepsPath
PROPERTY BindingSpec
