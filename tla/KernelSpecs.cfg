SPECIFICATION Spec
CONSTANTS
    ka = ka
    kb = kb
    a = a
    b = b
    None = None
    Requests = {r1}
    Specs = {a, b}
    Kernels = {ka, kb}
    SpecOf <- MCSpecOf
    Policies <- MCPolicies
    Faults = {"jeg", "container", "garbled", "workspace"}
INVARIANTS TypeOK DefaultShown RunningShown ShownBilled PanelOffersLaunchable
