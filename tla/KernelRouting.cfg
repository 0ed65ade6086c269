SPECIFICATION Spec
CONSTANTS
    Requests = {r1, r2}
    g1 = g1
    l1 = l1
    gpu = gpu
    python = python
    Kernels = {g1, l1}
    Specs = {gpu, python}
    SpecOf <- MCSpecOf
    LocalSpecs = {python}
    AllowedSpecs = {gpu}
    Calls <- AllCalls
    Faults = {"jeg", "container", "workspace", "through"}
    None = None
INVARIANTS TypeOK RoutedToOwner ListComplete NothingGoneListed DeletedIsGone
PROPERTY LiveKernelStaysKnown
SYMMETRY Interchangeable
