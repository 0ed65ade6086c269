SPECIFICATION Spec
CONSTANTS
    Handlers = {h1, h2}
    Sessions = {s1}
    Kernels = {k1}
    Interval = 2
    MaxAge = 2
    None = None
INVARIANT NoImmortalKernel
SYMMETRY Interchangeable
