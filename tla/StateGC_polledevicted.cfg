SPECIFICATION Spec
CONSTANTS
    Handlers = {h1}
    Sessions = {s1}
    Kernels = {k1}
    Interval = 2
    MaxAge = 2
    None = None
PROPERTY InUseBindingKept
