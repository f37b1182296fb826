SPECIFICATION MCSpec
CONSTANTS
    Traces <- MCTraces
    Builder <- MCBuilder
    KernelLogger <- MCKernelLogger
    MaxNameLen = 1024
    Tool = Tool
    NoSession = NoSession
    k1 = k1
    k2 = k2
    p1 = p1
    u1 = u1
    bad = bad
INVARIANT ContextOutlivesThread FailedStartAllOrNothing StoppedIsGone RundownRestores
PROPERTY SessionProgress
