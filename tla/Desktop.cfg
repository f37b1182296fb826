SPECIFICATION MCSpec
CONSTANTS
    Callers = {c1, c2}
    Waiters = {t1, t2}
    Waits = {m, a}
    ManualReset = {m}
    Groups <- MCGroups
    MaxWaitObjects = 2
    MaxSignals = 2
    Kinds = {"ctrl_c", "close"}
    None = None
    c1 = c1
    c2 = c2
    t1 = t1
    t2 = t2
    m = m
    a = a
    MaxDepth = 6
    MaxQueue = 2
    MaxPosts = 3
    Tips = {tip1, tip2}
    Icons = {i1, i2}
    NoTip = NoTip
    Callback = TRUE
    OwnsWindow = TRUE
    MaxRestarts = 3
    MaxOps = 4
    Processes = {q1, q2, q3}
    Texts <- MCTexts
    MaxTargets = 3
    Dpis = {96, 144}
    Sizes = {1, 2}
    Rows = {r1, r2}
    Room = 3
    Windows <- MCWindows
    NoOne = NoOne
INVARIANT SignalsHandled HandlerLifetime TrayConsistent WidgetsConsistent
PROPERTY SignalWakes
CHECK_DEADLOCK FALSE
