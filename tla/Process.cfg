SPECIFICATION MCSpec
CONSTANTS
    Pids <- MCPids
    NoPid = NoPid
    Protected <- MCProtected
    Reuse = FALSE
    MaxSpawns = 3
    p1 = p1
    p2 = p2
    p3 = p3
    p4 = p4
    MaxProcs = 3
    Codes = {0, 259}
    None = None
    Failed = Failed
    Ambiguous = Ambiguous
    Threads = {t1, t2}
    Letters = 2
    Devices = {d1}
    MaxMounts = 2
    MaxMoves = 1
    NoMap = NoMap
    Supported = {"Eaf", "EafPlus"}
SYMMETRY MCSymmetry
INVARIANT SpawnSound InspectFaithful PlanInForce
PROPERTY TreeKilledExactly AnswerTrue
