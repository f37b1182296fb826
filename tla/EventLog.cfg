SPECIFICATION LogSpec
CONSTANTS
    t1 = t1
    t2 = t2
    Threads = {t1, t2}
    Record <- MCRecord
    Programs <- MCPrograms
    BatchSize = 2
    FirstBuffer = 4
    MaxBuffer = 8
    MaxOpens = 3
INVARIANT RecordsFaithful
PROPERTY QueryEnds
CHECK_DEADLOCK FALSE
