SPECIFICATION MCSpec
CONSTANTS
    LastName = 3
    Batch = 2
    MaxRounds = 2
    MaxChanges = 3
    N = 3
    Wanted = {1, 3}
    NotReady = {2}
    Default = 1
    Strings = 1
    Capacities = {0, 1, 4}
    MaxListChanges = 2
    Timeout = 3
    Hints = {0, 25}
    MaxDelay = 1
    MaxRequests = 3
    MaxProgress = 2
    Tables <- MCTables
    Header = 3
    UuidLength = 5
    Profiles <- MCProfiles
    Currents = {0, 1}
    Editions = {"none", "Core"}
    NoSid = NoSid
    s1 = s1
    s2 = s2
    s3 = s3
INVARIANT ScanFaithful BaselineIsReported ListFaithful RestartHonest HostFaithful
PROPERTY ScansEnd
CHECK_DEADLOCK FALSE
