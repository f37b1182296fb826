SPECIFICATION MCSpec
CONSTANTS
    Clients <- MCClients
    Allowed <- MCAllowed
    NoClient = NoClient
    Another = Another
    QueueSize = 1
    MaxMessages = 2
    MaxTraffic = 2
    c1 = c1
    c2 = c2
INVARIANT AllowListHolds IdentityRestored IoBufferOutlivesIo ReadAccounted
PROPERTY ServerProgress
