SPECIFICATION Spec
CONSTANTS
    Clients <- MCClients
    Allowed <- MCAllowed
    NoClient = NoClient
    Another = Another
    QueueSize = 1
    MaxMessages = 1
    MaxTraffic = 1
    c1 = c1
    c2 = c2
INVARIANT CancelledConnectReaped
