SPECIFICATION DecodeSpec
CONSTANTS
    Manifest <- MCManifest
    MapsOf <- MCMapsOf
    Records <- MCRecords
    Written <- MCWritten
    Process = "Proc"
    ImageLoad = "Image"
    Registry = "Reg"
    TcpIp = "Tcp"
    Sounds <- MCSounds
    None = None
    Garbage = Garbage
    Stray <- MCStray
    MaxEvents = 3
INVARIANT DecodedFaithfully CacheSound
CHECK_DEADLOCK FALSE
