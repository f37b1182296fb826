SPECIFICATION FairSpec
CONSTANTS
    Streams <- MCBoth
    Capacity = 2
    Pids <- MCPids
    Opcodes <- MCOpcodes
    ProcessFilter <- MCFilter
    OpcodeDrops <- MCDrops
    MaxEvents = 4
INVARIANT DroppedExact ProcessedExact StopQuiesces
PROPERTY ChannelsAreLossyQueues TraceEnds
