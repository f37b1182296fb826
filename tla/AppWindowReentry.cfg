SPECIFICATION AppSpec
CONSTANTS
    MaxDepth = 6
    MaxQueue = 1
    MaxPosts = 2
INVARIANT HandlerOutlivesItsCalls
CHECK_DEADLOCK FALSE
