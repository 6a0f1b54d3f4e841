\* Stop of a framework whose workers have nothing to do, with one event at most.
SPECIFICATION FairSpec
CONSTANTS
    Handlers = {"memory", "election"}
    Id <- MCId
    Priority <- MCPriority
    Lambdas = {"election"}
    Hanging = {"election"}
    Threads <- MCThreads
    Capacity = 1
    MaxEvents = 1
PROPERTIES
    StopEnds
CHECK_DEADLOCK FALSE
