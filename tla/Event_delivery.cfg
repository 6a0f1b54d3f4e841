\* Two handlers of one event id, one of them a lambda that may hang; a third
\* event fills the queue behind two calls that hang.
SPECIFICATION FairSpec
CONSTANTS
    Handlers = {"memory", "election"}
    Id <- MCId
    Priority <- MCPriority
    Lambdas = {"election"}
    Hanging = {"election"}
    Threads <- MCThreadsFew
    Capacity = 1
    MaxEvents = 3
INVARIANTS
    TypeOK
    TakenInOrder
PROPERTIES
    Delivered
CHECK_DEADLOCK FALSE
