\* Events in order and no failed collection: every lost node comes back.
SPECIFICATION FairSpec
CONSTANTS
    FaultKinds = {"down", "panic", "bmc", "ledger", "demote"}
    MaxFaults = 2
    Threshold = 2
    Races = {}
INVARIANT SmoothingIsDriven
INVARIANT FaultIsCounted
PROPERTY ReachableNodeWorks
CHECK_DEADLOCK FALSE
