\* Every disturbance but the BMC, three of them, with threads that overtake each
\* other and faults at the moment of a switch.
SPECIFICATION Spec
CONSTANTS
    FaultKinds = {"down", "panic", "collect", "ledger", "demote"}
    MaxFaults = 3
    Threshold = 2
    Races = {"overtaking", "faultAtSwitch"}
INVARIANT TypeOK
INVARIANT WorkingIsReconciled
INVARIANT SmoothingIsDriven
INVARIANT FaultIsCounted
CHECK_DEADLOCK FALSE
