\* Four nodes, a partition and the merge of its sides, or a hand-over; the
\* standby is a candidate.
SPECIFICATION FairSpec
CONSTANTS
    Nodes = {1, 2, 3, 4}
    Candidates = {1, 2}
    HbLost = 3
    ElectionWait = TRUE
    ColdStart = FALSE
    FaultKinds = {"partition", "switch"}
    MaxFaults = 1
    MaxTurn = 8
PROPERTY Converges
