\* A cluster boots, nothing is connected, every node is restoring; one node may
\* crash at any moment and come back.
SPECIFICATION FairSpec
CONSTANTS
    Nodes = {1, 2, 3}
    Candidates = {2, 3}
    HbLost = 3
    ElectionWait = TRUE
    ColdStart = TRUE
    FaultKinds = {"crash"}
    MaxFaults = 1
    MaxTurn = 8
PROPERTIES
    PromotionJustified
    Converges
