\* One fault of any kind but a partition, at any moment; node 1 is no candidate.
\* Partitions are in Election_partition.cfg: together with links that fail at
\* any moment they give a million states.
SPECIFICATION FairSpec
CONSTANTS
    Nodes = {1, 2, 3}
    Candidates = {2, 3}
    HbLost = 3
    ElectionWait = TRUE
    ColdStart = FALSE
    FaultKinds = {"switch", "slow", "timeout", "link", "crash", "early"}
    MaxFaults = 1
    MaxTurn = 8
INVARIANTS
    TypeOK
    OnlyCandidatesLead
    LeaderIffMaster
    EventsMatchPreNodes
PROPERTIES
    DownsPaired
    Converges
