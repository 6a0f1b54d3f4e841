\* Two borrow requests for a VM with or without borrowed memory, two clear
\* requests or panic notices, two retries, and two different failures.
SPECIFICATION FairSpec
CONSTANTS
    Borrows = {1, 2}
    MaxCalls = 2
    MaxRetry = 2
    FaultKinds = {"refuse", "disable", "track", "nonuma", "create", "delete",
                  "answer", "abort", "store", "query", "crash"}
    MaxFaults = 2
    Races = {}
    None = none
INVARIANT TypeOK
INVARIANT BorrowedIsRecorded
INVARIANT RestIsRestored
PROPERTY EventuallyCleared
CHECK_DEADLOCK FALSE
