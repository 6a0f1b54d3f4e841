\* An exporter is reconciled while a borrow is under way; nothing fails.
SPECIFICATION LedgerFairSpec
CONSTANTS
    Exporters = {e1}
    Importer = im
    Borrows = {b1}
    Returns = {}
    Patient = TRUE
    FaultKinds = {}
    Upsets = {}
    MaxFaults = 0
    Races = {"midway"}
    None = None
INVARIANT MappedIsLent
CHECK_DEADLOCK FALSE
