\* The failures of FdBorrow that leave objects behind, but for a failed signature,
\* and the upsets; a node is reconciled only while no message is under way.
SPECIFICATION LedgerFairSpec
CONSTANTS
    Exporters = {e1, e2}
    Importer = im
    Borrows = {b1, b2}
    Returns = {r1}
    Patient = TRUE
    FaultKinds = {"unexport", "unimport", "import", "decoder", "cna", "lost", "rollback", "report"}
    Upsets = {"takeover", "restart", "reboot", "collect"}
    MaxFaults = 3
    Races = {}
    None = None
INVARIANT MappedIsLent
PROPERTY LedgersConverge
CHECK_DEADLOCK FALSE
