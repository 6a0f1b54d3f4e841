\* Any failure of a step or of a send, three of them, in three borrows and three
\* returns of the name; a failed send was not delivered and nothing is doubled.
SPECIFICATION FairSpec
CONSTANTS
    Exporters = {e1, e2}
    Borrows = {b1, b2, b3}
    Returns = {r1, r2, r3}
    Patient = TRUE
    FaultKinds = {"refuse", "alloc", "cna", "export", "sign", "unexport",
                  "decoder", "import", "unimport", "lost", "rollback", "report"}
    MaxFaults = 3
    None = None
INVARIANT TypeOK
INVARIANT MappedIsLent
INVARIANT IndexFindsExports
INVARIANT QuietAgreement
PROPERTY ImplementsLease
PROPERTY AnswersTruthful
PROPERTY EventuallyAnswered
CHECK_DEADLOCK FALSE
