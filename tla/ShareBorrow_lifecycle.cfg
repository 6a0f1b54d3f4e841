\* Two memories of the name and two importers, one of them the exporter; two
\* different failures at any step.
SPECIFICATION FairSpec
CONSTANTS
    Exporters = {n1}
    Importers = {n1, n2}
    Borrows = {1, 2}
    Attaches = {11, 12}
    Detaches = {21, 22}
    Returns = {31}
    FaultKinds = {"refuse", "export", "sign", "unexport", "decoder", "import",
                  "unimport", "lost", "late", "report"}
    MaxFaults = 2
    None = none
INVARIANT TypeOK
INVARIANT UsedIsLent
INVARIANT QuietAgreement
PROPERTY AnswersTruthful
PROPERTY EventuallyAnswered
CHECK_DEADLOCK FALSE
