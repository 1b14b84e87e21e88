SPECIFICATION Spec
CONSTANTS
    worker = worker
    other = other
    verifier = verifier
    NoMart = NoMart
    NoFile = NoFile
    NoReport = NoReport
    Exporters <- MCTwoWorkers
    Verifier = verifier
    Versions = {0, 1}
    Overlap = TRUE
INVARIANT OneReportPerTable
