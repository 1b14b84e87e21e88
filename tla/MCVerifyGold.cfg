SPECIFICATION Spec
CONSTANTS
    worker = worker
    other = other
    verifier = verifier
    NoMart = NoMart
    NoFile = NoFile
    NoReport = NoReport
    Exporters <- MCExporters
    Verifier = verifier
    Versions = {0, 1}
    Overlap = FALSE
INVARIANTS
    IInv
    ReportTruthful
    VerifiedDelivered
    OneReportPerTable
PROPERTIES
    DeliveryFresh
    ReadOnlyUnlessRequested
    VerificationEnds
