SPECIFICATION Spec
CONSTANTS
    w1 = w1
    w2 = w2
    m1 = m1
    p1 = p1
    p2 = p2
    NoFile = NoFile
    Workers <- MCWorkers
    Files <- MCFiles
    Markdown <- MCMarkdown
    BufCap = 1
    MaxAttempts = 2
INVARIANTS
    SingleOwner
    DoneMeansLoaded
    LoadsBounded
    SuccessMeansComplete
    NoFileLost
    FailureReportExact
    IInv
PROPERTIES
    StatusSettledOnce
    Terminates
    EveryFileSettles
    ImplementsContract
\* Run returns, and then nothing happens any more; a run that stops earlier
\* violates Terminates.
CHECK_DEADLOCK FALSE
