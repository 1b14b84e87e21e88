SPECIFICATION Spec
CONSTANTS
    r1 = r1
    r2 = r2
    m1 = m1
    d1 = d1
    n1 = n1
    n2 = n2
    NoChecksum = NoChecksum
    NoDoc = NoDoc
    NoTask = NoTask
    NoFile = NoFile
    NoPolicy = NoPolicy
    q1 = q1
    q2 = q2
    Runs <- MCOneRun
    Files <- MCMarkdown
    Markdown <- MCMarkdown
    Workspace = {}
    Paths <- MCPaths
    Checksums <- MCContents
    NumChunks <- MCBlankBetween
    Reprocess = {FALSE}
    Policies <- MCOnePolicy
    Revert = FALSE
    MaxEdits = 2
    MaxStarts = 3
INVARIANTS
    IInv
    SuccessMeansCurrent
    NothingForgotten
    DoneMeansShown
    BackendsAgree
PROPERTY
    ViewNeverRegresses
\* After MaxStarts runs nothing is left to do.
CHECK_DEADLOCK FALSE
