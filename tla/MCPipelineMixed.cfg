SPECIFICATION Spec
CONSTANTS
    r1 = r1
    r2 = r2
    m1 = m1
    d1 = d1
    n1 = n1
    n2 = n2
    NoChecksum = NoChecksum
    NoDoc = NoDoc
    NoTask = NoTask
    NoFile = NoFile
    NoPolicy = NoPolicy
    q1 = q1
    q2 = q2
    Runs <- MCOneRun
    Files <- MCMixed
    Markdown <- MCMarkdown
    Workspace <- MCWorkspace
    Paths <- MCOnePath
    Checksums <- MCTwoContents
    NumChunks <- MCNumChunks
    Reprocess = {TRUE, FALSE}
    Policies <- MCPolicies
    Revert = FALSE
    MaxEdits = 2
    MaxStarts = 3
INVARIANTS
    SuccessMeansCurrent
    MetadataBackfilled
PROPERTY
    UncomparableQueued
\* After MaxStarts runs nothing is left to do.
CHECK_DEADLOCK FALSE
