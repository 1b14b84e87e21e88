SPECIFICATION Spec
CONSTANTS
    c1 = c1
    c2 = c2
    f1 = f1
    n1 = n1
    NoChecksum = NoChecksum
    NoDoc = NoDoc
    NoCall = NoCall
    Clients <- MCClients
    Files <- MCFiles
    Paths <- MCPaths
    Checksums <- MCChecksums
    Attempts = 2
INVARIANTS
    FreshUnlessStale
    IInv
PROPERTIES
    DoneRequeuedForCause
    ImplementsStateStore
