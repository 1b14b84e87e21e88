SPECIFICATION Spec
CONSTANTS
    FirstDay <- MCFirstDay
    Earliest <- MCEarliest
    Beyond <- MCBeyond
    NoMonth = NoMonth
    NoLabel = NoLabel
    NoPeriod = NoPeriod
    NoRows = NoRows
    MaxChars = 4
    Lines <- MCLines
    Policies <- MCPolicies
    MaxLines = 3
INVARIANTS
    TypeOK
    NothingLost
    ChunksWellCut
    TombstoneExact
    TitleLeads
    DaysDated
