SPECIFICATION Spec
CONSTANTS
    w1 = w1
    w2 = w2
    m1 = m1
    p1 = p1
    p2 = p2
    NoFile = NoFile
    Workers <- MCWorkers
    Files <- MCFewFiles
    Markdown <- MCMarkdown
    BufCap = 1
    MaxAttempts = 2
PROPERTY InFlightJobsComplete
CHECK_DEADLOCK FALSE
