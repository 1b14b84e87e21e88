SPECIFICATION Spec
CONSTANTS
    r1 = r1
    r2 = r2
    r3 = r3
    a = a
    b = b
    NoCode = NoCode
    Nobody = Nobody
    Requests <- MCRequests
    Codes <- MCCodes
INVARIANTS
    IInv
    PagesTruthful
PROPERTIES
    EndsUnlessSecondCode
\* The helper ends, or hangs in Shutdown: EndsUnlessSecondCode says when.
CHECK_DEADLOCK FALSE
