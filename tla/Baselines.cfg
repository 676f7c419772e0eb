\* Two requests of any kind at once.
SPECIFICATION Spec
CONSTANTS
    r1 = r1  r2 = r2
    Requests <- TwoRequests
    MaxVersion = 3
    PageLimit = 2
SYMMETRY Interchangeable
INVARIANT TypeOK
PROPERTY ApprovalMovesThePMB
PROPERTY ApprovedAreKept
PROPERTY VersionsNameOneBaseline
