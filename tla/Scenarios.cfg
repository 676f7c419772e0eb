\* Two overlapping requests, a scenario and its branch.
SPECIFICATION Spec
CONSTANTS
    r1 = r1
    r2 = r2
    s1 = s1
    s2 = s2
    c1 = c1
    c2 = c2
    NoScenario = NoScenario
    Requests <- TwoRequests
    Scenarios <- TwoScenarios
    Changes <- TwoChanges
    Updates <- OneUpdate
    MaxChanges = 1
    MaxBaselines = 2
SYMMETRY Interchangeable
INVARIANTS
    TypeOK
    SpentOnce
PROPERTIES
    PromotedStayAsTheyWere
    PromotionIsExact
CHECK_DEADLOCK FALSE
