\* Two activities, a WBS element and two requests at a time.
SPECIFICATION Spec
CONSTANTS
    a1 = a1
    a2 = a2
    w1 = w1
    r1 = r1
    r2 = r2
    Activities <- TwoActivities
    Elements <- OneElement
    Code <- ByCode
    PageLimit = 2
    Requests <- TwoRequests
    MaxIssues = 6
    Budgets <- Stories
    MaxRetries = 2
INVARIANTS
    TypeOK
    DuplicateNeedsTrouble
    PullWatermarkIsHonest
PROPERTIES
    SettledStaysSettled
    OneWayLinks
    EveryRequestEnds
    LinksRefined
CHECK_DEADLOCK FALSE
