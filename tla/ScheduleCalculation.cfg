\* Two calculations at once, among edits, expiries and Redis failures.
SPECIFICATION Spec
CONSTANTS
    a = a  b = b  c1 = c1  c2 = c2  NoFloat = NoFloat
    Activities <- MCActivities
    Pairs <- MCPairs
    Calculators <- TwoCalculators
    Updates <- ShorterOrLonger
    Terms <- OnlyChain
    Schedule <- MCSchedule
    EditsBound = 2
    KeysBound = 1
SYMMETRY Interchangeable
INVARIANTS
    TypeOK
    AnswersAreExact
    AnswersAreCurrent
PROPERTIES
    SavedRowsAreTheAnswer
    FlagsStayMatched
CHECK_DEADLOCK FALSE
