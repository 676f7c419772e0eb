\* schedule.py:143: get_critical_path() returns the critical activities.
SPECIFICATION Spec
CONSTANTS
    a = a  b = b  c1 = c1  c2 = c2  NoFloat = NoFloat
    Activities <- MCActivities
    Pairs <- MCPairs
    Calculators <- OneCalculator
    Updates <- ShorterOrLonger
    Terms <- ChainOrParallel
    Schedule <- MCSchedule
    EditsBound = 1
    KeysBound = 2
INVARIANT RowsAgreeWithAnswer
CHECK_DEADLOCK FALSE
