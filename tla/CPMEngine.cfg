\* Every acyclic network of three activities, and cyclic ones.
SPECIFICATION MCSpec
CONSTANTS
    Activities <- MCActivities
    Durations <- MCDurations
    Lags <- LeadAndLag
    Pairs <- MCPairs
    Days <- MCDays
INVARIANTS
    TypeOK
    EarlyDatesFeasible
    EarlyDatesLeast
    LateDatesFeasible
    LateDatesGreatest
    TotalFloatIsUsable
    FloatsNonNegative
    CriticalPathIsConnected
    FreeFloatExactForFS
PROPERTY CalculateTerminates
CHECK_DEADLOCK FALSE
