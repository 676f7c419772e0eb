\* docs/cpm-algorithm.md:17: free float delays no successor.
SPECIFICATION MCSpec
CONSTANTS
    Activities <- MCActivities
    Durations <- MCDurations
    Lags <- LeadAndLag
    Pairs <- MCPairs
    Days <- MCDays
INVARIANT FreeFloatDelaysNoSuccessor
CHECK_DEADLOCK FALSE
