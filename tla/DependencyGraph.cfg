\* Two creations at once, with deletions, imports and lost connections.
SPECIFICATION FairSpec
CONSTANTS
    a1 = a1  a2 = a2  a3 = a3  r1 = r1  r2 = r2
    Activities <- MCActivities
    Pairs <- Triangle
    Requests <- TwoRequests
INVARIANT TypeOK
PROPERTY CycleNeedsOverlap
PROPERTY RowsOnlyAge
PROPERTY CreationsFinish
CHECK_DEADLOCK FALSE
