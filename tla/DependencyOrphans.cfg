\* activities.py:326: deleting an activity also removes its dependencies.
SPECIFICATION Spec
CONSTANTS
    a1 = a1  a2 = a2  a3 = a3  r1 = r1  r2 = r2
    Activities <- TwoActivities
    Pairs <- ThereAndBack
    Requests <- OneRequest
INVARIANT LiveDependenciesJoinLiveActivities
CHECK_DEADLOCK FALSE
