\* create_dependency(): "Should prevent A -> B -> A cycle."
SPECIFICATION Spec
CONSTANTS
    a1 = a1  a2 = a2  a3 = a3  r1 = r1  r2 = r2
    Activities <- TwoActivities
    Pairs <- ThereAndBack
    Requests <- TwoRequests
PROPERTY CreationsCloseNoCycle
CHECK_DEADLOCK FALSE
