----------------------- MODULE MCScheduleCalculation -----------------------
(* Small programs for TLC to check ScheduleCalculation with. The schedules  *)
(* are the ones the invariants of CPMEngine characterise: the least early   *)
(* dates, and the greatest late dates that meet the project duration.       *)
EXTENDS ScheduleCalculation, FiniteSetsExt, TLC

CONSTANTS a, b, c1, c2

MCActivities == {a, b}
MCPairs == {<<a, b>>}
OneCalculator == {c1}
TwoCalculators == {c1, c2}
ChainOrParallel == {"FS", "SS"}
OnlyChain == {"FS"}
ShorterOrLonger == {<<a, 2>>, <<b, 1>>, <<b, 3>>}

Days == 0..6

Honours(n, start, p) ==
    IF n.link[p] = "FS"
    THEN start[p[1]] + n.duration[p[1]] <= start[p[2]]
    ELSE start[p[1]] <= start[p[2]]

Feasible(n) == {start \in [DOMAIN n.duration -> Days] :
                   \A p \in DOMAIN n.link : Honours(n, start, p)}

Finish(n, start) == Max({start[x] + n.duration[x] : x \in DOMAIN n.duration})

EarlyStart(n) ==
    CHOOSE early \in Feasible(n) :
        \A start \in Feasible(n) :
            \A x \in DOMAIN n.duration : early[x] <= start[x]

LateStart(n) ==
    LET onTime == {start \in Feasible(n) :
                      Finish(n, start) <= Finish(n, EarlyStart(n))}
    IN  CHOOSE late \in onTime :
            \A start \in onTime :
                \A x \in DOMAIN n.duration : start[x] <= late[x]

Schedulable ==
    {n \in Networks :
        /\ DOMAIN n.duration # {}
        /\ \A p \in DOMAIN n.link : {p[1], p[2]} \subseteq DOMAIN n.duration}

\* TLC evaluates a constant definition once, and the operands of @@ fully.
ScheduleTable == Empty @@
    [n \in Schedulable |->
        [x \in DOMAIN n.duration |->
            [total_float |-> LateStart(n)[x] - EarlyStart(n)[x],
             is_critical |-> LateStart(n)[x] = EarlyStart(n)[x]]]]

MCSchedule == ScheduleTable

Interchangeable == Permutations(TwoCalculators)
=============================================================================
