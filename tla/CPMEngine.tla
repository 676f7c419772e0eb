----------------------------- MODULE CPMEngine -----------------------------
(***************************************************************************)
(* The Critical Path Method engine of api/src/services/cpm.py.             *)
(*                                                                         *)
(* An engine is built for one network of activities and dependencies and   *)
(* runs calculate() once: cycle detection, a forward pass in a topological *)
(* order, a backward pass in a reverse topological order, and the floats.  *)
(* The network is chosen by Init; the order in which the passes take the   *)
(* activities is any order networkx may produce, so every property below   *)
(* also says that the result does not depend on that order.                *)
(***************************************************************************)
EXTENDS Integers, FiniteSets

CONSTANTS
    Activities,   \* the activities of one program
    Durations,    \* durations an activity may have, in working days
    Lags,         \* lags (> 0) and leads (< 0) a dependency may have
    Pairs,        \* <<predecessor, successor>> pairs that may be linked
    Days          \* working days, from project start, that a schedule may use

ASSUME ActivitiesAssumption == Activities # {} /\ IsFiniteSet(Activities)
ASSUME DurationsAssumption == Durations \subseteq Nat
ASSUME LagsAssumption == Lags \subseteq Int
\* DependencyCreate rejects an activity that depends on itself.
ASSUME PairsAssumption ==
    Pairs \subseteq {p \in Activities \X Activities : p[1] # p[2]}

ASSUME DaysAssumption == Days \subseteq Int

DependencyType == {"FS", "SS", "FF", "SF"}

VARIABLES
    duration,      \* Activity.duration
    links,         \* the pairs joined by a dependency row
    dependencyType,
    lag,
    phase,         \* how far calculate() has got
    pending,       \* activities the current pass has still to visit
    early_start, early_finish, late_start, late_finish,
    total_float, free_float

network == <<duration, links, dependencyType, lag>>
results == <<early_start, early_finish, late_start, late_finish,
             total_float, free_float>>
vars == <<network, phase, pending, results>>

-----------------------------------------------------------------------------
(* The graph that _build_graph makes of the network.                       *)

Predecessors(a) == {p \in Activities : <<p, a>> \in links}
Successors(a) == {s \in Activities : <<a, s>> \in links}

\* Mutant: a cycle check that looks for mutual dependencies only.
MutantNoMutualLinks == \A p \in links : <<p[2], p[1]>> \notin links

\* No set of activities feeds itself: nx.find_cycle finds nothing.
Acyclic ==
    \A S \in SUBSET Activities :
        S # {} => \E a \in S : Predecessors(a) \cap S = {}

\* m is the greatest (least) element of the set S of integers.
IsMax(m, S) == m \in S /\ \A x \in S : x <= m
IsMin(m, S) == m \in S /\ \A x \in S : m <= x

\* Mutant: the successor's duration is not taken off an FF or SF limit.
MutantStartAfterUnadjusted(p, a) ==
    IF dependencyType[<<p, a>>] \in {"FS", "FF"}
    THEN early_finish[p] + lag[<<p, a>>]
    ELSE early_start[p] + lag[<<p, a>>]

\* The early start that the link from p imposes on its successor a.
StartAfter(p, a) ==
    CASE dependencyType[<<p, a>>] = "FS" -> early_finish[p] + lag[<<p, a>>]
      [] dependencyType[<<p, a>>] = "SS" -> early_start[p] + lag[<<p, a>>]
      [] dependencyType[<<p, a>>] = "FF" ->
            early_finish[p] + lag[<<p, a>>] - duration[a]
      [] dependencyType[<<p, a>>] = "SF" ->
            early_start[p] + lag[<<p, a>>] - duration[a]

\* Mutants: the predecessor's own duration is not added back for SS and SF,
\* and the lag has the wrong sign.
MutantFinishBeforeUnadjusted(a, s) ==
    IF dependencyType[<<a, s>>] \in {"FS", "SS"}
    THEN late_start[s] - lag[<<a, s>>]
    ELSE late_finish[s] - lag[<<a, s>>]

MutantFinishBeforeLagSign(a, s) ==
    (IF dependencyType[<<a, s>>] \in {"FS", "SS"}
       THEN late_start[s] + lag[<<a, s>>]
       ELSE late_finish[s] + lag[<<a, s>>])
    + (IF dependencyType[<<a, s>>] \in {"SS", "SF"} THEN duration[a] ELSE 0)

\* The late finish that the link to s imposes on its predecessor a.
FinishBefore(a, s) ==
    CASE dependencyType[<<a, s>>] = "FS" -> late_start[s] - lag[<<a, s>>]
      [] dependencyType[<<a, s>>] = "SS" ->
            late_start[s] - lag[<<a, s>>] + duration[a]
      [] dependencyType[<<a, s>>] = "FF" -> late_finish[s] - lag[<<a, s>>]
      [] dependencyType[<<a, s>>] = "SF" ->
            late_finish[s] - lag[<<a, s>>] + duration[a]

-----------------------------------------------------------------------------
Zeros == [a \in Activities |-> 0]

Init ==
    /\ duration \in [Activities -> Durations]
    /\ links \in SUBSET Pairs
    /\ dependencyType \in [links -> DependencyType]
    /\ lag \in [links -> Lags]
    /\ phase = "created"
    /\ pending = {}
    /\ early_start = Zeros /\ early_finish = Zeros
    /\ late_start = Zeros /\ late_finish = Zeros
    /\ total_float = Zeros /\ free_float = Zeros

\* calculate() on a cyclic graph raises CircularDependencyError.
RejectCycle ==
    /\ phase = "created"
    /\ ~Acyclic
    /\ phase' = "circular"
    /\ UNCHANGED <<network, pending, results>>

\* Every activity starts on day 0 until the forward pass visits it.
StartForwardPass ==
    /\ phase = "created"
    /\ Acyclic
    /\ phase' = "forward"
    /\ pending' = Activities
    /\ early_finish' = duration
    /\ UNCHANGED <<network, early_start, late_start, late_finish,
                   total_float, free_float>>

\* Mutant: the last predecessor looked at wins, not the most restrictive.
MutantForwardVisitLastWins(a) ==
    /\ phase = "forward"
    /\ a \in pending
    /\ Predecessors(a) \cap pending = {}
    /\ \E es \in {0} \cup {StartAfter(p, a) : p \in Predecessors(a)} :
         /\ es >= 0
         /\ early_start' = [early_start EXCEPT ![a] = es]
         /\ early_finish' = [early_finish EXCEPT ![a] = es + duration[a]]
    /\ pending' = pending \ {a}
    /\ UNCHANGED <<network, phase, late_start, late_finish,
                   total_float, free_float>>

\* One turn of the forward loop: a comes next in topological order.
ForwardVisit(a) ==
    /\ phase = "forward"
    /\ a \in pending
    /\ Predecessors(a) \cap pending = {}
    /\ \E es \in {0} \cup {StartAfter(p, a) : p \in Predecessors(a)} :
         /\ IsMax(es, {0} \cup {StartAfter(p, a) : p \in Predecessors(a)})
         /\ early_start' = [early_start EXCEPT ![a] = es]
         /\ early_finish' = [early_finish EXCEPT ![a] = es + duration[a]]
    /\ pending' = pending \ {a}
    /\ UNCHANGED <<network, phase, late_start, late_finish,
                   total_float, free_float>>

\* Mutant: the project end is the early finish of whichever activity the
\* forward pass visited last, not the greatest one.
MutantStartBackwardPassAnyEnd ==
    /\ phase = "forward"
    /\ pending = {}
    /\ phase' = "backward"
    /\ pending' = Activities
    /\ \E end \in {early_finish[a] : a \in {b \in Activities : Successors(b) = {}}} :
         /\ late_finish' = [a \in Activities |-> end]
         /\ late_start' = [a \in Activities |-> end - duration[a]]
    /\ UNCHANGED <<network, early_start, early_finish,
                   total_float, free_float>>

\* Every activity may finish at the project end until the backward pass
\* visits it.
StartBackwardPass ==
    /\ phase = "forward"
    /\ pending = {}
    /\ phase' = "backward"
    /\ pending' = Activities
    /\ \E end \in {early_finish[a] : a \in Activities} :
         /\ IsMax(end, {early_finish[a] : a \in Activities})
         /\ late_finish' = [a \in Activities |-> end]
         /\ late_start' = [a \in Activities |-> end - duration[a]]
    /\ UNCHANGED <<network, early_start, early_finish,
                   total_float, free_float>>

\* Mutant: the last successor looked at wins, not the most restrictive.
MutantBackwardVisitLastWins(a) ==
    /\ phase = "backward"
    /\ a \in pending
    /\ Successors(a) \cap pending = {}
    /\ \E lf \in {late_finish[a]} \cup {FinishBefore(a, s) : s \in Successors(a)} :
         /\ late_finish' = [late_finish EXCEPT ![a] = lf]
         /\ late_start' = [late_start EXCEPT ![a] = lf - duration[a]]
    /\ pending' = pending \ {a}
    /\ UNCHANGED <<network, phase, early_start, early_finish,
                   total_float, free_float>>

\* One turn of the backward loop: a comes next in reverse topological order.
BackwardVisit(a) ==
    /\ phase = "backward"
    /\ a \in pending
    /\ Successors(a) \cap pending = {}
    /\ \E lf \in {late_finish[a]} \cup {FinishBefore(a, s) : s \in Successors(a)} :
         /\ IsMin(lf, {late_finish[a]}
                        \cup {FinishBefore(a, s) : s \in Successors(a)})
         /\ late_finish' = [late_finish EXCEPT ![a] = lf]
         /\ late_start' = [late_start EXCEPT ![a] = lf - duration[a]]
    /\ pending' = pending \ {a}
    /\ UNCHANGED <<network, phase, early_start, early_finish,
                   total_float, free_float>>

\* Mutant: the lag of the link is not taken off the successor's early start.
MutantFreeFloatIgnoresLag(a, totalFloat) ==
    LET limits == {early_start[s] : s \in
                     {t \in Successors(a) : dependencyType[<<a, t>>] = "FS"}}
    IN  IF limits = {}
        THEN totalFloat
        ELSE (CHOOSE m \in limits : IsMin(m, limits)) - early_finish[a]

\* Only finish-to-start successors count towards the free float; an activity
\* without any falls back on its total float.
FreeFloat(a, totalFloat) ==
    LET limits == {early_start[s] - lag[<<a, s>>] : s \in
                     {t \in Successors(a) : dependencyType[<<a, t>>] = "FS"}}
    IN  IF limits = {}
        THEN totalFloat
        ELSE (CHOOSE m \in limits : IsMin(m, limits)) - early_finish[a]

\* Mutants: the total float runs to the late finish, and activities without
\* successors get no free float at all.
MutantCalculateFloatToFinish ==
    /\ phase = "backward"
    /\ pending = {}
    /\ phase' = "done"
    /\ total_float' = [a \in Activities |-> late_finish[a] - early_start[a]]
    /\ free_float' =
         [a \in Activities |-> FreeFloat(a, late_start[a] - early_start[a])]
    /\ UNCHANGED <<network, pending, early_start, early_finish,
                   late_start, late_finish>>

MutantCalculateFloatSkipsLast ==
    /\ phase = "backward"
    /\ pending = {}
    /\ phase' = "done"
    /\ total_float' = [a \in Activities |-> late_start[a] - early_start[a]]
    /\ free_float' =
         [a \in {b \in Activities : Successors(b) # {}} |->
             FreeFloat(a, late_start[a] - early_start[a])]
    /\ UNCHANGED <<network, pending, early_start, early_finish,
                   late_start, late_finish>>

CalculateFloat ==
    /\ phase = "backward"
    /\ pending = {}
    /\ phase' = "done"
    /\ total_float' = [a \in Activities |-> late_start[a] - early_start[a]]
    /\ free_float' =
         [a \in Activities |-> FreeFloat(a, late_start[a] - early_start[a])]
    /\ UNCHANGED <<network, pending, early_start, early_finish,
                   late_start, late_finish>>

Next ==
    \/ RejectCycle
    \/ StartForwardPass
    \/ \E a \in Activities : ForwardVisit(a) \/ BackwardVisit(a)
    \/ StartBackwardPass
    \/ CalculateFloat

Spec == Init /\ [][Next]_vars

\* calculate() runs to its end without awaiting anything.
FairSpec == Spec /\ WF_vars(Next)

IsCritical(a) == total_float[a] = 0
CriticalPath == {a \in Activities : IsCritical(a)}

-----------------------------------------------------------------------------
(* What a network asks of a schedule, read off the meaning of the four     *)
(* dependency types rather than off the two passes. A schedule start gives *)
(* each activity its first day.                                            *)

Honours(start, p, s) ==
    CASE dependencyType[<<p, s>>] = "FS" ->
            start[p] + duration[p] + lag[<<p, s>>] <= start[s]
      [] dependencyType[<<p, s>>] = "SS" ->
            start[p] + lag[<<p, s>>] <= start[s]
      [] dependencyType[<<p, s>>] = "FF" ->
            start[p] + duration[p] + lag[<<p, s>>] <= start[s] + duration[s]
      [] dependencyType[<<p, s>>] = "SF" ->
            start[p] + lag[<<p, s>>] <= start[s] + duration[s]

Feasible(start) ==
    /\ \A a \in Activities : start[a] >= 0
    /\ \A p, s \in Activities : <<p, s>> \in links => Honours(start, p, s)

FinishesBy(start, end) == \A a \in Activities : start[a] + duration[a] <= end

\* get_project_duration(): the latest early finish.
IsProjectDuration(end) == IsMax(end, {early_finish[a] : a \in Activities})

ProjectDuration ==
    CHOOSE end \in {early_finish[a] : a \in Activities} : IsProjectDuration(end)

Schedules == [Activities -> Days]

TypeOK ==
    /\ duration \in [Activities -> Durations]
    /\ links \subseteq Pairs
    /\ dependencyType \in [links -> DependencyType]
    /\ lag \in [links -> Lags]
    /\ phase \in {"created", "circular", "forward", "backward", "done"}
    /\ pending \subseteq Activities
    /\ early_start \in [Activities -> Int]
    /\ early_finish \in [Activities -> Int]
    /\ late_start \in [Activities -> Int]
    /\ late_finish \in [Activities -> Int]
    /\ total_float \in [Activities -> Int]
    /\ free_float \in [Activities -> Int]

\* The early dates are a schedule: the forward pass leaves no dependency of
\* any type violated and starts nothing before day 0, whatever the mix of
\* types, leads and lags.
EarlyDatesFeasible == phase = "done" => Feasible(early_start)

\* ... and the earliest one: no schedule that honours the dependencies starts
\* any activity before its early start.
EarlyDatesLeast ==
    phase = "done" =>
        \A start \in Schedules :
            Feasible(start) => \A a \in Activities : early_start[a] <= start[a]

\* The late dates are a schedule that still meets the project duration.
LateDatesFeasible ==
    phase = "done" =>
        /\ Feasible(late_start)
        /\ FinishesBy(late_start, ProjectDuration)

\* ... and the latest one: a schedule that starts an activity after its late
\* start breaks a dependency or delays the project.
LateDatesGreatest ==
    phase = "done" =>
        \A start \in Schedules :
            Feasible(start) /\ FinishesBy(start, ProjectDuration)
                => \A a \in Activities : start[a] <= late_start[a]

\* Total float is the time an activity can be delayed without delaying the
\* project: every delay up to it is part of some schedule that meets the
\* project duration.
TotalFloatIsUsable ==
    phase = "done" =>
        \A a \in Activities : \A d \in 0..total_float[a] :
            \E start \in Schedules :
                /\ start[a] = early_start[a] + d
                /\ Feasible(start)
                /\ FinishesBy(start, ProjectDuration)

\* No activity is behind before it starts: floats are never negative.
FloatsNonNegative ==
    phase = "done" =>
        \A a \in Activities : total_float[a] >= 0 /\ free_float[a] >= 0

\* The critical path is a path: some critical activity ends the project, and
\* each one that starts after day 0 is driven by a critical predecessor.
CriticalPathIsConnected ==
    phase = "done" =>
        /\ \E a \in CriticalPath : IsProjectDuration(early_finish[a])
        /\ \A a \in CriticalPath :
              early_start[a] > 0 =>
                \E p \in CriticalPath \cap Predecessors(a) :
                    early_start[a] = StartAfter(p, a)

\* Delaying one activity by its free float leaves every successor where its
\* early start put it.
FreeFloatHarmlessFor(a) ==
    \A s \in Successors(a) :
        Honours([early_start EXCEPT ![a] = @ + free_float[a]], a, s)

\* docs/cpm-algorithm.md: free float is the time an activity can be delayed
\* without delaying successors. The engine looks at FS successors only.
FreeFloatDelaysNoSuccessor ==
    phase = "done" => \A a \in Activities : FreeFloatHarmlessFor(a)

\* For an activity whose successors are all finish-to-start the free float is
\* that time exactly: one more day would push some successor.
FreeFloatExactForFS ==
    phase = "done" =>
        \A a \in Activities :
            /\ Successors(a) # {}
            /\ \A s \in Successors(a) : dependencyType[<<a, s>>] = "FS"
            => /\ FreeFloatHarmlessFor(a)
               /\ \E s \in Successors(a) :
                    ~Honours([early_start EXCEPT ![a] = @ + free_float[a] + 1],
                             a, s)

\* Every calculation ends, with a schedule or with the circular-dependency
\* error: a graph that passes the cycle check never leaves a pass without an
\* activity to visit.
CalculateTerminates == <>(phase \in {"done", "circular"})

=============================================================================
