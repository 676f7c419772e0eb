------------------------------ MODULE Leveling ------------------------------
(***************************************************************************)
(* Resource leveling: the serial algorithm                                 *)
(* (api/src/services/resource_leveling.py), the parallel one               *)
(* (parallel_leveling.py), and the endpoint that reruns the serial one and *)
(* writes some of its shifts to the activities (endpoints/leveling.py).    *)
(*                                                                         *)
(* Both work on a copy of the dates (working_dates, activity_dates) that   *)
(* they read once; the rows they read again meanwhile (assignments, links, *)
(* resources) are taken not to change. Every activity has early dates,     *)
(* which win over the planned ones. Dates are numbers of days and day 0 is *)
(* a Monday; a finish date is the start and the activity's span.           *)
(***************************************************************************)
EXTENDS Integers, FiniteSets, Functions

CONSTANTS
    Activities,    \* the program's activities
    Resources,     \* its resources
    Rank,          \* the order of the activities' ids
    Projects,      \* the programs that leveling is asked for
    Capacity,      \* the units of one full allocation
    SearchDays,    \* weekdays that the search for a free slot tries (365)
    Rounds,        \* values of max_iterations
    DefaultRounds, \* and its default
    Never          \* of an activity that has no shift or no new planned date

LinkTypes == {"FS", "SS", "FF", "SF"}
Links == [from : Activities, to : Activities, type : LinkTypes, lag : Int]

Project == [start : [Activities -> Nat], span : [Activities -> Nat],
            float : [Activities -> Int], critical : SUBSET Activities,
            units : [Activities -> [Resources -> Nat]], hours : [Resources -> Nat],
            active : SUBSET Resources, links : SUBSET Links]

ASSUME ActivitiesAssumption == IsFiniteSet(Activities)
ASSUME CapacityAssumption == Capacity \in Nat
ASSUME ProjectsAssumption == Projects \subseteq Project
ASSUME SearchDaysAssumption == SearchDays \in Nat \ {0}
ASSUME RoundsAssumption == Rounds \subseteq Nat \ {0} /\ DefaultRounds \in Rounds
ASSUME NeverAssumption == Never \notin Nat

\* LevelingOptions; target_resources is None unless it is given.
Options == [preserve : BOOLEAN, within : BOOLEAN, rounds : Rounds,
            given : BOOLEAN, targets : SUBSET Resources]
Defaults == [preserve |-> TRUE, within |-> TRUE, rounds |-> DefaultRounds,
             given |-> FALSE, targets |-> {}]

VARIABLES
    project,    \* the program as the request reads it
    method,     \* "serial" or "parallel"
    options,    \* of the request
    start,      \* the working start dates
    recorded,   \* the start in each activity's last recorded shift, or Never
    conflicts,  \* the parallel algorithm's heap
    moved,      \* activities whose successors propagation has to look at
    round,      \* iterations so far
    planned,    \* planned_start as written by the apply endpoint, or Never
    pc          \* "level", "propagate", "done" or "applied"

vars == <<project, method, options, start, recorded, conflicts, moved, round, planned, pc>>
request == <<project, method, options>>

-----------------------------------------------------------------------------
(* Dates, loads and links.                                                 *)

Weekend(d) == d % 7 >= 5
Window(s, a) == s[a] .. (s[a] + project.span[a])
Weekdays(days) == {d \in days : ~Weekend(d)}

Assigned(a) == {r \in Resources : project.units[a][r] > 0}

Total(f, S) == FoldFunctionOnSet(+, 0, f, S)

\* The units of resource r that these activities use on day d.
Load(s, group, r, d) ==
    Total([a \in Activities |-> project.units[a][r]], {a \in group : d \in Window(s, a)})

Overloaded(s, r, days) ==
    \E d \in Weekdays(days) : Load(s, Activities, r, d) > Capacity

\* The earliest start that a link allows its successor.
Limit(s, l) ==
    LET finish == s[l.from] + project.span[l.from]
    IN CASE l.type = "FS" -> finish + 1 + l.lag
         [] l.type = "SS" -> s[l.from] + l.lag
         [] l.type = "FF" -> finish + l.lag - project.span[l.to]
         [] l.type = "SF" -> s[l.from] + l.lag - project.span[l.to]

\* Mutant: a successor that starts just in time is updated too.
MutantLateOrJustInTime(s, l) == Limit(s, l) >= s[l.to]

\* The successor starts too early for the link.
Late(s, l) == Limit(s, l) > s[l.to]

\* The first SearchDays weekdays from a day on.
Tried(from) ==
    {d \in Weekdays(from .. (from + 2 * SearchDays + 3)) :
        Cardinality(Weekdays(from .. d)) <= SearchDays}

\* Mutant: the last day of the slot is not looked at.
MutantFitsNotLastDay(a, r, d) ==
    \A day \in Weekdays(d .. (d + project.span[a] - 1)) :
        Load(start, Activities \ {a}, r, day) + project.units[a][r] <= Capacity

\* Resource r has room for a from day d on, the others being where they are.
Fits(a, r, d) ==
    \A day \in Weekdays(d .. (d + project.span[a])) :
        Load(start, Activities \ {a}, r, day) + project.units[a][r] <= Capacity

\* The start that the search from a day on ends with: the first slot, or the
\* given date when no tried day is one.
Slot(a, r, from, otherwise) ==
    LET slots == {d \in Tried(from) : Fits(a, r, d)}
    IN IF slots = {} THEN {otherwise}
       ELSE {d \in slots : \A e \in slots : d <= e}

\* Tuples are compared as Python does, by the first place where they differ.
Above(x, y) ==
    \E i \in DOMAIN x : x[i] > y[i] /\ \A j \in 1 .. (i - 1) : x[j] = y[j]

-----------------------------------------------------------------------------
(* The choice of what to delay.                                            *)

\* Serial: the activities' order, fixed at the beginning, and who may move.
Order(a) == <<project.start[a], project.float[a], Rank[a]>>

MayDelay(a, days) ==
    /\ days > 0
    /\ ~(options.preserve /\ a \in project.critical)
    /\ options.within => days <= project.float[a]

Exceeded(a) ==
    {r \in Assigned(a) : /\ options.given => r \in options.targets
                         /\ Overloaded(start, r, Window(start, a))}

\* Where a resource of the activity that is overloaded sends it.
Moves(a) ==
    {d \in UNION {Slot(a, r, start[a], start[a] + SearchDays) : r \in Exceeded(a)} :
        MayDelay(a, d - start[a])}

\* Parallel: the overloaded days that several activities share, the order of
\* the heap, and the activity that gives way. No targets stands for all.
Leveled == {r \in project.active : options.targets # {} => r \in options.targets}

Competing(s, c) == {a \in Activities : c.resource \in Assigned(a) /\ c.day \in Window(s, a)}

Conflicts(s) ==
    {c \in [resource : Leveled, day : Weekdays(UNION {Window(s, a) : a \in Activities})] :
        /\ Load(s, Activities, c.resource, c.day) > Capacity
        /\ Cardinality(Competing(s, c)) > 1}

Severity(c) == (Load(start, Activities, c.resource, c.day) - Capacity) * project.hours[c.resource]
Sooner(c, d) == c.day < d.day \/ (c.day = d.day /\ Severity(c) > Severity(d))

Delayable(a) ==
    /\ ~(options.preserve /\ a \in project.critical)
    /\ options.within => start[a] - project.start[a] < project.float[a]

Score(a) == <<IF a \in project.critical THEN 0 ELSE 1, project.start[a], project.float[a],
              -Cardinality(Assigned(a)), Rank[a]>>

Yielding(c) ==
    LET candidates == {a \in Competing(start, c) : Delayable(a)}
    IN {a \in candidates : \A b \in candidates \ {a} : Above(Score(a), Score(b))}

-----------------------------------------------------------------------------
(* The iterations.                                                         *)

Init ==
    /\ project \in Projects
    /\ method \in {"serial", "parallel"}
    /\ options \in Options
    /\ ~options.given => options.targets = {}
    /\ start = project.start
    /\ recorded = [a \in Activities |-> Never]
    /\ conflicts = IF method = "parallel" THEN Conflicts(start) ELSE {}
    /\ moved = {}
    /\ round = 0
    /\ planned = [a \in Activities |-> Never]
    /\ pc = "level"

\* Mutant: one iteration too many.
MutantIterateOnceMore(by) ==
    /\ pc = "level"
    /\ method = by
    /\ round <= options.rounds
    /\ round' = round + 1

\* One more iteration of the loop.
Iterate(by) ==
    /\ pc = "level"
    /\ method = by
    /\ round < options.rounds
    /\ round' = round + 1

\* Mutant: the new dates are kept but the shift is not recorded.
MutantShiftUnrecorded(a, d) ==
    /\ start' = [start EXCEPT ![a] = d]
    /\ moved' = {a}
    /\ pc' = "propagate"
    /\ UNCHANGED <<request, recorded, planned>>

\* A shift is recorded; its effect on the successors follows.
Shift(a, d) ==
    /\ start' = [start EXCEPT ![a] = d]
    /\ recorded' = [recorded EXCEPT ![a] = d]
    /\ moved' = {a}
    /\ pc' = "propagate"
    /\ UNCHANGED <<request, planned>>

\* The first activity in order that can be moved is. The assignments of an
\* activity come in no particular order.
SerialShift(a) ==
    /\ Iterate("serial")
    /\ \A b \in Activities : Above(Order(a), Order(b)) => Moves(b) = {}
    /\ \E d \in Moves(a) : Shift(a, d)
    /\ UNCHANGED conflicts

\* The soonest conflict is taken off the heap. When the search finds no slot,
\* the activity is delayed by the length of the search.
ParallelShift(c) ==
    /\ Iterate("parallel")
    /\ \A o \in conflicts : ~Sooner(o, c)
    /\ \E a \in Yielding(c) : \E d \in Slot(a, c.resource, c.day + 1, start[a] + SearchDays) :
          Shift(a, d)
    /\ conflicts' = conflicts \ {c}

\* Nobody may give way: the conflict is gone all the same.
PassOver(c) ==
    /\ Iterate("parallel")
    /\ \A o \in conflicts : ~Sooner(o, c)
    /\ \A a \in Competing(start, c) : ~Delayable(a)
    /\ conflicts' = conflicts \ {c}
    /\ UNCHANGED <<request, start, recorded, moved, planned, pc>>

\* Mutant: the successors of a successor are not looked at.
MutantPropagateOneLevel(l) ==
    /\ pc = "propagate"
    /\ l.from \in moved
    /\ Late(start, l)
    /\ start' = [start EXCEPT ![l.to] = Limit(start, l)]
    /\ UNCHANGED <<request, recorded, conflicts, moved, round, planned, pc>>

\* _recalculate_successors, _propagate_to_successors: a successor that would
\* start too early moves, whatever its float, and nothing is recorded of it.
Propagate(l) ==
    /\ pc = "propagate"
    /\ l.from \in moved
    /\ Late(start, l)
    /\ start' = [start EXCEPT ![l.to] = Limit(start, l)]
    /\ moved' = moved \cup {l.to}
    /\ UNCHANGED <<request, recorded, conflicts, round, planned, pc>>

\* Mutant: the parallel algorithm works its first list of conflicts off.
MutantSettleOldConflicts ==
    /\ pc = "propagate"
    /\ \A l \in project.links : l.from \in moved => ~Late(start, l)
    /\ moved' = {}
    /\ pc' = "level"
    /\ UNCHANGED <<request, start, recorded, conflicts, round, planned>>

\* No successor is left to move; the parallel algorithm looks for conflicts anew.
Settle ==
    /\ pc = "propagate"
    /\ \A l \in project.links : l.from \in moved => ~Late(start, l)
    /\ moved' = {}
    /\ conflicts' = IF method = "parallel" THEN Conflicts(start) ELSE {}
    /\ pc' = "level"
    /\ UNCHANGED <<request, start, recorded, round, planned>>

\* The serial loop ends with an iteration that moves nothing.
Stop ==
    /\ pc = "level"
    /\ \/ round = options.rounds /\ UNCHANGED round
       \/ method = "parallel" /\ conflicts = {} /\ UNCHANGED round
       \/ Iterate("serial") /\ \A a \in Activities : Moves(a) = {}
    /\ pc' = "done"
    /\ UNCHANGED <<request, start, recorded, conflicts, moved, planned>>

\* The apply endpoint has run the serial algorithm with its defaults, and
\* writes the last shift of each activity that the user names.
Apply(chosen) ==
    /\ pc = "done"
    /\ method = "serial" /\ options = Defaults
    /\ planned' = [a \in Activities |-> IF a \in chosen THEN recorded[a] ELSE planned[a]]
    /\ pc' = "applied"
    /\ UNCHANGED <<request, start, recorded, conflicts, moved, round>>

Step ==
    \/ \E a \in Activities : SerialShift(a)
    \/ \E c \in conflicts : ParallelShift(c) \/ PassOver(c)
    \/ \E l \in project.links : Propagate(l)
    \/ Settle
    \/ Stop

Next == Step \/ \E chosen \in SUBSET Activities : Apply(chosen)

\* A request that has begun is worked on until it ends.
Spec == Init /\ [][Next]_vars /\ WF_vars(Step)

-----------------------------------------------------------------------------
(* What must hold.                                                         *)

\* The dates stay dates, the heap holds real conflicts of real resources, and
\* no request works longer than its max_iterations.
TypeOK ==
    /\ project \in Projects
    /\ method \in {"serial", "parallel"}
    /\ options \in Options
    /\ start \in [Activities -> Nat]
    /\ recorded \in [Activities -> Nat \cup {Never}]
    /\ conflicts \subseteq [resource : Resources, day : Nat]
    /\ moved \subseteq Activities
    /\ round \in 0 .. options.rounds
    /\ planned \in [Activities -> Nat \cup {Never}]
    /\ pc \in {"level", "propagate", "done", "applied"}

\* Whenever propagation has come to rest, every link that the original dates
\* honoured is honoured by the working dates, however many activities were
\* delayed and in whatever order the links were followed.
LinksStayHonoured ==
    pc # "propagate" =>
        \A l \in project.links : ~Late(project.start, l) => ~Late(start, l)

\* An activity ends where its last recorded shift put it, or later; and what
\* moved without a record lies downstream of a recorded shift: the shifts
\* that a preview returns explain the working dates.
MovesAreExplained ==
    /\ \A a \in Activities : recorded[a] # Never => recorded[a] <= start[a]
    /\ \A D \in SUBSET Activities :
          (/\ \A a \in Activities : recorded[a] # Never => a \in D
           /\ \A l \in project.links : l.from \in D => l.to \in D)
          => \A a \in Activities \ D : start[a] = project.start[a]

\* A conflict is only given up when nobody involved may be delayed: at a
\* success of the parallel algorithm the overloads that remain consist of
\* critical activities and such whose float is used up; the serial one ends
\* early only when no activity can be moved.
LeftoversAreStuck ==
    pc \in {"done", "applied"} =>
        /\ method = "parallel" /\ conflicts = {} =>
              \A c \in Conflicts(start) : \A a \in Competing(start, c) : ~Delayable(a)
        /\ method = "serial" /\ round < options.rounds =>
              \A a \in Activities : Moves(a) = {}

\* A delay to a free slot resolves: right after it some resource of the
\* delayed activity is within capacity on every weekday of its new dates.
SlotsAreFree ==
    [][\A a \in Activities :
          pc = "level" /\ start'[a] \notin {start[a], start[a] + SearchDays} =>
             \E r \in Assigned(a) : ~Overloaded(start', r, Window(start', a))]_vars

\* The rounds are limited and propagation runs out of successors, so every
\* request for leveling ends.
LevelingEnds == <>(pc \in {"done", "applied"})
=============================================================================
