------------------------ MODULE ScheduleCalculation ------------------------
(***************************************************************************)
(* POST /schedule/calculate of api/src/api/v1/endpoints/schedule.py: it    *)
(* reads one program's network with two statements, asks the CPM engine or *)
(* the Redis cache for its schedule, writes the floats and flags that      *)
(* changed back to the activity rows, and caches the answer. Several       *)
(* calculations and edits of the same program run at once.                 *)
(*                                                                         *)
(* What the engine computes is the parameter Schedule (see CPMEngine). The *)
(* column free_float is written like total_float and is left out.          *)
(***************************************************************************)
EXTENDS Integers, FiniteSets, Functions

CONSTANTS
    Calculators,  \* concurrent executions of calculate_schedule
    Activities,   \* identities of the program's activity rows
    Updates,      \* <<activity, duration>> pairs that clients submit
    EditsBound,   \* most updates flushed and not committed at once
    Pairs,        \* <<predecessor, successor>> pairs that may be linked
    Terms,        \* the type and lag of a dependency
    Schedule,     \* the engine's result for each network it can schedule
    NoFloat,      \* NULL in the column total_float
    KeysBound     \* most results the cache holds at once

Durations == {u[2] : u \in Updates}

\* All rows the scheduler sees; soft-deleted ones included, as the queries of
\* the two repositories return them.
Networks ==
    [duration: UNION {[A -> Durations] : A \in SUBSET Activities},
     link: UNION {[L -> Terms] : L \in SUBSET Pairs}]

\* An activity row's calculated columns.
Columns == {"total_float", "is_critical"}
Result(n) == [DOMAIN n.duration -> [total_float: Int, is_critical: BOOLEAN]]

ASSUME UpdatesAssumption == Updates \subseteq Activities \X Nat
ASSUME PairsAssumption == Pairs \subseteq Activities \X Activities
ASSUME ScheduleAssumption ==
    /\ DOMAIN Schedule \subseteq Networks
    /\ \A n \in DOMAIN Schedule : Schedule[n] \in Result(n)
ASSUME NoFloatAssumption == NoFloat \notin Int

\* What CPMEngine relies on: is_critical is total_float = 0. Its graph has a
\* node for each end of a link, and it raises KeyError at a node it was given
\* no activity for.
ASSUME EngineAssumption ==
    \A n \in DOMAIN Schedule :
        /\ \A p \in DOMAIN n.link : {p[1], p[2]} \subseteq DOMAIN n.duration
        /\ \A a \in DOMAIN n.duration :
              Schedule[n][a].is_critical <=> Schedule[n][a].total_float = 0

VARIABLES
    net,      \* the committed network: durations and links
    row,      \* the committed calculated columns of each activity
    cache,    \* Redis: results under the keys cpm:result:<program>:*
    edits,    \* activity durations flushed and not yet committed
    pc,       \* where each calculation is
    read,     \* the network it read
    loaded,   \* the calculated columns as it loaded them, while it may save
    answer,   \* the result it will return
    since     \* what others committed since its first read: edits of the
              \* network, saves of the calculated columns (history)

calculation == <<pc, read, loaded, answer>>
vars == <<net, row, cache, edits, calculation, since>>

Empty == [x \in {} |-> x]
With(f, k, v) == [x \in {k} \cup DOMAIN f |-> IF x = k THEN v ELSE f[x]]
NothingRead == [duration |-> Empty, link |-> Empty]
NeverCalculated == [total_float |-> NoFloat, is_critical |-> FALSE]

Init ==
    /\ net \in {n \in Networks :
                 /\ \A a \in DOMAIN n.duration : <<a, n.duration[a]>> \in Updates
                 /\ \A p \in DOMAIN n.link :
                       {p[1], p[2]} \subseteq DOMAIN n.duration}
    /\ row = [a \in DOMAIN net.duration |-> NeverCalculated]
    /\ cache = Empty
    /\ edits = {}
    /\ pc = [c \in Calculators |-> "idle"]
    /\ read = [c \in Calculators |-> NothingRead]
    /\ loaded = [c \in Calculators |-> Empty]
    /\ answer = [c \in Calculators |-> Empty]
    /\ since = [c \in Calculators |-> {}]

\* For the calculations under way, other than those in by, what has been
\* committed.
Overtake(what, by) ==
    since' = [c \in Calculators |->
                IF c \notin by /\ pc[c] # "idle" THEN since[c] \cup {what}
                                               ELSE since[c]]

-----------------------------------------------------------------------------
(* calculate_schedule, from one await to the next.                         *)

\* An empty program is answered at once, without a schedule.
ReadActivities(c) ==
    /\ pc[c] = "idle"
    /\ DOMAIN net.duration # {}
    /\ pc' = [pc EXCEPT ![c] = "reading"]
    /\ read' = [read EXCEPT ![c].duration = net.duration]
    /\ loaded' = [loaded EXCEPT ![c] = row]
    /\ UNCHANGED <<net, row, cache, edits, answer, since>>

\* The second statement sees whatever was committed since the first.
ReadDependencies(c) ==
    /\ pc[c] = "reading"
    /\ pc' = [pc EXCEPT ![c] = "loaded"]
    /\ read' = [read EXCEPT ![c].link = net.link]
    /\ UNCHANGED <<net, row, cache, edits, loaded, answer, since>>

\* Mutants: the hash leaves out the dependencies, or the key names the program
\* only.
MutantKeyWithoutLinks(n) == [n EXCEPT !.link = Empty]
MutantKeyPerProgram(n) == NothingRead

\* compute_activities_hash() covers every duration and every link's terms.
Key(n) == n

\* A hit is returned as it is; nothing is written to the activity rows.
AnswerFromCache(c) ==
    /\ pc[c] = "loaded"
    /\ Key(read[c]) \in DOMAIN cache
    /\ answer' = [answer EXCEPT ![c] = cache[Key(read[c])]]
    /\ pc' = [pc EXCEPT ![c] = "answered"]
    /\ loaded' = [loaded EXCEPT ![c] = Empty]
    /\ UNCHANGED <<net, row, cache, edits, read, since>>

\* The engine raises on a cycle, and on a link to an activity that was created
\* between the two reads. get_db() rolls back.
EngineRaises(c) ==
    /\ pc[c] = "loaded"
    /\ read[c] \notin DOMAIN Schedule
    /\ pc' = [pc EXCEPT ![c] = "failed"]
    /\ loaded' = [loaded EXCEPT ![c] = Empty]
    /\ UNCHANGED <<net, row, cache, edits, read, answer, since>>

\* Mutant: a result of 0 or FALSE counts as no result.
MutantChangedIfTruthy(c, a) ==
    {col \in Columns :
        /\ Schedule[read[c]][a][col] # loaded[c][a][col]
        /\ IF col = "total_float" THEN Schedule[read[c]][a][col] # 0
                                  ELSE Schedule[read[c]][a][col]}

\* SQLAlchemy writes the columns whose value differs from the loaded one.
Changed(c, a) ==
    {col \in Columns : Schedule[read[c]][a][col] # loaded[c][a][col]}

\* Mutant: the flag is only ever set.
MutantColumnsAfter(c, a) ==
    [total_float |-> Schedule[read[c]][a].total_float,
     is_critical |-> row[a].is_critical \/ Schedule[read[c]][a].is_critical]

ColumnsAfter(c, a) ==
    [col \in Columns |-> IF col \in Changed(c, a)
                         THEN Schedule[read[c]][a][col]
                         ELSE row[a][col]]

\* No hit, Redis unavailable, or force_recalculate: compute, and commit the
\* columns that changed. Their rows must not be locked by an update.
CalculateAndSave(c) ==
    /\ pc[c] = "loaded"
    /\ read[c] \in DOMAIN Schedule
    /\ \A e \in edits : e[1] \in DOMAIN loaded[c] => Changed(c, e[1]) = {}
    /\ answer' = [answer EXCEPT ![c] = Schedule[read[c]]]
    /\ row' = [a \in DOMAIN row |-> IF a \in DOMAIN loaded[c]
                                    THEN ColumnsAfter(c, a) ELSE row[a]]
    /\ pc' = [pc EXCEPT ![c] = "saved"]
    /\ loaded' = [loaded EXCEPT ![c] = Empty]
    /\ Overtake("save", {c})
    /\ UNCHANGED <<net, cache, edits, read>>

\* CacheManager.set() swallows Redis errors.
CacheResult(c) ==
    /\ pc[c] = "saved"
    /\ \/ cache' = cache
       \/ /\ Cardinality(DOMAIN cache) < KeysBound
          /\ cache' = With(cache, Key(read[c]), answer[c])
    /\ pc' = [pc EXCEPT ![c] = "answered"]
    /\ UNCHANGED <<net, row, edits, read, loaded, answer, since>>

\* The response is sent, the error is, or the worker dies.
Leave(c) ==
    /\ pc[c] # "idle"
    /\ pc' = [pc EXCEPT ![c] = "idle"]
    /\ read' = [read EXCEPT ![c] = NothingRead]
    /\ loaded' = [loaded EXCEPT ![c] = Empty]
    /\ answer' = [answer EXCEPT ![c] = Empty]
    /\ since' = [since EXCEPT ![c] = {}]
    /\ UNCHANGED <<net, row, cache, edits>>

-----------------------------------------------------------------------------
(* The handlers that change what a calculation reads.                      *)

\* delete_pattern() swallows Redis errors.
Invalidate == cache' \in {cache, Empty}

\* ActivityRepository.create() and update() flush, which locks the row, and
\* invalidate the cache before the handler commits.
\* Applying a scenario is several of these, then as many CommitActivity or
\* RollBackActivity steps one after the other.
FlushActivity(a, d) ==
    /\ Cardinality(edits) < EditsBound
    /\ \A e \in edits : e[1] # a
    /\ edits' = edits \cup {<<a, d>>}
    /\ Invalidate
    /\ UNCHANGED <<net, row, calculation, since>>

\* Mutant: an activity is created without its calculated columns.
MutantCommitActivityWithoutRow(a, d) ==
    /\ <<a, d>> \in edits
    /\ edits' = edits \ {<<a, d>>}
    /\ net' = [net EXCEPT !.duration = With(@, a, d)]
    /\ Overtake("edit", {})
    /\ UNCHANGED <<row, cache, calculation>>

CommitActivity(a, d) ==
    /\ <<a, d>> \in edits
    /\ edits' = edits \ {<<a, d>>}
    /\ net' = [net EXCEPT !.duration = With(@, a, d)]
    /\ Overtake("edit", {})
    /\ row' = IF a \in DOMAIN row THEN row ELSE With(row, a, NeverCalculated)
    /\ UNCHANGED <<cache, calculation>>

RollBackActivity(a, d) ==
    /\ <<a, d>> \in edits
    /\ edits' = edits \ {<<a, d>>}
    /\ UNCHANGED <<net, row, cache, calculation, since>>

\* delete_activity() soft-deletes a row that the queries go on returning.
DeleteActivity ==
    /\ Invalidate
    /\ UNCHANGED <<net, row, edits, calculation, since>>

\* create_dependency() and update_dependency() invalidate nothing.
WriteDependency(p, t) ==
    /\ {p[1], p[2]} \subseteq DOMAIN net.duration
    /\ net' = [net EXCEPT !.link = With(@, p, t)]
    /\ Overtake("edit", {})
    /\ UNCHANGED <<row, cache, edits, calculation>>

\* Results expire after CPM_TTL.
Expire(k) ==
    /\ k \in DOMAIN cache
    /\ cache' = Restrict(cache, DOMAIN cache \ {k})
    /\ UNCHANGED <<net, row, edits, calculation, since>>

Calculate(c) ==
    \/ ReadActivities(c)
    \/ ReadDependencies(c)
    \/ AnswerFromCache(c)
    \/ EngineRaises(c)
    \/ CalculateAndSave(c)
    \/ CacheResult(c)
    \/ Leave(c)

Edit ==
    \/ \E u \in Updates :
          \/ FlushActivity(u[1], u[2])
          \/ CommitActivity(u[1], u[2])
          \/ RollBackActivity(u[1], u[2])
    \/ \E p \in Pairs, t \in Terms : WriteDependency(p, t)
    \/ DeleteActivity

Next ==
    \/ \E c \in Calculators : Calculate(c)
    \/ Edit
    \/ \E k \in DOMAIN cache : Expire(k)

Spec == Init /\ [][Next]_vars

-----------------------------------------------------------------------------
TypeOK ==
    /\ net \in Networks
    /\ row \in [DOMAIN net.duration ->
                  [total_float: Int \cup {NoFloat}, is_critical: BOOLEAN]]
    /\ DOMAIN cache \subseteq Networks
    /\ edits \subseteq Updates
    /\ pc \in [Calculators -> {"idle", "reading", "loaded", "saved",
                               "answered", "failed"}]
    /\ read \in [Calculators -> Networks]
    /\ \A c \in Calculators : DOMAIN loaded[c] \subseteq DOMAIN read[c].duration
    /\ since \in [Calculators -> SUBSET {"edit", "save"}]

\* The cache is keyed by the content of the network. Whatever was edited,
\* expired, cached by another calculation or invalidated too early, a
\* calculation answers with the schedule of the network it read.
AnswersAreExact ==
    \A c \in Calculators :
        pc[c] \in {"saved", "answered"} => answer[c] = Schedule[read[c]]

\* The two reads of calculate_schedule() can see different networks and the
\* cache can hold results of old ones, yet a calculation during which no edit
\* commits answers with the schedule of the program as it is, and fails only
\* if the program has none.
AnswersAreCurrent ==
    \A c \in Calculators :
        "edit" \notin since[c] =>
            /\ pc[c] \in {"saved", "answered"} =>
                  net \in DOMAIN Schedule /\ answer[c] = Schedule[net]
            /\ pc[c] = "failed" => net \notin DOMAIN Schedule

\* Only the columns that differ from the loaded ones are written. That leaves
\* the whole answer in the rows, unless another calculation saved meanwhile.
SavedRowsAreTheAnswer ==
    [][ \A c \in Calculators :
          CalculateAndSave(c) /\ "save" \notin since[c] =>
            \A a \in DOMAIN loaded[c] : row'[a] = Schedule[read[c]][a] ]_vars

\* models/activity.py: "is_critical: True if on critical path
\* (total_float = 0)". A row stops agreeing with that only when a calculation
\* saves over the columns another one saved since it loaded them.
FlagsMatchFloats ==
    \A a \in DOMAIN row : row[a].is_critical <=> row[a].total_float = 0

FlagsStayMatched ==
    [][ FlagsMatchFloats /\ ~FlagsMatchFloats' =>
          \E c \in Calculators : CalculateAndSave(c) /\ "save" \in since[c] ]_vars

\* get_critical_path(): "Returns activities on the critical path": once a
\* calculation has answered for the current network, the rows that endpoint
\* selects by total_float = 0 are the ones the answer says are critical.
RowsAgreeWithAnswer ==
    \A c \in Calculators :
        pc[c] = "answered" /\ read[c] = net =>
            \A a \in DOMAIN net.duration :
                row[a].total_float = 0 <=> answer[c][a].is_critical

=============================================================================
