--------------------- MODULE ScheduleCalculationProofs ---------------------
(***************************************************************************)
(* Theorems about ScheduleCalculation, for every program, every engine and *)
(* any number of overlapping calculations.                                 *)
(***************************************************************************)
EXTENDS ScheduleCalculation, TLAPS

DurationMaps == UNION {[A -> Durations] : A \in SUBSET Activities}
LinkMaps == UNION {[L -> Terms] : L \in SUBSET Pairs}
RowColumns == [total_float: Int \cup {NoFloat}, is_critical: BOOLEAN]

LocalsAreFunctions ==
    /\ DOMAIN answer = Calculators /\ answer = [c \in Calculators |-> answer[c]]
    /\ DOMAIN loaded = Calculators /\ loaded = [c \in Calculators |-> loaded[c]]

Typed == TypeOK /\ LocalsAreFunctions

LEMMA NetworksAreRecords ==
    Networks = [duration: DurationMaps, link: LinkMaps]
  BY DEF Networks, DurationMaps, LinkMaps

LEMMA WithDuration ==
    ASSUME NEW f \in DurationMaps, NEW a \in Activities, NEW d \in Durations
    PROVE  With(f, a, d) \in DurationMaps
  <1>1. PICK A \in SUBSET Activities : f \in [A -> Durations]
    BY DEF DurationMaps
  <1>2. With(f, a, d) \in [{a} \cup A -> Durations]
    BY <1>1 DEF With
  <1>3. QED
    BY <1>2 DEF DurationMaps

LEMMA WithLink ==
    ASSUME NEW f \in LinkMaps, NEW p \in Pairs, NEW t \in Terms
    PROVE  With(f, p, t) \in LinkMaps
  <1>1. PICK L \in SUBSET Pairs : f \in [L -> Terms]
    BY DEF LinkMaps
  <1>2. With(f, p, t) \in [{p} \cup L -> Terms]
    BY <1>1 DEF With
  <1>3. QED
    BY <1>2 DEF LinkMaps

LEMMA EmptyIsNetwork == NothingRead \in Networks
  <1>1. Empty \in [{} -> Durations] /\ Empty \in [{} -> Terms]
    BY DEF Empty
  <1>2. Empty \in DurationMaps /\ Empty \in LinkMaps
    BY <1>1 DEF DurationMaps, LinkMaps
  <1>3. QED
    BY <1>2, NetworksAreRecords DEF NothingRead

LEMMA ColumnsOfResult ==
    ASSUME NEW n \in DOMAIN Schedule, NEW a \in DOMAIN n.duration
    PROVE  /\ Schedule[n][a] \in [total_float: Int, is_critical: BOOLEAN]
           /\ Schedule[n][a] =
                [col \in Columns |-> Schedule[n][a][col]]
  BY ScheduleAssumption DEF Result, Columns

\* What a calculation saves is typed whether or not another one came between.
LEMMA SavedColumnsTyped ==
    ASSUME NEW n \in DOMAIN Schedule, NEW a \in DOMAIN n.duration,
           NEW c \in Calculators, read[c] = n, row[a] \in RowColumns
    PROVE  ColumnsAfter(c, a) \in RowColumns
  <1>1. /\ Schedule[n][a].total_float \in Int
        /\ Schedule[n][a].is_critical \in BOOLEAN
    BY ColumnsOfResult
  <1>2. /\ row[a].total_float \in Int \cup {NoFloat}
        /\ row[a].is_critical \in BOOLEAN
    BY DEF RowColumns
  <1>3. ColumnsAfter(c, a) =
          [total_float |-> ColumnsAfter(c, a).total_float,
           is_critical |-> ColumnsAfter(c, a).is_critical]
    BY DEF ColumnsAfter, Columns
  <1>4. /\ ColumnsAfter(c, a).total_float \in
             {Schedule[n][a].total_float, row[a].total_float}
        /\ ColumnsAfter(c, a).is_critical \in
             {Schedule[n][a].is_critical, row[a].is_critical}
    BY DEF ColumnsAfter, Columns
  <1>5. QED
    BY <1>1, <1>2, <1>3, <1>4 DEF RowColumns

LEMMA InitTyped == Init => Typed
  <1> SUFFICES ASSUME Init PROVE Typed
    OBVIOUS
  <1>1. NeverCalculated \in RowColumns
    BY DEF NeverCalculated, RowColumns
  <1>2. DOMAIN Empty = {} /\ DOMAIN NothingRead.duration = {}
    BY DEF Empty, NothingRead
  <1>3. QED
    BY <1>1, <1>2, EmptyIsNetwork
       DEF Init, Typed, TypeOK, LocalsAreFunctions, RowColumns

LEMMA OvertakeTyped ==
    ASSUME Typed, NEW what \in {"edit", "save"}, NEW by, Overtake(what, by)
    PROVE  since' \in [Calculators -> SUBSET {"edit", "save"}]
  BY DEF Overtake, Typed, TypeOK

\* A network is the pair of what the two statements read.
LEMMA NetworkParts ==
    ASSUME NEW n \in Networks
    PROVE  /\ n.duration \in DurationMaps /\ n.link \in LinkMaps
           /\ n = [duration |-> n.duration, link |-> n.link]
  BY NetworksAreRecords

LEMMA ActivitiesRead ==
    ASSUME Typed, NEW c \in Calculators, ReadActivities(c)
    PROVE  /\ read' \in [Calculators -> Networks]
           /\ read'[c].duration = net.duration
           /\ \A d \in Calculators \ {c} : read'[d] = read[d]
  <1>1. read[c] \in Networks /\ net \in Networks
    BY DEF Typed, TypeOK
  <1>2. read' = [read EXCEPT ![c] = [read[c] EXCEPT !.duration = net.duration]]
    BY DEF ReadActivities
  <1>3. [read[c] EXCEPT !.duration = net.duration] =
          [duration |-> net.duration, link |-> read[c].link]
    BY <1>1, NetworkParts
  <1>4. [read[c] EXCEPT !.duration = net.duration] \in Networks
    BY <1>1, <1>3, NetworkParts, NetworksAreRecords
  <1>5. QED
    BY <1>2, <1>3, <1>4 DEF Typed, TypeOK

LEMMA DependenciesRead ==
    ASSUME Typed, NEW c \in Calculators, ReadDependencies(c)
    PROVE  /\ read' \in [Calculators -> Networks]
           /\ read'[c] = [duration |-> read[c].duration, link |-> net.link]
           /\ \A d \in Calculators \ {c} : read'[d] = read[d]
           /\ \A d \in Calculators : read'[d].duration = read[d].duration
  <1>1. read[c] \in Networks /\ net \in Networks
    BY DEF Typed, TypeOK
  <1>2. read' = [read EXCEPT ![c] = [read[c] EXCEPT !.link = net.link]]
    BY DEF ReadDependencies
  <1>3. [read[c] EXCEPT !.link = net.link] =
          [duration |-> read[c].duration, link |-> net.link]
    BY <1>1, NetworkParts
  <1>4. [read[c] EXCEPT !.link = net.link] \in Networks
    BY <1>1, <1>3, NetworkParts, NetworksAreRecords
  <1>5. /\ read'[c] = [duration |-> read[c].duration, link |-> net.link]
        /\ \A d \in Calculators \ {c} : read'[d] = read[d]
    BY <1>2, <1>3 DEF Typed, TypeOK
  <1>6. read'[c].duration = read[c].duration
    BY <1>5
  <1>7. QED
    BY <1>2, <1>4, <1>5, <1>6 DEF Typed, TypeOK

LEMMA NextTyped == Typed /\ [Next]_vars => Typed'
  <1> SUFFICES ASSUME Typed, [Next]_vars PROVE Typed'
    OBVIOUS
  <1> USE DEF Typed, TypeOK, LocalsAreFunctions
  <1>0. /\ net.duration \in DurationMaps /\ net.link \in LinkMaps
        /\ net = [duration |-> net.duration, link |-> net.link]
    BY NetworkParts
  <1>1. ASSUME NEW c \in Calculators, ReadActivities(c) PROVE Typed'
    <2>1. DOMAIN row = DOMAIN net.duration
      OBVIOUS
    <2>2. /\ DOMAIN loaded' = Calculators
          /\ loaded'[c] = row /\ \A d \in Calculators \ {c} : loaded'[d] = loaded[d]
          /\ loaded' = [d \in Calculators |-> loaded'[d]]
      BY <1>1 DEF ReadActivities
    <2>3. \A d \in Calculators : DOMAIN loaded'[d] \subseteq DOMAIN read'[d].duration
      BY <1>1, <2>1, <2>2, ActivitiesRead
    <2>4. QED
      BY <1>1, <2>2, <2>3, ActivitiesRead DEF ReadActivities
  <1>2. ASSUME NEW c \in Calculators, ReadDependencies(c) PROVE Typed'
    BY <1>2, DependenciesRead DEF ReadDependencies
  <1>3. ASSUME NEW c \in Calculators, AnswerFromCache(c) \/ EngineRaises(c)
        PROVE  Typed'
    BY <1>3 DEF AnswerFromCache, EngineRaises, Empty
  <1>4. ASSUME NEW c \in Calculators, CalculateAndSave(c) PROVE Typed'
    <2>1. since' \in [Calculators -> SUBSET {"edit", "save"}]
      BY <1>4, OvertakeTyped DEF CalculateAndSave
    <2>2. row' \in [DOMAIN net.duration -> RowColumns]
      <3> SUFFICES ASSUME NEW a \in DOMAIN row
                   PROVE  /\ a \in DOMAIN loaded[c] =>
                                ColumnsAfter(c, a) \in RowColumns
                          /\ row[a] \in RowColumns
        BY <1>4 DEF CalculateAndSave
      <3>1. row[a] \in RowColumns
        BY DEF RowColumns
      <3>2. ASSUME a \in DOMAIN loaded[c]
            PROVE  ColumnsAfter(c, a) \in RowColumns
        <4>1. a \in DOMAIN read[c].duration /\ read[c] \in DOMAIN Schedule
          BY <1>4, <3>2 DEF CalculateAndSave
        <4>2. QED
          BY <3>1, <4>1, SavedColumnsTyped
      <3>3. QED
        BY <3>1, <3>2
    <2>3. QED
      BY <1>4, <2>1, <2>2 DEF CalculateAndSave, RowColumns, Empty
  <1>5. ASSUME NEW c \in Calculators, CacheResult(c) PROVE Typed'
    <2>1. DOMAIN cache' \subseteq DOMAIN cache \cup {read[c]}
      BY <1>5 DEF CacheResult, With, Key
    <2>2. QED
      BY <1>5, <2>1 DEF CacheResult
  <1>6. ASSUME NEW c \in Calculators, Leave(c) PROVE Typed'
    BY <1>6, EmptyIsNetwork DEF Leave, Empty
  <1>7. ASSUME NEW a, NEW d, <<a, d>> \in Updates,
               FlushActivity(a, d) \/ RollBackActivity(a, d)
        PROVE  Typed'
    BY <1>7 DEF FlushActivity, RollBackActivity, Invalidate, calculation, Empty
  <1>8. ASSUME NEW a, NEW d, <<a, d>> \in Updates, CommitActivity(a, d)
        PROVE  Typed'
    <2>1. since' \in [Calculators -> SUBSET {"edit", "save"}]
      BY <1>8, OvertakeTyped DEF CommitActivity
    <2>2. a \in Activities /\ d \in Durations
      BY <1>8, UpdatesAssumption DEF Durations
    <2>3. net' = [duration |-> With(net.duration, a, d), link |-> net.link]
      BY <1>8, <1>0 DEF CommitActivity
    <2>4. net' \in Networks
      BY <1>0, <2>2, <2>3, WithDuration, NetworksAreRecords
    <2>5. DOMAIN net'.duration = {a} \cup DOMAIN row
      BY <2>3 DEF With
    <2>6. row' \in [DOMAIN net'.duration -> RowColumns]
      <3>1. NeverCalculated \in RowColumns
        BY DEF NeverCalculated, RowColumns
      <3>2. CASE a \in DOMAIN row
        <4>1. row' = row /\ DOMAIN net'.duration = DOMAIN row
          BY <1>8, <2>5, <3>2 DEF CommitActivity
        <4>2. QED
          BY <4>1 DEF RowColumns
      <3>3. CASE a \notin DOMAIN row
        BY <1>8, <2>5, <3>1, <3>3 DEF CommitActivity, With, RowColumns
      <3>4. QED
        BY <3>2, <3>3
    <2>7. QED
      BY <1>8, <2>1, <2>4, <2>6 DEF CommitActivity, calculation, RowColumns
  <1>9. ASSUME NEW p \in Pairs, NEW t \in Terms, WriteDependency(p, t)
        PROVE  Typed'
    <2>1. since' \in [Calculators -> SUBSET {"edit", "save"}]
      BY <1>9, OvertakeTyped DEF WriteDependency
    <2>2. net' = [duration |-> net.duration, link |-> With(net.link, p, t)]
      BY <1>9, <1>0 DEF WriteDependency
    <2>3. net' \in Networks
      BY <1>0, <2>2, WithLink, NetworksAreRecords
    <2>4. QED
      BY <1>9, <2>1, <2>2, <2>3 DEF WriteDependency, calculation
  <1>10. CASE DeleteActivity
    BY <1>10 DEF DeleteActivity, Invalidate, calculation, Empty
  <1>11. ASSUME NEW k \in DOMAIN cache, Expire(k) PROVE Typed'
    BY <1>11 DEF Expire, Restrict, calculation
  <1>12. CASE UNCHANGED vars
    BY <1>12 DEF vars, calculation
  <1>13. QED
    <2>1. \A u \in Updates : u = <<u[1], u[2]>>
      BY UpdatesAssumption
    <2>2. QED
      BY <2>1, <1>1, <1>2, <1>3, <1>4, <1>5, <1>6, <1>7, <1>8, <1>9, <1>10,
         <1>11, <1>12 DEF Next, Calculate, Edit

\* Every state of every program is well typed: the calculated columns belong
\* to the activities there are, and the cache holds results of networks only.
THEOREM TypeCorrect == Spec => []TypeOK
  <1>1. Typed => TypeOK
    BY DEF Typed
  <1>2. QED
    BY <1>1, InitTyped, NextTyped, PTL DEF Spec

-----------------------------------------------------------------------------
(***************************************************************************)
(* The invariant behind the other properties: results are filed under the  *)
(* network they are the schedule of, what a calculation has read is the    *)
(* program as it is until an edit commits, and the columns it has loaded   *)
(* are the committed ones until another calculation saves.                 *)
(***************************************************************************)
CacheIsExact ==
    \A k \in DOMAIN cache : k \in DOMAIN Schedule /\ cache[k] = Schedule[k]

AnswersHold ==
    \A c \in Calculators :
        /\ pc[c] \in {"saved", "answered"} =>
              read[c] \in DOMAIN Schedule /\ answer[c] = Schedule[read[c]]
        /\ pc[c] = "failed" => read[c] \notin DOMAIN Schedule

ReadIsCurrent ==
    \A c \in Calculators :
        "edit" \notin since[c] =>
            /\ pc[c] = "reading" => read[c].duration = net.duration
            /\ pc[c] \notin {"idle", "reading"} => read[c] = net

LoadedIsCurrent ==
    \A c \in Calculators :
        pc[c] \in {"reading", "loaded"} =>
            /\ DOMAIN loaded[c] \subseteq DOMAIN row
            /\ "save" \notin since[c] =>
                  \A a \in DOMAIN loaded[c] : row[a] = loaded[c][a]

IInv == Typed /\ CacheIsExact /\ AnswersHold /\ ReadIsCurrent /\ LoadedIsCurrent

LEMMA InitIInv == Init => IInv
  BY InitTyped DEF Init, IInv, CacheIsExact, AnswersHold, ReadIsCurrent,
                   LoadedIsCurrent, Empty

LEMMA OvertakeTells ==
    ASSUME Typed, NEW what \in {"edit", "save"}, NEW by, Overtake(what, by),
           NEW c \in Calculators
    PROVE  /\ since[c] \subseteq since'[c]
           /\ c \notin by /\ pc[c] # "idle" => what \in since'[c]
  BY DEF Overtake, Typed, TypeOK

LEMMA NextCache == IInv /\ [Next]_vars => CacheIsExact'
  <1> SUFFICES ASSUME IInv, [Next]_vars PROVE CacheIsExact'
    OBVIOUS
  <1> USE DEF IInv, CacheIsExact
  <1>1. ASSUME NEW c \in Calculators, CacheResult(c) PROVE CacheIsExact'
    <2>1. read[c] \in DOMAIN Schedule /\ answer[c] = Schedule[read[c]]
      BY <1>1 DEF CacheResult, AnswersHold
    <2>2. CASE cache' = cache
      BY <2>2
    <2>3. CASE cache' = With(cache, read[c], answer[c])
      BY <2>1, <2>3 DEF With
    <2>4. QED
      BY <1>1, <2>2, <2>3 DEF CacheResult, Key
  <1>2. ASSUME NEW k \in DOMAIN cache, Expire(k) PROVE CacheIsExact'
    BY <1>2 DEF Expire, Restrict
  <1>3. CASE cache' = cache \/ cache' = Empty
    BY <1>3 DEF Empty
  <1>4. QED
    BY <1>1, <1>2, <1>3
       DEF Next, Calculate, Edit, vars, ReadActivities, ReadDependencies,
           AnswerFromCache, EngineRaises, CalculateAndSave, Leave,
           FlushActivity, CommitActivity, RollBackActivity, DeleteActivity,
           WriteDependency, Invalidate

LEMMA NextAnswers == IInv /\ [Next]_vars => AnswersHold'
  <1> SUFFICES ASSUME IInv, [Next]_vars PROVE AnswersHold'
    OBVIOUS
  <1> USE DEF IInv, Typed, LocalsAreFunctions, AnswersHold
  <1>0. DOMAIN pc = Calculators /\ pc = [c \in Calculators |-> pc[c]]
        /\ DOMAIN read = Calculators /\ read = [c \in Calculators |-> read[c]]
    BY DEF TypeOK
  <1>1. ASSUME NEW c \in Calculators, ReadActivities(c) PROVE AnswersHold'
    BY <1>0, <1>1 DEF ReadActivities
  <1>2. ASSUME NEW c \in Calculators, ReadDependencies(c) PROVE AnswersHold'
    BY <1>0, <1>2 DEF ReadDependencies
  <1>3. ASSUME NEW c \in Calculators, AnswerFromCache(c) PROVE AnswersHold'
    BY <1>0, <1>3 DEF AnswerFromCache, Key, CacheIsExact
  <1>4. ASSUME NEW c \in Calculators, EngineRaises(c) PROVE AnswersHold'
    BY <1>0, <1>4 DEF EngineRaises
  <1>5. ASSUME NEW c \in Calculators, CalculateAndSave(c) PROVE AnswersHold'
    BY <1>0, <1>5 DEF CalculateAndSave
  <1>6. ASSUME NEW c \in Calculators, CacheResult(c) PROVE AnswersHold'
    BY <1>0, <1>6 DEF CacheResult
  <1>7. ASSUME NEW c \in Calculators, Leave(c) PROVE AnswersHold'
    BY <1>0, <1>7 DEF Leave
  <1>8. CASE UNCHANGED calculation
    BY <1>8 DEF calculation
  <1>9. QED
    BY <1>1, <1>2, <1>3, <1>4, <1>5, <1>6, <1>7, <1>8
       DEF Next, Calculate, Edit, vars, FlushActivity, CommitActivity,
           RollBackActivity, DeleteActivity, WriteDependency, Expire

LEMMA NextRead == IInv /\ [Next]_vars => ReadIsCurrent'
  <1> SUFFICES ASSUME IInv, [Next]_vars PROVE ReadIsCurrent'
    OBVIOUS
  <1> USE DEF IInv, Typed, ReadIsCurrent
  <1>0. /\ DOMAIN pc = Calculators /\ pc = [c \in Calculators |-> pc[c]]
        /\ DOMAIN since = Calculators /\ since = [c \in Calculators |-> since[c]]
        /\ DOMAIN read = Calculators /\ read = [c \in Calculators |-> read[c]]
    BY DEF TypeOK
  <1>1. ASSUME NEW c \in Calculators, ReadActivities(c) PROVE ReadIsCurrent'
    <2>1. pc' = [pc EXCEPT ![c] = "reading"] /\ since' = since /\ net' = net
      BY <1>1 DEF ReadActivities
    <2>2. /\ read'[c].duration = net.duration
          /\ \A d \in Calculators \ {c} : read'[d] = read[d]
      BY <1>1, ActivitiesRead
    <2>3. QED
      BY <1>0, <2>1, <2>2
  <1>2. ASSUME NEW c \in Calculators, ReadDependencies(c) PROVE ReadIsCurrent'
    <2>1. /\ pc[c] = "reading" /\ pc' = [pc EXCEPT ![c] = "loaded"]
          /\ since' = since /\ net' = net
      BY <1>2 DEF ReadDependencies
    <2>2. /\ read'[c] = [duration |-> read[c].duration, link |-> net.link]
          /\ \A d \in Calculators \ {c} : read'[d] = read[d]
      BY <1>2, DependenciesRead
    <2>3. net = [duration |-> net.duration, link |-> net.link]
      BY NetworkParts DEF TypeOK
    <2>4. "edit" \notin since[c] => read'[c] = net
      BY <2>1, <2>2, <2>3
    <2>5. QED
      BY <1>0, <2>1, <2>2, <2>4
  <1>3. ASSUME NEW c \in Calculators,
               AnswerFromCache(c) \/ EngineRaises(c) \/ CacheResult(c)
        PROVE  ReadIsCurrent'
    BY <1>0, <1>3 DEF AnswerFromCache, EngineRaises, CacheResult
  <1>4. ASSUME NEW c \in Calculators, CalculateAndSave(c) PROVE ReadIsCurrent'
    <2>1. \A d \in Calculators : since[d] \subseteq since'[d]
      BY <1>4, OvertakeTells DEF CalculateAndSave
    <2>2. QED
      BY <1>0, <1>4, <2>1 DEF CalculateAndSave
  <1>5. ASSUME NEW c \in Calculators, Leave(c) PROVE ReadIsCurrent'
    BY <1>0, <1>5 DEF Leave
  <1>6. CASE Overtake("edit", {}) /\ UNCHANGED calculation
    <2>1. \A c \in Calculators : pc[c] # "idle" => "edit" \in since'[c]
      BY <1>6, OvertakeTells
    <2>2. QED
      BY <1>6, <2>1 DEF calculation
  <1>7. CASE UNCHANGED <<net, calculation, since>>
    BY <1>7 DEF calculation
  <1>8. QED
    BY <1>1, <1>2, <1>3, <1>4, <1>5, <1>6, <1>7
       DEF Next, Calculate, Edit, vars, FlushActivity, CommitActivity,
           RollBackActivity, DeleteActivity, WriteDependency, Expire

LEMMA NextLoaded == IInv /\ [Next]_vars => LoadedIsCurrent'
  <1> SUFFICES ASSUME IInv, [Next]_vars PROVE LoadedIsCurrent'
    OBVIOUS
  <1> USE DEF IInv, Typed, LocalsAreFunctions, LoadedIsCurrent
  <1>0. /\ DOMAIN pc = Calculators /\ pc = [c \in Calculators |-> pc[c]]
        /\ DOMAIN since = Calculators /\ since = [c \in Calculators |-> since[c]]
    BY DEF TypeOK
  <1>1. ASSUME NEW c \in Calculators, ReadActivities(c) PROVE LoadedIsCurrent'
    BY <1>0, <1>1 DEF ReadActivities
  <1>2. ASSUME NEW c \in Calculators, ReadDependencies(c)
        PROVE  LoadedIsCurrent'
    BY <1>0, <1>2 DEF ReadDependencies
  <1>3. ASSUME NEW c \in Calculators, AnswerFromCache(c) \/ EngineRaises(c)
        PROVE  LoadedIsCurrent'
    BY <1>0, <1>3 DEF AnswerFromCache, EngineRaises
  <1>4. ASSUME NEW c \in Calculators, CalculateAndSave(c) PROVE LoadedIsCurrent'
    <2>1. \A d \in Calculators \ {c} : pc[d] # "idle" => "save" \in since'[d]
      BY <1>4, OvertakeTells DEF CalculateAndSave
    <2>2. /\ pc' = [pc EXCEPT ![c] = "saved"]
          /\ loaded' = [loaded EXCEPT ![c] = Empty]
          /\ DOMAIN row' = DOMAIN row
      BY <1>4 DEF CalculateAndSave
    <2>3. \A d \in Calculators : pc'[d] \in {"reading", "loaded"} =>
             /\ d # c /\ pc[d] = pc'[d]
             /\ loaded'[d] = loaded[d] /\ "save" \in since'[d]
      BY <1>0, <2>1, <2>2
    <2>4. QED
      BY <2>2, <2>3
  <1>5. ASSUME NEW c \in Calculators, CacheResult(c) \/ Leave(c)
        PROVE  LoadedIsCurrent'
    BY <1>0, <1>5 DEF CacheResult, Leave
  <1>6. ASSUME NEW a, NEW d, CommitActivity(a, d) PROVE LoadedIsCurrent'
    <2>1. \A c \in Calculators : since[c] \subseteq since'[c]
      BY <1>6, OvertakeTells DEF CommitActivity
    <2>2. /\ DOMAIN row \subseteq DOMAIN row'
          /\ \A b \in DOMAIN row : row'[b] = row[b]
      BY <1>6 DEF CommitActivity, With
    <2>3. pc' = pc /\ loaded' = loaded
      BY <1>6 DEF CommitActivity, calculation
    <2>4. QED
      BY <2>1, <2>2, <2>3
  <1>7. ASSUME NEW p, NEW t, WriteDependency(p, t) PROVE LoadedIsCurrent'
    <2>1. \A c \in Calculators : since[c] \subseteq since'[c]
      BY <1>7, OvertakeTells DEF WriteDependency
    <2>2. QED
      BY <1>7, <2>1 DEF WriteDependency, calculation
  <1>8. CASE UNCHANGED <<row, calculation, since>>
    BY <1>8 DEF calculation
  <1>9. QED
    BY <1>1, <1>2, <1>3, <1>4, <1>5, <1>6, <1>7, <1>8
       DEF Next, Calculate, Edit, vars, FlushActivity, RollBackActivity,
           DeleteActivity, Expire

\* The invariant holds in every state, however calculations and edits overlap.
THEOREM Inductive == Spec => []IInv
  <1>1. IInv /\ [Next]_vars => IInv'
    BY NextTyped, NextCache, NextAnswers, NextRead, NextLoaded DEF IInv
  <1>2. QED
    BY <1>1, InitIInv, PTL DEF Spec

-----------------------------------------------------------------------------
\* Whatever is edited, expired or invalidated meanwhile, and whichever
\* calculation filled the cache, a calculation answers with the schedule of
\* the network it read.
THEOREM AnswersExact == Spec => []AnswersAreExact
  <1>1. IInv => AnswersAreExact
    BY DEF IInv, AnswersHold, AnswersAreExact
  <1>2. QED
    BY <1>1, Inductive, PTL

\* A calculation that no edit overtakes answers for the program as it is, and
\* fails only on a program that has no schedule.
THEOREM AnswersCurrent == Spec => []AnswersAreCurrent
  <1>1. IInv => AnswersAreCurrent
    BY DEF IInv, AnswersHold, ReadIsCurrent, AnswersAreCurrent
  <1>2. QED
    BY <1>1, Inductive, PTL

\* The columns that differ from the loaded ones are the ones that differ from
\* the committed ones, when no other calculation has saved since the load.
LEMMA SavedColumns ==
    ASSUME IInv, NEW c \in Calculators, CalculateAndSave(c),
           "save" \notin since[c], NEW a \in DOMAIN loaded[c]
    PROVE  row'[a] = Schedule[read[c]][a]
  <1>1. /\ a \in DOMAIN row /\ row[a] = loaded[c][a]
        /\ a \in DOMAIN read[c].duration /\ read[c] \in DOMAIN Schedule
        /\ row'[a] = ColumnsAfter(c, a)
    BY DEF IInv, Typed, TypeOK, LoadedIsCurrent, CalculateAndSave
  <1>2. ColumnsAfter(c, a) = [col \in Columns |-> Schedule[read[c]][a][col]]
    BY <1>1 DEF ColumnsAfter, Changed
  <1>3. QED
    BY <1>1, <1>2, ColumnsOfResult

\* A calculation that no other save overtakes leaves its whole answer in the
\* activity rows, although it writes only what changed and edits go on.
THEOREM SavedRows == Spec => SavedRowsAreTheAnswer
  <1>1. IInv /\ [Next]_vars =>
          [ \A c \in Calculators :
              CalculateAndSave(c) /\ "save" \notin since[c] =>
                \A a \in DOMAIN loaded[c] :
                   row'[a] = Schedule[read[c]][a] ]_vars
    BY SavedColumns
  <1>2. QED
    BY <1>1, Inductive, PTL DEF SavedRowsAreTheAnswer, Spec

LEMMA FlagsKept ==
    ASSUME IInv, [Next]_vars, FlagsMatchFloats,
           \A c \in Calculators : CalculateAndSave(c) => "save" \notin since[c]
    PROVE  FlagsMatchFloats'
  <1>1. ASSUME NEW c \in Calculators, CalculateAndSave(c)
        PROVE  FlagsMatchFloats'
    <2>1. /\ DOMAIN row' = DOMAIN row
          /\ \A a \in DOMAIN row \ DOMAIN loaded[c] : row'[a] = row[a]
          /\ read[c] \in DOMAIN Schedule
          /\ DOMAIN loaded[c] \subseteq DOMAIN read[c].duration
      BY <1>1 DEF CalculateAndSave, IInv, Typed, TypeOK
    <2>2. \A a \in DOMAIN loaded[c] : row'[a] = Schedule[read[c]][a]
      BY <1>1, SavedColumns
    <2>3. \A a \in DOMAIN loaded[c] :
             row'[a].is_critical <=> row'[a].total_float = 0
      BY <2>1, <2>2, EngineAssumption
    <2>4. QED
      BY <2>1, <2>3 DEF FlagsMatchFloats
  <1>2. ASSUME NEW a, NEW d, CommitActivity(a, d) PROVE FlagsMatchFloats'
    <2>1. /\ DOMAIN row' \subseteq {a} \cup DOMAIN row
          /\ \A x \in DOMAIN row' :
                row'[x] = IF x \in DOMAIN row THEN row[x] ELSE NeverCalculated
      BY <1>2 DEF CommitActivity, With
    <2>2. NeverCalculated.is_critical <=> NeverCalculated.total_float = 0
      BY NoFloatAssumption DEF NeverCalculated
    <2>3. QED
      BY <2>1, <2>2 DEF FlagsMatchFloats
  <1>3. CASE row' = row
    BY <1>3 DEF FlagsMatchFloats
  <1>4. QED
    BY <1>1, <1>2, <1>3
       DEF Next, Calculate, Edit, vars, ReadActivities, ReadDependencies,
           AnswerFromCache, EngineRaises, CacheResult, Leave, FlushActivity,
           RollBackActivity, DeleteActivity, WriteDependency, Expire

\* is_critical and total_float of a row come to disagree only by a calculation
\* that saves after another one saved what it had loaded.
THEOREM FlagsStay == Spec => FlagsStayMatched
  <1>1. IInv /\ [Next]_vars =>
          [ FlagsMatchFloats /\ ~FlagsMatchFloats' =>
              \E c \in Calculators :
                 CalculateAndSave(c) /\ "save" \in since[c] ]_vars
    BY FlagsKept
  <1>2. QED
    BY <1>1, Inductive, PTL DEF FlagsStayMatched, Spec
\* Where the calculations of a program are serialised, whatever is edited
\* meanwhile, every row's flag agrees with its float.
THEOREM SerialCalculationsKeepFlags ==
    ASSUME NEW s, Calculators = {s}
    PROVE  Spec => []FlagsMatchFloats
  <1> DEFINE Alone == "save" \notin since[s]
  <1>1. Init => FlagsMatchFloats /\ Alone
    BY NoFloatAssumption DEF Init, FlagsMatchFloats, NeverCalculated
  <1>2. ASSUME IInv, Alone, [Next]_vars PROVE Alone'
    <2>1. since \in [Calculators -> SUBSET {"edit", "save"}]
      BY <1>2 DEF IInv, Typed, TypeOK
    <2>2. ASSUME Calculate(s) PROVE Alone'
      BY <1>2, <2>1, <2>2
         DEF Calculate, ReadActivities, ReadDependencies, AnswerFromCache,
             EngineRaises, CalculateAndSave, CacheResult, Leave, Overtake
    <2>3. ASSUME Edit PROVE Alone'
      <3>1. since' = since \/ Overtake("edit", {})
        BY <2>3
           DEF Edit, FlushActivity, CommitActivity, RollBackActivity,
               WriteDependency, DeleteActivity
      <3>2. QED
        BY <1>2, <2>1, <3>1 DEF Overtake
    <2>4. QED
      BY <1>2, <2>2, <2>3 DEF Next, Expire, vars
  <1>3. IInv /\ Alone /\ [Next]_vars => Alone'
    BY <1>2
  <1>4. [ FlagsMatchFloats /\ ~FlagsMatchFloats' =>
            \E c \in Calculators : CalculateAndSave(c) /\ "save" \in since[c] ]_vars
        /\ Alone /\ FlagsMatchFloats => FlagsMatchFloats'
    BY DEF FlagsMatchFloats, vars
  <1> HIDE DEF Alone
  <1>5. QED
    BY <1>1, <1>3, <1>4, Inductive, FlagsStay, PTL DEF Spec, FlagsStayMatched

=============================================================================
