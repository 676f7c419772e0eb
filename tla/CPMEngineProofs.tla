-------------------------- MODULE CPMEngineProofs --------------------------
(***************************************************************************)
(* Theorems about CPMEngine, for every network: any finite set of          *)
(* activities, any durations, leads, lags and mixture of dependency types, *)
(* and any topological order the two passes may follow.                    *)
(***************************************************************************)
EXTENDS CPMEngine, FiniteSetTheorems, WellFoundedInduction, TLAPS

\* What TypeOK says of one activity and of one link of the network.
LEMMA NetworkType ==
    ASSUME TypeOK
    PROVE  /\ \A a \in Activities : duration[a] \in Nat
           /\ \A e \in links : lag[e] \in Int
           /\ \A e \in links : dependencyType[e] \in {"FS", "SS", "FF", "SF"}
  <1>1. ASSUME NEW a \in Activities PROVE duration[a] \in Nat
    <2>1. duration[a] \in Durations
      BY <1>1 DEF TypeOK
    <2>2. QED
      BY <2>1, DurationsAssumption
  <1>2. ASSUME NEW e \in links PROVE lag[e] \in Int
    <2>1. lag[e] \in Lags
      BY <1>2 DEF TypeOK
    <2>2. QED
      BY <2>1, LagsAssumption
  <1>3. ASSUME NEW e \in links
        PROVE  dependencyType[e] \in {"FS", "SS", "FF", "SF"}
    BY <1>3 DEF TypeOK, DependencyType
  <1>4. QED
    BY <1>1, <1>2, <1>3

LEMMA StartAfterType ==
    ASSUME TypeOK, NEW p \in Activities, NEW a \in Activities,
           <<p, a>> \in links
    PROVE  StartAfter(p, a) \in Int
  <1>1. /\ dependencyType[<<p, a>>] \in {"FS", "SS", "FF", "SF"}
        /\ lag[<<p, a>>] \in Int
        /\ duration[a] \in Int
    BY NetworkType
  <1>2. early_start[p] \in Int /\ early_finish[p] \in Int
    BY DEF TypeOK
  <1>3. QED
    BY <1>1, <1>2 DEF StartAfter

LEMMA FinishBeforeType ==
    ASSUME TypeOK, NEW a \in Activities, NEW s \in Activities,
           <<a, s>> \in links
    PROVE  FinishBefore(a, s) \in Int
  <1>1. /\ dependencyType[<<a, s>>] \in {"FS", "SS", "FF", "SF"}
        /\ lag[<<a, s>>] \in Int
        /\ duration[a] \in Int
    BY NetworkType
  <1>2. late_start[s] \in Int /\ late_finish[s] \in Int
    BY DEF TypeOK
  <1>3. QED
    BY <1>1, <1>2 DEF FinishBefore

(***************************************************************************)
(* A nonempty set of naturals has a least element; so does a nonempty set  *)
(* of integers that is bounded below.                                      *)
(***************************************************************************)
LEMMA NatMin ==
    ASSUME NEW S, S \subseteq Nat, S # {}
    PROVE  \E m \in S : IsMin(m, S)
  <1> DEFINE R == OpToRel(<, Nat)
  <1>1. \A x, y \in Nat : <<x, y>> \in R <=> x < y
    BY DEF OpToRel
  <1>2. IsWellFoundedOn(R, Nat)
    BY NatLessThanWellFounded
  <1>3. PICK m \in S : \A y \in S : ~(<<y, m>> \in R)
    <2> HIDE DEF R
    <2>1. QED
      BY <1>2, WFMin
  <1>4. ASSUME NEW y \in S
        PROVE  m <= y
    <2> HIDE DEF R
    <2>1. y \in Nat /\ m \in Nat /\ ~(<<y, m>> \in R)
      BY <1>3
    <2>2. ~(y < m)
      BY <1>1, <2>1
    <2>3. QED
      BY <2>1, <2>2
  <1>5. QED
    BY <1>3, <1>4 DEF IsMin

\* The greatest early finish is unique: it is the project duration.
LEMMA ProjectDurationUnique ==
    ASSUME TypeOK, NEW end, IsProjectDuration(end)
    PROVE  ProjectDuration = end
  <1> DEFINE finishes == {early_finish[a] : a \in Activities}
  <1>1. finishes \subseteq Int
    BY DEF TypeOK
  <1>2. \A e : IsProjectDuration(e) => e \in finishes /\ \A x \in finishes : x <= e
    BY DEF IsProjectDuration, IsMax
  <1>3. ProjectDuration = CHOOSE e \in finishes : IsProjectDuration(e)
    BY DEF ProjectDuration
  <1> HIDE DEF finishes
  <1>4. ASSUME NEW e \in finishes, IsProjectDuration(e)
        PROVE  e = end
    <2>1. e \in Int /\ end \in Int /\ e <= end /\ end <= e
      BY <1>1, <1>2, <1>4
    <2>2. QED
      BY <2>1
  <1>5. QED
    BY <1>2, <1>3, <1>4

(***************************************************************************)
(* The four dependency types are start-to-start distances: what a link     *)
(* asks of a schedule, and the limits the two passes derive from it, agree.*)
(***************************************************************************)
LEMMA HonoursEarly ==
    ASSUME TypeOK, NEW p \in Activities, NEW a \in Activities,
           <<p, a>> \in links,
           early_finish[p] = early_start[p] + duration[p]
    PROVE  Honours(early_start, p, a) <=> StartAfter(p, a) <= early_start[a]
  <1>1. /\ dependencyType[<<p, a>>] \in {"FS", "SS", "FF", "SF"}
        /\ lag[<<p, a>>] \in Int
        /\ duration[a] \in Int /\ duration[p] \in Int
    BY NetworkType
  <1>2. /\ early_start[p] \in Int /\ early_finish[p] \in Int
        /\ early_start[a] \in Int
    BY DEF TypeOK
  <1>3. CASE dependencyType[<<p, a>>] = "FS"
    BY <1>1, <1>2, <1>3 DEF StartAfter, Honours
  <1>4. CASE dependencyType[<<p, a>>] = "SS"
    BY <1>1, <1>2, <1>4 DEF StartAfter, Honours
  <1>5. CASE dependencyType[<<p, a>>] = "FF"
    BY <1>1, <1>2, <1>5 DEF StartAfter, Honours
  <1>6. CASE dependencyType[<<p, a>>] = "SF"
    BY <1>1, <1>2, <1>6 DEF StartAfter, Honours
  <1>7. QED
    BY <1>1, <1>3, <1>4, <1>5, <1>6

LEMMA HonoursLate ==
    ASSUME TypeOK, NEW a \in Activities, NEW s \in Activities,
           <<a, s>> \in links,
           late_finish[a] = late_start[a] + duration[a],
           late_finish[s] = late_start[s] + duration[s]
    PROVE  Honours(late_start, a, s) <=> late_finish[a] <= FinishBefore(a, s)
  <1>1. /\ dependencyType[<<a, s>>] \in {"FS", "SS", "FF", "SF"}
        /\ lag[<<a, s>>] \in Int
        /\ duration[a] \in Int /\ duration[s] \in Int
    BY NetworkType
  <1>2. /\ late_start[a] \in Int /\ late_finish[a] \in Int
        /\ late_start[s] \in Int /\ late_finish[s] \in Int
    BY DEF TypeOK
  <1>3. CASE dependencyType[<<a, s>>] = "FS"
    BY <1>1, <1>2, <1>3 DEF FinishBefore, Honours
  <1>4. CASE dependencyType[<<a, s>>] = "SS"
    BY <1>1, <1>2, <1>4 DEF FinishBefore, Honours
  <1>5. CASE dependencyType[<<a, s>>] = "FF"
    BY <1>1, <1>2, <1>5 DEF FinishBefore, Honours
  <1>6. CASE dependencyType[<<a, s>>] = "SF"
    BY <1>1, <1>2, <1>6 DEF FinishBefore, Honours
  <1>7. QED
    BY <1>1, <1>3, <1>4, <1>5, <1>6

\* A schedule that honours a link and starts its predecessor no earlier than
\* the early start satisfies the limit the forward pass takes from the link.
LEMMA LimitIsNecessary ==
    ASSUME TypeOK, NEW p \in Activities, NEW a \in Activities,
           <<p, a>> \in links,
           NEW start \in [Activities -> Int],
           early_finish[p] = early_start[p] + duration[p],
           early_start[p] <= start[p], Honours(start, p, a)
    PROVE  StartAfter(p, a) <= start[a]
  <1>1. /\ dependencyType[<<p, a>>] \in {"FS", "SS", "FF", "SF"}
        /\ lag[<<p, a>>] \in Int
        /\ duration[a] \in Int /\ duration[p] \in Int
    BY NetworkType
  <1>2. /\ early_start[p] \in Int /\ early_finish[p] \in Int
        /\ start[p] \in Int /\ start[a] \in Int
    BY DEF TypeOK
  <1>3. CASE dependencyType[<<p, a>>] = "FS"
    BY <1>1, <1>2, <1>3 DEF StartAfter, Honours
  <1>4. CASE dependencyType[<<p, a>>] = "SS"
    BY <1>1, <1>2, <1>4 DEF StartAfter, Honours
  <1>5. CASE dependencyType[<<p, a>>] = "FF"
    BY <1>1, <1>2, <1>5 DEF StartAfter, Honours
  <1>6. CASE dependencyType[<<p, a>>] = "SF"
    BY <1>1, <1>2, <1>6 DEF StartAfter, Honours
  <1>7. QED
    BY <1>1, <1>3, <1>4, <1>5, <1>6

\* Dually: a schedule that honours a link and starts its successor no later
\* than the late start satisfies the limit of the backward pass.
LEMMA LateLimitIsNecessary ==
    ASSUME TypeOK, NEW a \in Activities, NEW s \in Activities,
           <<a, s>> \in links,
           NEW start \in [Activities -> Int],
           late_finish[s] = late_start[s] + duration[s],
           start[s] <= late_start[s], Honours(start, a, s)
    PROVE  start[a] + duration[a] <= FinishBefore(a, s)
  <1>1. /\ dependencyType[<<a, s>>] \in {"FS", "SS", "FF", "SF"}
        /\ lag[<<a, s>>] \in Int
        /\ duration[a] \in Int /\ duration[s] \in Int
    BY NetworkType
  <1>2. /\ late_start[s] \in Int /\ late_finish[s] \in Int
        /\ start[a] \in Int /\ start[s] \in Int
    BY DEF TypeOK
  <1>3. CASE dependencyType[<<a, s>>] = "FS"
    BY <1>1, <1>2, <1>3 DEF FinishBefore, Honours
  <1>4. CASE dependencyType[<<a, s>>] = "SS"
    BY <1>1, <1>2, <1>4 DEF FinishBefore, Honours
  <1>5. CASE dependencyType[<<a, s>>] = "FF"
    BY <1>1, <1>2, <1>5 DEF FinishBefore, Honours
  <1>6. CASE dependencyType[<<a, s>>] = "SF"
    BY <1>1, <1>2, <1>6 DEF FinishBefore, Honours
  <1>7. QED
    BY <1>1, <1>3, <1>4, <1>5, <1>6

-----------------------------------------------------------------------------
(***************************************************************************)
(* The inductive invariant. TypeOK, feasibility and minimality of the      *)
(* dates are not inductive on their own: a pass needs to know that the     *)
(* activities it has visited are closed under the links it follows and     *)
(* that their dates are final, and the backward pass that late dates never *)
(* fall below the early ones.                                              *)
(***************************************************************************)
EarlyDone ==
    {a \in Activities : \/ phase \in {"backward", "done"}
                        \/ phase = "forward" /\ a \notin pending}

LateDone ==
    {a \in Activities : \/ phase = "done"
                        \/ phase = "backward" /\ a \notin pending}

EarlyInv ==
    \A a \in EarlyDone :
        /\ Predecessors(a) \subseteq EarlyDone
        /\ 0 <= early_start[a]
        /\ early_finish[a] = early_start[a] + duration[a]
        /\ \A p \in Predecessors(a) : StartAfter(p, a) <= early_start[a]

LeastInv ==
    \A start \in Schedules :
        Feasible(start) => \A a \in EarlyDone : early_start[a] <= start[a]

LateInv ==
    phase \in {"backward", "done"} =>
        \E end \in Int :
            /\ IsProjectDuration(end)
            /\ \A a \in Activities :
                  /\ early_start[a] <= late_start[a]
                  /\ late_finish[a] = late_start[a] + duration[a]
                  /\ late_finish[a] <= end
                  /\ a \notin LateDone => late_finish[a] = end
            /\ \A a \in LateDone :
                  /\ Successors(a) \subseteq LateDone
                  /\ \A s \in Successors(a) :
                        late_finish[a] <= FinishBefore(a, s)

GreatestInv ==
    phase \in {"backward", "done"} =>
        \A start \in Schedules :
            Feasible(start) /\ FinishesBy(start, ProjectDuration)
                => \A a \in Activities : start[a] <= late_start[a]

FloatInv ==
    phase = "done" =>
        \A a \in Activities :
            /\ total_float[a] = late_start[a] - early_start[a]
            /\ free_float[a] >= 0

IInv == TypeOK /\ EarlyInv /\ LeastInv /\ LateInv /\ GreatestInv /\ FloatInv

\* What the network asks of a schedule stays what it is while a pass runs.
LEMMA FeasibleKept ==
    ASSUME UNCHANGED network, NEW start
    PROVE  Feasible(start)' <=> Feasible(start)
  BY DEF network, Feasible, Honours

LEMMA InitIInv == Init => IInv
  <1> SUFFICES ASSUME Init PROVE IInv
    OBVIOUS
  <1>1. TypeOK
    BY DEF Init, TypeOK, Zeros
  <1>2. EarlyDone = {} /\ phase = "created"
    BY DEF Init, EarlyDone
  <1>3. QED
    BY <1>1, <1>2 DEF IInv, EarlyInv, LeastInv, LateInv, GreatestInv, FloatInv

-----------------------------------------------------------------------------
(* One lemma per action.                                                   *)

LEMMA StartForwardPassIInv == IInv /\ StartForwardPass => IInv'
  <1> SUFFICES ASSUME IInv, StartForwardPass PROVE IInv'
    OBVIOUS
  <1> USE DEF StartForwardPass, network
  <1>1. TypeOK'
    <2>1. early_finish' \in [Activities -> Int]
      <3>1. \A a \in Activities : duration[a] \in Int
        BY NetworkType DEF IInv
      <3>2. duration \in [Activities -> Durations] /\ early_finish' = duration
        BY DEF IInv, TypeOK
      <3>3. QED
        BY <3>1, <3>2
    <2>2. QED
      BY <2>1 DEF IInv, TypeOK
  <1>2. EarlyDone' = {} /\ phase' = "forward"
    BY DEF EarlyDone
  <1>3. QED
    BY <1>1, <1>2 DEF IInv, EarlyInv, LeastInv, LateInv, GreatestInv, FloatInv

LEMMA RejectCycleIInv == IInv /\ RejectCycle => IInv'
  <1> SUFFICES ASSUME IInv, RejectCycle PROVE IInv'
    OBVIOUS
  <1> USE DEF RejectCycle, network, results
  <1>1. TypeOK'
    BY DEF IInv, TypeOK
  <1>2. EarlyDone' = {} /\ phase' = "circular"
    BY DEF EarlyDone
  <1>3. QED
    BY <1>1, <1>2 DEF IInv, EarlyInv, LeastInv, LateInv, GreatestInv, FloatInv

LEMMA ForwardVisitIInv ==
    ASSUME IInv, NEW a \in Activities, ForwardVisit(a)
    PROVE  IInv'
  <1> DEFINE limits == {0} \cup {StartAfter(p, a) : p \in Predecessors(a)}
  <1>1. PICK es \in limits :
            /\ IsMax(es, limits)
            /\ early_start' = [early_start EXCEPT ![a] = es]
            /\ early_finish' = [early_finish EXCEPT ![a] = es + duration[a]]
    BY DEF ForwardVisit
  <1>2. /\ phase = "forward" /\ phase' = "forward"
        /\ a \in pending /\ pending' = pending \ {a}
        /\ Predecessors(a) \cap pending = {}
        /\ UNCHANGED <<duration, links, dependencyType, lag>>
        /\ UNCHANGED <<late_start, late_finish, total_float, free_float>>
    BY DEF ForwardVisit, network
  <1>3. TypeOK /\ EarlyInv /\ LeastInv
    BY DEF IInv
  <1>4. es \in Int /\ 0 <= es /\ duration[a] \in Nat
    <2>1. \A p \in Predecessors(a) : StartAfter(p, a) \in Int
      BY <1>3, StartAfterType DEF Predecessors
    <2>2. limits \subseteq Int /\ 0 \in limits
      BY <2>1
    <2>3. QED
      BY <1>1, <1>3, <2>2, NetworkType DEF IsMax
  <1>5. TypeOK'
    <2>1. /\ early_start' \in [Activities -> Int]
          /\ early_finish' \in [Activities -> Int]
      BY <1>1, <1>3, <1>4 DEF TypeOK
    <2>2. QED
      BY <1>2, <1>3, <2>1 DEF TypeOK
  <1>6. /\ EarlyDone' = EarlyDone \cup {a}
        /\ a \notin EarlyDone
        /\ Predecessors(a) \subseteq EarlyDone
    BY <1>2 DEF EarlyDone, Predecessors
  <1>7. \A b \in Activities : Predecessors(b)' = Predecessors(b)
    BY <1>2 DEF Predecessors
  <1>8. \A p \in EarlyDone :
           early_start'[p] = early_start[p] /\ early_finish'[p] = early_finish[p]
    BY <1>1, <1>3, <1>6 DEF TypeOK, EarlyDone
  <1>9. \A b \in Activities : \A p \in EarlyDone :
           StartAfter(p, b)' = StartAfter(p, b)
    BY <1>2, <1>8 DEF StartAfter
  <1>10. early_start'[a] = es /\ early_finish'[a] = es + duration[a]
    BY <1>1, <1>3 DEF TypeOK
  <1>11. EarlyInv'
    <2> SUFFICES ASSUME NEW b \in EarlyDone'
                 PROVE  /\ Predecessors(b)' \subseteq EarlyDone'
                        /\ 0 <= early_start'[b]
                        /\ early_finish'[b] = early_start'[b] + duration'[b]
                        /\ \A p \in Predecessors(b)' :
                              StartAfter(p, b)' <= early_start'[b]
      BY DEF EarlyInv
    <2>1. b \in Activities
      BY DEF EarlyDone
    <2>2. CASE b = a
      <3>1. \A p \in Predecessors(a) : StartAfter(p, a) <= es
        BY <1>1 DEF IsMax
      <3>2. QED
        BY <1>2, <1>4, <1>6, <1>7, <1>9, <1>10, <2>2, <3>1
    <2>3. CASE b # a
      <3>1. b \in EarlyDone
        BY <1>6, <2>3
      <3>2. QED
        BY <1>2, <1>3, <1>6, <1>7, <1>8, <1>9, <2>1, <3>1 DEF EarlyInv
    <2>4. QED
      BY <2>2, <2>3
  <1>12. LeastInv'
    <2> SUFFICES ASSUME NEW start \in Schedules, Feasible(start)',
                        NEW b \in EarlyDone'
                 PROVE  early_start'[b] <= start[b]
      BY DEF LeastInv, Schedules
    <2>1. Feasible(start)
      BY <1>2 DEF Feasible, Honours
    <2>2. start \in [Activities -> Int]
      BY DaysAssumption DEF Schedules
    <2>3. CASE b = a
      <3>1. ASSUME NEW p \in Predecessors(a)
            PROVE  StartAfter(p, a) <= start[a]
        <4>1. p \in EarlyDone /\ p \in Activities /\ <<p, a>> \in links
          BY <1>6 DEF Predecessors
        <4>2. early_start[p] <= start[p]
          BY <1>3, <2>1, <4>1 DEF LeastInv
        <4>3. early_finish[p] = early_start[p] + duration[p]
          BY <1>3, <4>1 DEF EarlyInv
        <4>4. Honours(start, p, a)
          BY <2>1, <4>1 DEF Feasible
        <4>5. QED
          BY <1>3, <2>2, <4>1, <4>2, <4>3, <4>4, LimitIsNecessary
      <3>2. 0 <= start[a]
        BY <2>1 DEF Feasible
      <3>3. es <= start[a]
        BY <1>1, <3>1, <3>2
      <3>4. QED
        BY <1>10, <2>3, <3>3
    <2>4. CASE b # a
      <3>1. b \in EarlyDone
        BY <1>6, <2>4
      <3>2. QED
        BY <1>3, <1>8, <2>1, <3>1 DEF LeastInv
    <2>5. QED
      BY <2>3, <2>4
  <1>13. LateInv' /\ GreatestInv' /\ FloatInv'
    BY <1>2 DEF LateInv, GreatestInv, FloatInv
  <1>14. QED
    BY <1>5, <1>11, <1>12, <1>13 DEF IInv

LEMMA StartBackwardPassIInv == IInv /\ StartBackwardPass => IInv'
  <1> SUFFICES ASSUME IInv, StartBackwardPass PROVE IInv'
    OBVIOUS
  <1>1. PICK end \in {early_finish[a] : a \in Activities} :
            /\ IsProjectDuration(end)
            /\ late_finish' = [a \in Activities |-> end]
            /\ late_start' = [a \in Activities |-> end - duration[a]]
    BY DEF StartBackwardPass, IsProjectDuration
  <1>2. /\ phase = "forward" /\ pending = {}
        /\ phase' = "backward" /\ pending' = Activities
        /\ UNCHANGED <<duration, links, dependencyType, lag>>
        /\ UNCHANGED <<early_start, early_finish, total_float, free_float>>
    BY DEF StartBackwardPass, network
  <1>3. TypeOK /\ EarlyInv /\ LeastInv
    BY DEF IInv
  <1>4. end \in Int
    BY <1>3 DEF TypeOK
  <1>5. \A a \in Activities : duration[a] \in Int
    BY <1>3, NetworkType
  <1>6. TypeOK'
    <2>1. /\ late_finish' \in [Activities -> Int]
          /\ late_start' \in [Activities -> Int]
      BY <1>1, <1>4, <1>5
    <2>2. QED
      BY <1>2, <1>3, <2>1 DEF TypeOK
  <1>7. EarlyDone' = Activities /\ EarlyDone = Activities /\ LateDone' = {}
    BY <1>2 DEF EarlyDone, LateDone
  <1>8. EarlyInv'
    BY <1>2, <1>3, <1>7 DEF EarlyInv, Predecessors, StartAfter
  <1>9. LeastInv'
    <2>1. UNCHANGED network
      BY <1>2 DEF network
    <2>2. QED
      BY <1>2, <1>3, <1>7, <2>1, FeasibleKept DEF LeastInv, Schedules
  <1>10. IsProjectDuration(end)' /\ ProjectDuration' = end
    <2>1. IsProjectDuration(end)'
      BY <1>1, <1>2 DEF IsProjectDuration
    <2>2. ProjectDuration = end
      BY <1>1, <1>3, ProjectDurationUnique
    <2>3. ProjectDuration' = ProjectDuration
      BY <1>2 DEF ProjectDuration, IsProjectDuration
    <2>4. QED
      BY <2>1, <2>2, <2>3
  <1>11. LateInv'
    <2>1. ASSUME NEW a \in Activities
          PROVE  /\ early_start'[a] <= late_start'[a]
                 /\ late_finish'[a] = late_start'[a] + duration'[a]
                 /\ late_finish'[a] = end
      <3>1. early_finish[a] <= end
        BY <1>1 DEF IsProjectDuration, IsMax
      <3>2. early_finish[a] = early_start[a] + duration[a]
        BY <1>3, <1>7 DEF EarlyInv
      <3>3. late_finish'[a] = end /\ late_start'[a] = end - duration[a]
        BY <1>1
      <3>4. early_start[a] \in Int /\ duration[a] \in Int
        BY <1>3, <1>5 DEF TypeOK
      <3>5. QED
        BY <1>2, <1>4, <3>1, <3>2, <3>3, <3>4
    <2>2. QED
      BY <1>4, <1>7, <1>10, <2>1 DEF LateInv
  <1>12. GreatestInv'
    <2> SUFFICES ASSUME NEW start \in Schedules, FinishesBy(start, end)',
                        NEW a \in Activities
                 PROVE  start[a] <= late_start'[a]
      BY <1>10 DEF GreatestInv, Schedules
    <2>1. start[a] + duration[a] <= end
      BY <1>2 DEF FinishesBy
    <2>2. start[a] \in Int
      BY DaysAssumption DEF Schedules
    <2>3. QED
      BY <1>1, <1>4, <1>5, <2>1, <2>2
  <1>13. FloatInv'
    BY <1>2 DEF FloatInv
  <1>14. QED
    BY <1>6, <1>8, <1>9, <1>11, <1>12, <1>13 DEF IInv

LEMMA BackwardVisitIInv ==
    ASSUME IInv, NEW a \in Activities, BackwardVisit(a)
    PROVE  IInv'
  <1> DEFINE limits == {late_finish[a]}
                         \cup {FinishBefore(a, s) : s \in Successors(a)}
  <1>1. PICK lf \in limits :
            /\ IsMin(lf, limits)
            /\ late_finish' = [late_finish EXCEPT ![a] = lf]
            /\ late_start' = [late_start EXCEPT ![a] = lf - duration[a]]
    BY DEF BackwardVisit
  <1>2. /\ phase = "backward" /\ phase' = "backward"
        /\ a \in pending /\ pending' = pending \ {a}
        /\ Successors(a) \cap pending = {}
        /\ UNCHANGED <<duration, links, dependencyType, lag>>
        /\ UNCHANGED <<early_start, early_finish, total_float, free_float>>
    BY DEF BackwardVisit, network
  <1>3. TypeOK /\ EarlyInv /\ LeastInv /\ LateInv /\ GreatestInv
    BY DEF IInv
  <1>4. /\ lf \in Int /\ duration[a] \in Int
        /\ early_start[a] \in Int /\ late_finish[a] \in Int
    <2>1. \A s \in Successors(a) : FinishBefore(a, s) \in Int
      BY <1>3, FinishBeforeType DEF Successors
    <2>2. /\ duration[a] \in Int /\ early_start[a] \in Int
          /\ late_finish[a] \in Int
      BY <1>3, NetworkType DEF TypeOK
    <2>3. QED
      BY <1>1, <2>1, <2>2
  <1>5. TypeOK'
    <2>1. /\ late_finish' \in [Activities -> Int]
          /\ late_start' \in [Activities -> Int]
      BY <1>1, <1>3, <1>4 DEF TypeOK
    <2>2. QED
      BY <1>2, <1>3, <2>1 DEF TypeOK
  <1>6. /\ EarlyDone' = Activities /\ EarlyDone = Activities
        /\ LateDone' = LateDone \cup {a} /\ a \notin LateDone
        /\ Successors(a) \subseteq LateDone
    BY <1>2 DEF EarlyDone, LateDone, Successors
  <1>7. EarlyInv'
    BY <1>2, <1>3, <1>6 DEF EarlyInv, Predecessors, StartAfter
  <1>8. LeastInv'
    <2>1. UNCHANGED network
      BY <1>2 DEF network
    <2>2. QED
      BY <1>2, <1>3, <1>6, <2>1, FeasibleKept DEF LeastInv, Schedules
  <1>9. PICK end \in Int :
            /\ IsProjectDuration(end)
            /\ \A b \in Activities :
                  /\ early_start[b] <= late_start[b]
                  /\ late_finish[b] = late_start[b] + duration[b]
                  /\ late_finish[b] <= end
                  /\ b \notin LateDone => late_finish[b] = end
            /\ \A b \in LateDone :
                  /\ Successors(b) \subseteq LateDone
                  /\ \A s \in Successors(b) : late_finish[b] <= FinishBefore(b, s)
    BY <1>2, <1>3 DEF LateInv
  <1>10. /\ lf <= end
         /\ \A s \in Successors(a) : lf <= FinishBefore(a, s)
    <2>1. late_finish[a] = end
      BY <1>6, <1>9
    <2>2. \A x \in limits : lf <= x
      BY <1>1 DEF IsMin
    <2>3. QED
      BY <2>1, <2>2
  <1>11. \A s \in LateDone : late_start'[s] = late_start[s]
                             /\ late_finish'[s] = late_finish[s]
    BY <1>1, <1>3, <1>6 DEF TypeOK, LateDone
  <1>12. late_finish'[a] = lf /\ late_start'[a] = lf - duration[a]
    BY <1>1, <1>3 DEF TypeOK
  <1>13. \A b \in Activities : Successors(b)' = Successors(b)
    BY <1>2 DEF Successors
  <1>14. \A b \in Activities : \A s \in LateDone :
            FinishBefore(b, s)' = FinishBefore(b, s)
    BY <1>2, <1>11 DEF FinishBefore
  <1>15. early_start[a] + duration[a] <= lf
    <2>1. ASSUME NEW s \in Successors(a)
          PROVE  early_start[a] + duration[a] <= FinishBefore(a, s)
      <3>1. s \in Activities /\ <<a, s>> \in links /\ a \in Predecessors(s)
        BY DEF Successors, Predecessors
      <3>2. StartAfter(a, s) <= early_start[s]
        BY <1>3, <1>6, <3>1 DEF EarlyInv
      <3>3. early_finish[a] = early_start[a] + duration[a]
        BY <1>3, <1>6 DEF EarlyInv
      <3>4. Honours(early_start, a, s)
        BY <1>3, <3>1, <3>2, <3>3, HonoursEarly
      <3>5. early_start \in [Activities -> Int]
        BY <1>3 DEF TypeOK
      <3>6. /\ late_finish[s] = late_start[s] + duration[s]
            /\ early_start[s] <= late_start[s]
        BY <1>9, <3>1
      <3>7. QED
        BY <1>3, <3>1, <3>4, <3>5, <3>6, LateLimitIsNecessary
    <2>2. early_start[a] + duration[a] <= late_finish[a]
      <3>1. /\ early_start[a] <= late_start[a]
            /\ late_finish[a] = late_start[a] + duration[a]
            /\ late_start[a] \in Int
        BY <1>3, <1>9 DEF TypeOK
      <3>2. QED
        BY <1>4, <3>1
    <2>3. QED
      BY <1>1, <2>1, <2>2
  <1>16. ProjectDuration' = ProjectDuration /\ IsProjectDuration(end)'
    BY <1>2, <1>9 DEF ProjectDuration, IsProjectDuration
  <1>17. LateInv'
    <2>1. ASSUME NEW b \in Activities
          PROVE  /\ early_start'[b] <= late_start'[b]
                 /\ late_finish'[b] = late_start'[b] + duration'[b]
                 /\ late_finish'[b] <= end
                 /\ b \notin LateDone' => late_finish'[b] = end
      <3>1. CASE b = a
        BY <1>2, <1>4, <1>6, <1>10, <1>12, <1>15, <3>1
      <3>2. CASE b # a
        <4>1. late_finish'[b] = late_finish[b] /\ late_start'[b] = late_start[b]
          BY <1>1, <1>3, <3>2 DEF TypeOK
        <4>2. QED
          BY <1>2, <1>6, <1>9, <3>2, <4>1
      <3>3. QED
        BY <3>1, <3>2
    <2>2. ASSUME NEW b \in LateDone'
          PROVE  /\ Successors(b)' \subseteq LateDone'
                 /\ \A s \in Successors(b)' :
                       late_finish'[b] <= FinishBefore(b, s)'
      <3>1. b \in Activities
        BY DEF LateDone
      <3>2. CASE b = a
        BY <1>6, <1>10, <1>12, <1>13, <1>14, <3>2
      <3>3. CASE b # a
        <4>1. b \in LateDone
          BY <1>6, <3>3
        <4>2. QED
          BY <1>6, <1>9, <1>11, <1>13, <1>14, <3>1, <4>1
      <3>4. QED
        BY <3>2, <3>3
    <2>3. QED
      BY <1>16, <2>1, <2>2 DEF LateInv
  <1>18. GreatestInv'
    <2> SUFFICES ASSUME NEW start \in Schedules, Feasible(start)',
                        FinishesBy(start, ProjectDuration)',
                        NEW b \in Activities
                 PROVE  start[b] <= late_start'[b]
      BY DEF GreatestInv, Schedules
    <2>1. Feasible(start) /\ FinishesBy(start, ProjectDuration)
      BY <1>2, <1>16 DEF Feasible, Honours, FinishesBy
    <2>2. \A s \in Activities : start[s] <= late_start[s]
      BY <1>2, <1>3, <2>1 DEF GreatestInv
    <2>3. CASE b # a
      BY <1>1, <1>3, <2>2, <2>3 DEF TypeOK
    <2>4. CASE b = a
      <3>1. start \in [Activities -> Int]
        BY DaysAssumption DEF Schedules
      <3>2. ASSUME NEW s \in Successors(a)
            PROVE  start[a] + duration[a] <= FinishBefore(a, s)
        <4>1. s \in Activities /\ <<a, s>> \in links
          BY DEF Successors
        <4>2. Honours(start, a, s)
          BY <2>1, <4>1 DEF Feasible
        <4>3. late_finish[s] = late_start[s] + duration[s]
          BY <1>9, <4>1
        <4>4. QED
          BY <1>3, <2>2, <3>1, <4>1, <4>2, <4>3, LateLimitIsNecessary
      <3>3. start[a] + duration[a] <= late_finish[a]
        <4>1. /\ start[a] <= late_start[a]
              /\ late_finish[a] = late_start[a] + duration[a]
              /\ late_start[a] \in Int
          BY <1>3, <1>9, <2>2 DEF TypeOK
        <4>2. start[a] \in Int
          BY <3>1
        <4>3. QED
          BY <1>4, <4>1, <4>2
      <3>4. start[a] + duration[a] <= lf
        BY <1>1, <3>2, <3>3
      <3>5. start[a] \in Int
        BY <3>1
      <3>6. QED
        BY <1>4, <1>12, <2>4, <3>4, <3>5
    <2>5. QED
      BY <2>3, <2>4
  <1>19. FloatInv'
    BY <1>2 DEF FloatInv
  <1>20. QED
    BY <1>5, <1>7, <1>8, <1>17, <1>18, <1>19 DEF IInv

LEMMA CalculateFloatIInv == IInv /\ CalculateFloat => IInv'
  <1> SUFFICES ASSUME IInv, CalculateFloat PROVE IInv'
    OBVIOUS
  <1>1. /\ phase = "backward" /\ phase' = "done"
        /\ pending = {} /\ pending' = {}
        /\ UNCHANGED <<duration, links, dependencyType, lag>>
        /\ UNCHANGED <<early_start, early_finish, late_start, late_finish>>
        /\ total_float' = [a \in Activities |-> late_start[a] - early_start[a]]
        /\ free_float' =
             [a \in Activities |-> FreeFloat(a, late_start[a] - early_start[a])]
    BY DEF CalculateFloat, network
  <1>2. TypeOK /\ EarlyInv /\ LeastInv /\ LateInv /\ GreatestInv
    BY DEF IInv
  <1>3. /\ EarlyDone' = Activities /\ EarlyDone = Activities
        /\ LateDone' = Activities /\ LateDone = Activities
    BY <1>1 DEF EarlyDone, LateDone
  <1>4. ASSUME NEW a \in Activities
        PROVE  late_start[a] - early_start[a] \in Nat
    <2>1. early_start[a] \in Int /\ late_start[a] \in Int
      BY <1>2 DEF TypeOK
    <2>2. early_start[a] <= late_start[a]
      BY <1>1, <1>2 DEF LateInv
    <2>3. QED
      BY <2>1, <2>2
  <1>5. ASSUME NEW a \in Activities
        PROVE  FreeFloat(a, late_start[a] - early_start[a]) \in Nat
    <2> DEFINE limits == {early_start[s] - lag[<<a, s>>] : s \in
                    {t \in Successors(a) : dependencyType[<<a, t>>] = "FS"}}
    <2>1. early_finish[a] \in Nat
      <3>1. early_start[a] \in Int /\ early_finish[a] \in Int
        BY <1>2 DEF TypeOK
      <3>2. /\ 0 <= early_start[a]
            /\ early_finish[a] = early_start[a] + duration[a]
        BY <1>2, <1>3 DEF EarlyInv
      <3>3. duration[a] \in Nat
        BY <1>2, NetworkType
      <3>4. QED
        BY <3>1, <3>2, <3>3
    <2>2. ASSUME NEW s \in Successors(a), dependencyType[<<a, s>>] = "FS"
          PROVE  /\ early_start[s] - lag[<<a, s>>] \in Int
                 /\ early_finish[a] <= early_start[s] - lag[<<a, s>>]
      <3>1. s \in Activities /\ <<a, s>> \in links /\ a \in Predecessors(s)
        BY DEF Successors, Predecessors
      <3>2. StartAfter(a, s) <= early_start[s]
        BY <1>2, <1>3, <3>1 DEF EarlyInv
      <3>3. StartAfter(a, s) = early_finish[a] + lag[<<a, s>>]
        BY <2>2 DEF StartAfter
      <3>4. early_start[s] \in Int /\ lag[<<a, s>>] \in Int
        BY <1>2, <3>1, NetworkType DEF TypeOK
      <3>5. QED
        BY <2>1, <3>2, <3>3, <3>4
    <2>3. ASSUME NEW m \in limits
          PROVE  m \in Nat /\ early_finish[a] <= m
      <3>1. PICK s \in Successors(a) :
                /\ dependencyType[<<a, s>>] = "FS"
                /\ m = early_start[s] - lag[<<a, s>>]
        OBVIOUS
      <3>2. m \in Int /\ early_finish[a] <= m
        BY <2>2, <3>1
      <3>3. QED
        BY <2>1, <3>2
    <2>4. CASE limits = {}
      BY <1>4, <2>4 DEF FreeFloat
    <2>5. CASE limits # {}
      <3>1. \E m \in limits : IsMin(m, limits)
        <4> HIDE DEF limits
        <4>1. QED
          BY <2>3, <2>5, NatMin
      <3>2. (CHOOSE m \in limits : IsMin(m, limits)) \in limits
        <4> HIDE DEF limits
        <4>1. QED
          BY <3>1
      <3>3. FreeFloat(a, late_start[a] - early_start[a])
               = (CHOOSE m \in limits : IsMin(m, limits)) - early_finish[a]
        BY <2>5 DEF FreeFloat
      <3>4. QED
        <4> HIDE DEF limits
        <4>1. QED
          BY <2>1, <2>3, <3>2, <3>3
    <2>6. QED
      BY <2>4, <2>5
  <1>6. TypeOK'
    <2>1. total_float' \in [Activities -> Int]
      BY <1>1, <1>4
    <2>2. free_float' \in [Activities -> Int]
      BY <1>1, <1>5
    <2>3. QED
      BY <1>1, <1>2, <2>1, <2>2 DEF TypeOK
  <1>7. EarlyInv' /\ LeastInv'
    <2>1. EarlyInv'
      BY <1>1, <1>2, <1>3 DEF EarlyInv, Predecessors, StartAfter
    <2>2. LeastInv'
      <3>1. UNCHANGED network
        BY <1>1 DEF network
      <3>2. QED
        BY <1>1, <1>2, <1>3, <3>1, FeasibleKept DEF LeastInv, Schedules
    <2>3. QED
      BY <2>1, <2>2
  <1>8. ProjectDuration' = ProjectDuration
    BY <1>1 DEF ProjectDuration, IsProjectDuration
  <1>9. LateInv'
    <2>1. \A a \in Activities : Successors(a)' = Successors(a)
      BY <1>1 DEF Successors
    <2>2. \A a, s \in Activities : FinishBefore(a, s)' = FinishBefore(a, s)
      BY <1>1 DEF FinishBefore
    <2>3. \A end : IsProjectDuration(end)' <=> IsProjectDuration(end)
      BY <1>1 DEF IsProjectDuration
    <2>4. PICK end \in Int :
              /\ IsProjectDuration(end)
              /\ \A a \in Activities :
                    /\ early_start[a] <= late_start[a]
                    /\ late_finish[a] = late_start[a] + duration[a]
                    /\ late_finish[a] <= end
                    /\ \A s \in Successors(a) :
                          late_finish[a] <= FinishBefore(a, s)
      BY <1>1, <1>2, <1>3 DEF LateInv
    <2>5. \A a \in Activities : Successors(a) \subseteq Activities
      BY DEF Successors
    <2>6. QED
      BY <1>1, <1>3, <2>1, <2>2, <2>3, <2>4, <2>5 DEF LateInv
  <1>10. GreatestInv'
    <2>1. UNCHANGED network
      BY <1>1 DEF network
    <2>2. QED
      BY <1>1, <1>2, <1>8, <2>1, FeasibleKept
         DEF GreatestInv, FinishesBy, Schedules
  <1>11. FloatInv'
    BY <1>1, <1>4, <1>5 DEF FloatInv
  <1>12. QED
    BY <1>6, <1>7, <1>9, <1>10, <1>11 DEF IInv

LEMMA NextIInv == IInv /\ [Next]_vars => IInv'
  <1> SUFFICES ASSUME IInv, [Next]_vars PROVE IInv'
    OBVIOUS
  <1>1. CASE RejectCycle
    BY <1>1, RejectCycleIInv
  <1>2. CASE StartForwardPass
    BY <1>2, StartForwardPassIInv
  <1>3. ASSUME NEW a \in Activities, ForwardVisit(a)
        PROVE  IInv'
    BY <1>3, ForwardVisitIInv
  <1>4. ASSUME NEW a \in Activities, BackwardVisit(a)
        PROVE  IInv'
    BY <1>4, BackwardVisitIInv
  <1>5. CASE StartBackwardPass
    BY <1>5, StartBackwardPassIInv
  <1>6. CASE CalculateFloat
    BY <1>6, CalculateFloatIInv
  <1>7. CASE UNCHANGED vars
    <2> USE <1>7 DEF vars, network, results
    <2>1. TypeOK'
      BY DEF IInv, TypeOK
    <2>2. EarlyDone' = EarlyDone /\ LateDone' = LateDone
      BY DEF EarlyDone, LateDone
    <2>3. EarlyInv'
      BY <2>2 DEF IInv, EarlyInv, Predecessors, StartAfter
    <2>4. LeastInv'
      BY <2>2, FeasibleKept DEF IInv, LeastInv, Schedules
    <2>5. LateInv'
      BY <2>2 DEF IInv, LateInv, IsProjectDuration, Successors, FinishBefore
    <2>6. GreatestInv'
      <3>1. ProjectDuration' = ProjectDuration
        BY DEF ProjectDuration, IsProjectDuration
      <3>2. QED
        BY <3>1, FeasibleKept DEF IInv, GreatestInv, FinishesBy, Schedules
    <2>7. FloatInv'
      BY DEF IInv, FloatInv
    <2>8. QED
      BY <2>1, <2>3, <2>4, <2>5, <2>6, <2>7 DEF IInv
  <1>8. QED
    BY <1>1, <1>2, <1>3, <1>4, <1>5, <1>6, <1>7 DEF Next

\* The strengthening holds in every state of every calculation.
THEOREM Inductive == Spec => []IInv
  <1>1. Init => IInv
    BY InitIInv
  <1>2. IInv /\ [Next]_vars => IInv'
    BY NextIInv
  <1>3. QED
    BY <1>1, <1>2, PTL DEF Spec

-----------------------------------------------------------------------------
(* What the invariant says of a finished calculation.                      *)

\* Type correctness: calculate() leaves every activity with six integers and
\* the network within the values it was loaded with.
THEOREM TypeCorrect == Spec => []TypeOK
  <1>1. IInv => TypeOK
    BY DEF IInv
  <1>2. QED
    BY <1>1, Inductive, PTL

LEMMA DoneImpliesEarlyFeasible == IInv => EarlyDatesFeasible
  <1> SUFFICES ASSUME IInv, phase = "done" PROVE Feasible(early_start)
    BY DEF EarlyDatesFeasible
  <1>1. TypeOK /\ EarlyInv
    BY DEF IInv
  <1>2. EarlyDone = Activities
    BY DEF EarlyDone
  <1>3. ASSUME NEW p \in Activities, NEW s \in Activities, <<p, s>> \in links
        PROVE  Honours(early_start, p, s)
    <2>1. p \in Predecessors(s)
      BY <1>3 DEF Predecessors
    <2>2. StartAfter(p, s) <= early_start[s]
      BY <1>1, <1>2, <2>1 DEF EarlyInv
    <2>3. early_finish[p] = early_start[p] + duration[p]
      BY <1>1, <1>2 DEF EarlyInv
    <2>4. QED
      BY <1>1, <1>3, <2>2, <2>3, HonoursEarly
  <1>4. \A a \in Activities : early_start[a] >= 0
    BY <1>1, <1>2 DEF EarlyInv, TypeOK
  <1>5. QED
    BY <1>3, <1>4 DEF Feasible

LEMMA DoneImpliesLateFeasible == IInv => LateDatesFeasible
  <1> SUFFICES ASSUME IInv, phase = "done"
               PROVE  /\ Feasible(late_start)
                      /\ FinishesBy(late_start, ProjectDuration)
    BY DEF LateDatesFeasible
  <1>1. TypeOK /\ EarlyInv /\ LateInv
    BY DEF IInv
  <1>2. LateDone = Activities /\ EarlyDone = Activities
    BY DEF LateDone, EarlyDone
  <1>3. PICK end \in Int :
            /\ IsProjectDuration(end)
            /\ \A b \in Activities :
                  /\ early_start[b] <= late_start[b]
                  /\ late_finish[b] = late_start[b] + duration[b]
                  /\ late_finish[b] <= end
            /\ \A b \in Activities : \A s \in Successors(b) :
                  late_finish[b] <= FinishBefore(b, s)
    BY <1>1, <1>2 DEF LateInv
  <1>4. ASSUME NEW p \in Activities, NEW s \in Activities, <<p, s>> \in links
        PROVE  Honours(late_start, p, s)
    <2>1. s \in Successors(p)
      BY <1>4 DEF Successors
    <2>2. late_finish[p] <= FinishBefore(p, s)
      BY <1>3, <2>1
    <2>3. /\ late_finish[p] = late_start[p] + duration[p]
          /\ late_finish[s] = late_start[s] + duration[s]
      BY <1>3
    <2>4. QED
      BY <1>1, <1>4, <2>2, <2>3, HonoursLate
  <1>5. ASSUME NEW a \in Activities
        PROVE  late_start[a] >= 0
    <2>1. early_start[a] \in Int /\ late_start[a] \in Int
      BY <1>1 DEF TypeOK
    <2>2. 0 <= early_start[a] /\ early_start[a] <= late_start[a]
      BY <1>1, <1>2, <1>3 DEF EarlyInv
    <2>3. QED
      BY <2>1, <2>2
  <1>6. Feasible(late_start)
    BY <1>4, <1>5 DEF Feasible
  <1>7. ProjectDuration = end
    BY <1>1, <1>3, ProjectDurationUnique
  <1>8. FinishesBy(late_start, ProjectDuration)
    BY <1>3, <1>7 DEF FinishesBy
  <1>9. QED
    BY <1>6, <1>8

\* The early dates violate no dependency of any type, for any network.
THEOREM EarlyFeasibility == Spec => []EarlyDatesFeasible
  BY DoneImpliesEarlyFeasible, Inductive, PTL

\* No feasible schedule starts an activity before its early start.
THEOREM EarlyMinimality == Spec => []EarlyDatesLeast
  <1>1. IInv => EarlyDatesLeast
    BY DEF IInv, LeastInv, EarlyDone, EarlyDatesLeast
  <1>2. QED
    BY <1>1, Inductive, PTL

\* The late dates violate no dependency and meet the project duration.
THEOREM LateFeasibility == Spec => []LateDatesFeasible
  BY DoneImpliesLateFeasible, Inductive, PTL

\* No feasible schedule that meets the project duration starts an activity
\* after its late start.
THEOREM LateMaximality == Spec => []LateDatesGreatest
  <1>1. IInv => LateDatesGreatest
    BY DEF IInv, GreatestInv, LateDatesGreatest
  <1>2. QED
    BY <1>1, Inductive, PTL

\* Neither float of an activity is ever negative.
THEOREM FloatsAreNonNegative == Spec => []FloatsNonNegative
  <1>1. IInv => FloatsNonNegative
    <2> SUFFICES ASSUME IInv, phase = "done", NEW a \in Activities
                 PROVE  total_float[a] >= 0 /\ free_float[a] >= 0
      BY DEF FloatsNonNegative
    <2>1. early_start[a] <= late_start[a]
      BY DEF IInv, LateInv
    <2>2. total_float[a] = late_start[a] - early_start[a] /\ free_float[a] >= 0
      BY DEF IInv, FloatInv
    <2>3. early_start[a] \in Int /\ late_start[a] \in Int
      BY DEF IInv, TypeOK
    <2>4. QED
      BY <2>1, <2>2, <2>3
  <1>2. QED
    BY <1>1, Inductive, PTL

-----------------------------------------------------------------------------
(***************************************************************************)
(* Where the dates come from. An early start after day 0 is the limit that *)
(* some predecessor sets, and the free float is read off the early dates   *)
(* that the forward pass left.                                             *)
(***************************************************************************)
DrivenInv ==
    \A a \in EarlyDone :
        early_start[a] > 0 =>
            \E p \in Predecessors(a) : early_start[a] = StartAfter(p, a)

FreeInv ==
    phase = "done" =>
        \A a \in Activities : free_float[a] = FreeFloat(a, total_float[a])

\* A step that leaves the early dates alone keeps what drives them.
LEMMA DrivenKept ==
    ASSUME DrivenInv, EarlyDone' \subseteq EarlyDone,
           UNCHANGED <<network, early_start, early_finish>>
    PROVE  DrivenInv'
  BY DEF DrivenInv, network, Predecessors, StartAfter

LEMMA ForwardVisitDriven ==
    ASSUME IInv, DrivenInv, NEW a \in Activities, ForwardVisit(a)
    PROVE  DrivenInv'
  <1> DEFINE limits == {0} \cup {StartAfter(p, a) : p \in Predecessors(a)}
  <1>1. PICK es \in limits :
            /\ early_start' = [early_start EXCEPT ![a] = es]
            /\ early_finish' = [early_finish EXCEPT ![a] = es + duration[a]]
    BY DEF ForwardVisit
  <1>2. /\ phase = "forward" /\ phase' = "forward"
        /\ a \in pending /\ pending' = pending \ {a}
        /\ Predecessors(a) \cap pending = {}
        /\ UNCHANGED <<duration, links, dependencyType, lag>>
    BY DEF ForwardVisit, network
  <1>3. /\ TypeOK /\ EarlyInv
        /\ \A p \in Activities : p # a =>
              early_start'[p] = early_start[p] /\ early_finish'[p] = early_finish[p]
        /\ early_start'[a] = es
    BY <1>1 DEF IInv, TypeOK
  <1>4. /\ EarlyDone' = EarlyDone \cup {a} /\ a \notin EarlyDone
        /\ EarlyDone \subseteq Activities
    BY <1>2 DEF EarlyDone
  <1>5. \A b \in EarlyDone' :
            Predecessors(b)' = Predecessors(b) /\ Predecessors(b) \subseteq EarlyDone
    <2>1. \A b \in EarlyDone : Predecessors(b) \subseteq EarlyDone
      BY <1>3 DEF EarlyInv
    <2>2. Predecessors(a) \subseteq EarlyDone
      BY <1>2 DEF EarlyDone, Predecessors
    <2>3. QED
      BY <1>2, <1>4, <2>1, <2>2 DEF Predecessors
  <1>6. \A b \in EarlyDone' : \A p \in Predecessors(b) :
            StartAfter(p, b)' = StartAfter(p, b)
    BY <1>2, <1>3, <1>4, <1>5 DEF StartAfter
  <1>7. early_start'[a] > 0 =>
            \E p \in Predecessors(a) : early_start'[a] = StartAfter(p, a)
    BY <1>3
  <1>8. \A b \in EarlyDone : early_start'[b] > 0 =>
            \E p \in Predecessors(b) : early_start'[b] = StartAfter(p, b)
    BY <1>3, <1>4 DEF DrivenInv
  <1>9. QED
    BY <1>4, <1>5, <1>6, <1>7, <1>8 DEF DrivenInv

LEMMA NextDriven == IInv /\ DrivenInv /\ [Next]_vars => DrivenInv'
  <1> SUFFICES ASSUME IInv, DrivenInv, [Next]_vars PROVE DrivenInv'
    OBVIOUS
  <1>1. CASE RejectCycle
    BY <1>1, DrivenKept DEF RejectCycle, EarlyDone, results
  <1>2. CASE StartForwardPass
    BY <1>2 DEF StartForwardPass, EarlyDone, DrivenInv
  <1>3. ASSUME NEW a \in Activities, ForwardVisit(a)
        PROVE  DrivenInv'
    BY <1>3, ForwardVisitDriven
  <1>4. ASSUME NEW a \in Activities, BackwardVisit(a)
        PROVE  DrivenInv'
    BY <1>4, DrivenKept DEF BackwardVisit, EarlyDone
  <1>5. CASE StartBackwardPass
    BY <1>5, DrivenKept DEF StartBackwardPass, EarlyDone
  <1>6. CASE CalculateFloat
    BY <1>6, DrivenKept DEF CalculateFloat, EarlyDone
  <1>7. CASE UNCHANGED vars
    BY <1>7, DrivenKept DEF vars, results, EarlyDone
  <1>8. QED
    BY <1>1, <1>2, <1>3, <1>4, <1>5, <1>6, <1>7 DEF Next

LEMMA NextFree == IInv /\ FreeInv /\ [Next]_vars => FreeInv'
  <1> SUFFICES ASSUME IInv, FreeInv, [Next]_vars PROVE FreeInv'
    OBVIOUS
  <1>1. CASE CalculateFloat
    BY <1>1 DEF CalculateFloat, FreeInv, network, FreeFloat, Successors
  <1>2. CASE UNCHANGED vars
    BY <1>2 DEF vars, network, results, FreeInv, FreeFloat, Successors
  <1>3. CASE ~CalculateFloat /\ Next
    BY <1>3 DEF Next, RejectCycle, StartForwardPass, ForwardVisit, BackwardVisit,
                StartBackwardPass, FreeInv
  <1>4. QED
    BY <1>1, <1>2, <1>3

LEMMA SourcesKnown == Spec => [](IInv /\ DrivenInv /\ FreeInv)
  <1>1. Init => DrivenInv /\ FreeInv
    BY DEF Init, DrivenInv, FreeInv, EarlyDone
  <1>2. QED
    BY <1>1, NextDriven, NextFree, Inductive, PTL DEF Spec

-----------------------------------------------------------------------------
(* The critical path.                                                      *)

\* All that a finished calculation knows of its dates.
DatesKnown ==
    \E end \in Int :
        /\ IsProjectDuration(end) /\ ProjectDuration = end
        /\ \A a \in Activities :
              /\ early_start[a] \in Nat /\ late_start[a] \in Nat
              /\ duration[a] \in Nat /\ total_float[a] \in Nat
              /\ early_finish[a] = early_start[a] + duration[a]
              /\ late_finish[a] = late_start[a] + duration[a]
              /\ total_float[a] = late_start[a] - early_start[a]
              /\ late_finish[a] <= end
        /\ \A a \in Activities : \A s \in Successors(a) :
              Honours(early_start, a, s) /\ Honours(late_start, a, s)

LEMMA DatesAreKnown == IInv /\ phase = "done" => DatesKnown
  <1> SUFFICES ASSUME IInv, phase = "done" PROVE DatesKnown
    OBVIOUS
  <1>1. TypeOK /\ EarlyInv /\ LateInv /\ FloatInv
    BY DEF IInv
  <1>2. EarlyDone = Activities
    BY DEF EarlyDone
  <1>3. PICK end \in Int :
            /\ IsProjectDuration(end)
            /\ \A a \in Activities :
                  /\ early_start[a] <= late_start[a]
                  /\ late_finish[a] = late_start[a] + duration[a]
                  /\ late_finish[a] <= end
    BY <1>1 DEF LateInv
  <1>4. ProjectDuration = end
    BY <1>1, <1>3, ProjectDurationUnique
  <1>5. ASSUME NEW a \in Activities
        PROVE  /\ early_start[a] \in Nat /\ late_start[a] \in Nat
               /\ duration[a] \in Nat /\ total_float[a] \in Nat
               /\ early_finish[a] = early_start[a] + duration[a]
               /\ total_float[a] = late_start[a] - early_start[a]
    <2>1. early_start[a] \in Int /\ late_start[a] \in Int /\ duration[a] \in Nat
      BY <1>1, NetworkType DEF TypeOK
    <2>2. /\ 0 <= early_start[a] /\ early_start[a] <= late_start[a]
          /\ early_finish[a] = early_start[a] + duration[a]
          /\ total_float[a] = late_start[a] - early_start[a]
      BY <1>1, <1>2, <1>3 DEF EarlyInv, FloatInv
    <2>3. QED
      BY <2>1, <2>2
  <1>6. \A a \in Activities : \A s \in Successors(a) :
            Honours(early_start, a, s) /\ Honours(late_start, a, s)
    BY DoneImpliesEarlyFeasible, DoneImpliesLateFeasible
       DEF EarlyDatesFeasible, LateDatesFeasible, Feasible, Successors
  <1>7. QED
    BY <1>3, <1>4, <1>5, <1>6 DEF DatesKnown

\* The predecessor that sets a critical activity's early start is critical: it
\* could finish no later without moving the late start after the early one.
LEMMA DriverIsCritical ==
    ASSUME TypeOK, DatesKnown, NEW p \in Activities, NEW a \in Activities,
           <<p, a>> \in links,
           total_float[a] = 0, early_start[a] = StartAfter(p, a)
    PROVE  total_float[p] = 0
  <1>1. /\ dependencyType[<<p, a>>] \in {"FS", "SS", "FF", "SF"}
        /\ lag[<<p, a>>] \in Int
    BY NetworkType
  <1>2. /\ early_start[p] \in Nat /\ late_start[p] \in Nat /\ total_float[p] \in Nat
        /\ early_start[a] \in Nat /\ late_start[a] \in Nat
        /\ duration[p] \in Nat /\ duration[a] \in Nat
        /\ early_finish[p] = early_start[p] + duration[p]
        /\ total_float[p] = late_start[p] - early_start[p]
        /\ total_float[a] = late_start[a] - early_start[a]
    BY DEF DatesKnown
  <1>3. late_start[a] = early_start[a]
    <2>1. late_start[a] - early_start[a] = 0
      BY <1>2
    <2>2. \A x, y \in Nat : x - y = 0 => x = y
      OBVIOUS
    <2>3. QED
      BY <1>2, <2>1, <2>2
  <1>4. Honours(late_start, p, a)
    BY DEF DatesKnown, Successors
  <1>5. CASE dependencyType[<<p, a>>] = "FS"
    BY <1>1, <1>2, <1>3, <1>4, <1>5 DEF StartAfter, Honours
  <1>6. CASE dependencyType[<<p, a>>] = "SS"
    BY <1>1, <1>2, <1>3, <1>4, <1>6 DEF StartAfter, Honours
  <1>7. CASE dependencyType[<<p, a>>] = "FF"
    BY <1>1, <1>2, <1>3, <1>4, <1>7 DEF StartAfter, Honours
  <1>8. CASE dependencyType[<<p, a>>] = "SF"
    BY <1>1, <1>2, <1>3, <1>4, <1>8 DEF StartAfter, Honours
  <1>9. QED
    BY <1>1, <1>5, <1>6, <1>7, <1>8

\* For every network the zero-float activities hang together: one of them ends
\* the project and each starts on day 0 or where a zero-float predecessor
\* makes it start.
THEOREM CriticalPathConnected == Spec => []CriticalPathIsConnected
  <1>1. ASSUME IInv, DrivenInv, phase = "done"
        PROVE  /\ \E a \in CriticalPath : IsProjectDuration(early_finish[a])
               /\ \A a \in CriticalPath :
                     early_start[a] > 0 =>
                       \E p \in CriticalPath \cap Predecessors(a) :
                           early_start[a] = StartAfter(p, a)
    <2>1. TypeOK /\ DatesKnown
      BY <1>1, DatesAreKnown DEF IInv
    <2>2. \E a \in CriticalPath : IsProjectDuration(early_finish[a])
      <3>1. PICK end \in Int :
                /\ IsProjectDuration(end)
                /\ \A a \in Activities : late_finish[a] <= end
        BY <2>1 DEF DatesKnown
      <3>2. PICK a \in Activities : early_finish[a] = end
        BY <3>1 DEF IsProjectDuration, IsMax
      <3>3. /\ early_start[a] \in Nat /\ late_start[a] \in Nat /\ duration[a] \in Nat
            /\ total_float[a] \in Nat
            /\ early_finish[a] = early_start[a] + duration[a]
            /\ late_finish[a] = late_start[a] + duration[a]
            /\ total_float[a] = late_start[a] - early_start[a]
            /\ late_finish[a] <= end
        BY <2>1, <3>1 DEF DatesKnown
      <3>4. total_float[a] = 0
        BY <3>2, <3>3
      <3>5. QED
        BY <3>1, <3>2, <3>4 DEF CriticalPath, IsCritical
    <2>3. ASSUME NEW a \in CriticalPath, early_start[a] > 0
          PROVE  \E p \in CriticalPath \cap Predecessors(a) :
                     early_start[a] = StartAfter(p, a)
      <3>1. a \in Activities /\ total_float[a] = 0 /\ a \in EarlyDone
        BY <1>1 DEF CriticalPath, IsCritical, EarlyDone
      <3>2. PICK p \in Predecessors(a) : early_start[a] = StartAfter(p, a)
        BY <1>1, <2>3, <3>1 DEF DrivenInv
      <3>3. p \in Activities /\ <<p, a>> \in links
        BY DEF Predecessors
      <3>4. total_float[p] = 0
        BY <2>1, <3>1, <3>2, <3>3, DriverIsCritical
      <3>5. QED
        BY <3>2, <3>3, <3>4 DEF CriticalPath, IsCritical
    <2>4. QED
      BY <2>2, <2>3
  <1>2. IInv /\ DrivenInv => CriticalPathIsConnected
    BY <1>1 DEF CriticalPathIsConnected
  <1>3. QED
    BY <1>2, SourcesKnown, PTL

-----------------------------------------------------------------------------
(***************************************************************************)
(* Total float is usable. The late dates moved k days forward break no     *)
(* link, and the later of two schedules that honour a link honours it; so  *)
(* the later of the early dates and the moved late dates is a schedule,    *)
(* and it delays an activity by its total float less k.                    *)
(***************************************************************************)
Later(x, y) == IF x >= y THEN x ELSE y

Delayed(k) == [b \in Activities |-> Later(early_start[b], late_start[b] - k)]

LEMMA LaterHonours ==
    ASSUME TypeOK, DatesKnown, NEW k \in Nat,
           NEW p \in Activities, NEW s \in Activities, <<p, s>> \in links
    PROVE  Honours(Delayed(k), p, s)
  <1>1. /\ dependencyType[<<p, s>>] \in {"FS", "SS", "FF", "SF"}
        /\ lag[<<p, s>>] \in Int
    BY NetworkType
  <1>2. /\ early_start[p] \in Nat /\ late_start[p] \in Nat /\ duration[p] \in Nat
        /\ early_start[s] \in Nat /\ late_start[s] \in Nat /\ duration[s] \in Nat
        /\ Honours(early_start, p, s) /\ Honours(late_start, p, s)
    BY DEF DatesKnown, Successors
  <1>3. /\ Delayed(k)[p] = Later(early_start[p], late_start[p] - k)
        /\ Delayed(k)[s] = Later(early_start[s], late_start[s] - k)
    BY DEF Delayed
  <1>4. CASE dependencyType[<<p, s>>] = "FS"
    BY <1>1, <1>2, <1>3, <1>4 DEF Later, Honours
  <1>5. CASE dependencyType[<<p, s>>] = "SS"
    BY <1>1, <1>2, <1>3, <1>5 DEF Later, Honours
  <1>6. CASE dependencyType[<<p, s>>] = "FF"
    BY <1>1, <1>2, <1>3, <1>6 DEF Later, Honours
  <1>7. CASE dependencyType[<<p, s>>] = "SF"
    BY <1>1, <1>2, <1>3, <1>7 DEF Later, Honours
  <1>8. QED
    BY <1>1, <1>4, <1>5, <1>6, <1>7

\* On a calendar without end, an activity may be delayed by any part of its
\* total float: some schedule does so, breaks no link and meets the project
\* duration.
THEOREM TotalFloatUsable ==
    ASSUME Nat \subseteq Days
    PROVE  Spec => []TotalFloatIsUsable
  <1>1. ASSUME IInv, phase = "done", NEW a \in Activities, NEW d \in 0..total_float[a]
        PROVE  \E start \in Schedules :
                  /\ start[a] = early_start[a] + d
                  /\ Feasible(start)
                  /\ FinishesBy(start, ProjectDuration)
    <2> DEFINE k == total_float[a] - d
    <2>1. TypeOK /\ DatesKnown
      BY <1>1, DatesAreKnown DEF IInv
    <2>2. PICK end \in Int :
              /\ ProjectDuration = end
              /\ \A b \in Activities :
                    /\ early_start[b] \in Nat /\ late_start[b] \in Nat
                    /\ duration[b] \in Nat /\ total_float[b] \in Nat
                    /\ late_finish[b] = late_start[b] + duration[b]
                    /\ total_float[b] = late_start[b] - early_start[b]
                    /\ late_finish[b] <= end
      BY <2>1 DEF DatesKnown
    <2>3. k \in Nat /\ d \in Nat
      BY <2>2
    <2>4. Delayed(k)[a] = early_start[a] + d
      <3>1. Delayed(k)[a] = Later(early_start[a], late_start[a] - k)
        BY DEF Delayed
      <3>2. late_start[a] - k = early_start[a] + d
        BY <2>2, <2>3
      <3>3. QED
        BY <2>2, <2>3, <3>1, <3>2 DEF Later
    <2> HIDE DEF k
    <2>5. ASSUME NEW b \in Activities
          PROVE  /\ Delayed(k)[b] \in Nat
                 /\ Delayed(k)[b] + duration[b] <= end
      <3>1. Delayed(k)[b] = Later(early_start[b], late_start[b] - k)
        BY DEF Delayed
      <3>2. QED
        BY <2>2, <2>3, <3>1 DEF Later
    <2>6. Delayed(k) \in Schedules
      BY <2>5 DEF Delayed, Schedules
    <2>7. Feasible(Delayed(k))
      BY <2>1, <2>3, <2>5, LaterHonours DEF Feasible
    <2>8. FinishesBy(Delayed(k), ProjectDuration)
      BY <2>2, <2>5 DEF FinishesBy
    <2>9. QED
      BY <2>4, <2>6, <2>7, <2>8
  <1>2. IInv => TotalFloatIsUsable
    BY <1>1 DEF TotalFloatIsUsable
  <1>3. QED
    BY <1>2, Inductive, PTL

-----------------------------------------------------------------------------
(***************************************************************************)
(* Free float before finish-to-start successors is exact: the least day    *)
(* that any of them leaves free is the day the float reaches.              *)
(***************************************************************************)

\* A finish-to-start link after a start moved by d days holds exactly when the
\* moved finish stays before the day the successor leaves free.
LEMMA MovedHonours ==
    ASSUME TypeOK, DatesKnown, NEW a \in Activities, NEW s \in Successors(a),
           dependencyType[<<a, s>>] = "FS", NEW d \in Int
    PROVE  Honours([early_start EXCEPT ![a] = @ + d], a, s)
              <=> early_finish[a] + d <= early_start[s] - lag[<<a, s>>]
  <1> DEFINE moved == [early_start EXCEPT ![a] = @ + d]
  <1>1. s \in Activities /\ <<a, s>> \in links /\ s # a
    BY PairsAssumption DEF Successors, TypeOK
  <1>2. lag[<<a, s>>] \in Int
    BY <1>1, NetworkType
  <1>3. moved[a] = early_start[a] + d /\ moved[s] = early_start[s]
    BY <1>1 DEF TypeOK
  <1>4. /\ early_start[a] \in Nat /\ early_start[s] \in Nat /\ duration[a] \in Nat
        /\ early_finish[a] = early_start[a] + duration[a]
    BY <1>1 DEF DatesKnown
  <1>5. Honours(moved, a, s) <=> moved[a] + duration[a] + lag[<<a, s>>] <= moved[s]
    BY DEF Honours
  <1> HIDE DEF moved
  <1>6. Honours(moved, a, s) <=> early_finish[a] + d <= early_start[s] - lag[<<a, s>>]
    BY <1>2, <1>3, <1>4, <1>5
  <1>7. QED
    BY <1>6 DEF moved

\* An activity whose successors are all finish-to-start may slip by its free
\* float and move none of them, and by no day more.
THEOREM FreeFloatExact == Spec => []FreeFloatExactForFS
  <1>1. ASSUME IInv, FreeInv, phase = "done", NEW a \in Activities,
               Successors(a) # {},
               \A s \in Successors(a) : dependencyType[<<a, s>>] = "FS"
        PROVE  /\ FreeFloatHarmlessFor(a)
               /\ \E s \in Successors(a) :
                    ~Honours([early_start EXCEPT ![a] = @ + free_float[a] + 1],
                             a, s)
    <2> DEFINE limits == {early_start[s] - lag[<<a, s>>] : s \in
                    {t \in Successors(a) : dependencyType[<<a, t>>] = "FS"}}
               m == CHOOSE x \in limits : IsMin(x, limits)
    <2>1. TypeOK /\ DatesKnown
      BY <1>1, DatesAreKnown DEF IInv
    <2>2. early_finish[a] \in Nat
      BY <2>1 DEF DatesKnown
    <2>3. ASSUME NEW s \in Successors(a)
          PROVE  /\ early_start[s] - lag[<<a, s>>] \in Nat
                 /\ early_start[s] - lag[<<a, s>>] \in limits
      <3>1. /\ s \in Activities /\ <<a, s>> \in links
            /\ dependencyType[<<a, s>>] = "FS"
        BY <1>1 DEF Successors
      <3>2. lag[<<a, s>>] \in Int
        BY <2>1, <3>1, NetworkType
      <3>3. /\ early_start[a] \in Nat /\ early_start[s] \in Nat /\ duration[a] \in Nat
            /\ Honours(early_start, a, s)
        BY <2>1, <3>1 DEF DatesKnown
      <3>4. early_start[a] + duration[a] + lag[<<a, s>>] <= early_start[s]
        BY <3>1, <3>3 DEF Honours
      <3>5. early_start[s] - lag[<<a, s>>] \in Nat
        BY <3>2, <3>3, <3>4
      <3>6. QED
        BY <3>1, <3>5
    <2>4. limits # {} /\ limits \subseteq Nat
      BY <1>1, <2>3
    <2>5. free_float[a] = m - early_finish[a]
      BY <1>1, <2>4 DEF FreeInv, FreeFloat
    <2>6. \E x \in limits : IsMin(x, limits)
      <3> HIDE DEF limits
      <3>1. QED
        BY <2>4, NatMin
    <2>7. m \in limits /\ IsMin(m, limits)
      <3> HIDE DEF limits
      <3>1. QED
        BY <2>6
    <2>8. m \in Nat /\ free_float[a] \in Int /\ free_float[a] + 1 \in Int
      <3> HIDE DEF limits, m
      <3>1. QED
        BY <2>2, <2>4, <2>5, <2>7
    <2>9. PICK last \in Successors(a) : m = early_start[last] - lag[<<a, last>>]
      <3>1. PICK x \in limits : m = x
        BY <2>7
      <3> HIDE DEF m
      <3>2. QED
        BY <3>1
    <2> HIDE DEF m
    <2>10. ASSUME NEW s \in Successors(a)
           PROVE  Honours([early_start EXCEPT ![a] = @ + free_float[a]], a, s)
      <3>1. m <= early_start[s] - lag[<<a, s>>]
        BY <2>3, <2>7 DEF IsMin
      <3>2. early_finish[a] + free_float[a] <= early_start[s] - lag[<<a, s>>]
        BY <2>2, <2>3, <2>5, <2>8, <3>1
      <3>3. QED
        BY <1>1, <2>1, <2>8, <3>2, MovedHonours
    <2>11. ~Honours([early_start EXCEPT ![a] = @ + (free_float[a] + 1)], a, last)
      <3>1. ~(early_finish[a] + (free_float[a] + 1)
                 <= early_start[last] - lag[<<a, last>>])
        BY <2>2, <2>5, <2>8, <2>9
      <3>2. QED
        BY <1>1, <2>1, <2>8, <3>1, MovedHonours
    <2>12. [early_start EXCEPT ![a] = @ + free_float[a] + 1]
              = [early_start EXCEPT ![a] = @ + (free_float[a] + 1)]
      <3>1. early_start[a] \in Int
        BY <2>1 DEF TypeOK
      <3>2. early_start[a] + free_float[a] + 1 = early_start[a] + (free_float[a] + 1)
        BY <2>8, <3>1
      <3>3. QED
        BY <3>2
    <2>13. QED
      BY <2>10, <2>11, <2>12 DEF FreeFloatHarmlessFor
  <1>2. IInv /\ FreeInv => FreeFloatExactForFS
    BY <1>1 DEF FreeFloatExactForFS
  <1>3. QED
    BY <1>2, SourcesKnown, PTL

-----------------------------------------------------------------------------
(***************************************************************************)
(* The result is the network's. The dates and floats of a finished         *)
(* calculation are spelled out below without a word about the engine's     *)
(* state, so whatever order the two passes took cannot be seen in them.    *)
(***************************************************************************)
IsEarliest(s) ==
    /\ s \in Schedules /\ Feasible(s)
    /\ \A t \in Schedules :
          Feasible(t) => \A a \in Activities : s[a] <= t[a]

EarliestSchedule == CHOOSE s : IsEarliest(s)

Finishes == {EarliestSchedule[a] + duration[a] : a \in Activities}
ProjectEnd == CHOOSE end \in Finishes : IsMax(end, Finishes)

IsLatest(s) ==
    /\ s \in Schedules /\ Feasible(s) /\ FinishesBy(s, ProjectEnd)
    /\ \A t \in Schedules :
          Feasible(t) /\ FinishesBy(t, ProjectEnd)
              => \A a \in Activities : t[a] <= s[a]

LatestSchedule == CHOOSE s : IsLatest(s)

TotalFloatOf(a) == LatestSchedule[a] - EarliestSchedule[a]

FreeFloatOf(a) ==
    LET limits == {EarliestSchedule[s] - lag[<<a, s>>] : s \in
                     {t \in Successors(a) : dependencyType[<<a, t>>] = "FS"}}
    IN  IF limits = {}
        THEN TotalFloatOf(a)
        ELSE (CHOOSE m \in limits : IsMin(m, limits))
                - (EarliestSchedule[a] + duration[a])

ResultIsTheNetworks ==
    phase = "done" =>
        /\ early_start = EarliestSchedule
        /\ early_finish = [a \in Activities |-> EarliestSchedule[a] + duration[a]]
        /\ late_start = LatestSchedule
        /\ late_finish = [a \in Activities |-> LatestSchedule[a] + duration[a]]
        /\ total_float = [a \in Activities |-> TotalFloatOf(a)]
        /\ \A a \in Activities : free_float[a] = FreeFloatOf(a)

\* Two schedules neither of which starts anything later are one.
LEMMA SchedulesAgree ==
    ASSUME NEW s \in Schedules, NEW t \in Schedules,
           \A a \in Activities : s[a] <= t[a] /\ t[a] <= s[a]
    PROVE  s = t
  <1>1. \A a \in Activities : s[a] \in Int /\ t[a] \in Int
    BY DaysAssumption DEF Schedules
  <1>2. \A a \in Activities : s[a] = t[a]
    <2> TAKE a \in Activities
    <2>1. s[a] \in Int /\ t[a] \in Int /\ s[a] <= t[a] /\ t[a] <= s[a]
      BY <1>1
    <2>2. QED
      BY <2>1
  <1>3. QED
    BY <1>2 DEF Schedules

LEMMA EarliestIsOne ==
    ASSUME NEW s, IsEarliest(s)
    PROVE  EarliestSchedule = s
  <1>1. ASSUME NEW t, IsEarliest(t) PROVE t = s
    BY <1>1, SchedulesAgree DEF IsEarliest
  <1>2. IsEarliest(EarliestSchedule)
    <2>1. \E t : IsEarliest(t)
      OBVIOUS
    <2>2. QED
      BY <2>1 DEF EarliestSchedule
  <1>3. QED
    BY <1>1, <1>2

LEMMA LatestIsOne ==
    ASSUME NEW s, IsLatest(s)
    PROVE  LatestSchedule = s
  <1>1. ASSUME NEW t, IsLatest(t) PROVE t = s
    BY <1>1, SchedulesAgree DEF IsLatest
  <1>2. IsLatest(LatestSchedule)
    <2>1. \E t : IsLatest(t)
      OBVIOUS
    <2>2. QED
      BY <2>1 DEF LatestSchedule
  <1>3. QED
    BY <1>1, <1>2

\* On a calendar without end, the dates and floats that calculate() leaves are
\* determined by the network alone: the earliest feasible schedule, the latest
\* one that ends with it, and their differences. Whatever topological order
\* networkx returns, and however often the calculation is repeated, the result
\* is the same.
THEOREM ResultDetermined ==
    ASSUME Nat \subseteq Days
    PROVE  Spec => []ResultIsTheNetworks
  <1>1. ASSUME IInv, FreeInv, phase = "done"
        PROVE  ResultIsTheNetworks
    <2>1. TypeOK /\ DatesKnown
      BY <1>1, DatesAreKnown DEF IInv
    <2>2. /\ EarlyDatesFeasible /\ LateDatesFeasible
          /\ Feasible(early_start) /\ Feasible(late_start)
          /\ FinishesBy(late_start, ProjectDuration)
      BY <1>1, DoneImpliesEarlyFeasible, DoneImpliesLateFeasible
         DEF EarlyDatesFeasible, LateDatesFeasible
    <2>3. early_start \in Schedules /\ late_start \in Schedules
      BY <2>1, <2>2 DEF Feasible, Schedules, TypeOK
    <2>4. EarliestSchedule = early_start
      <3>1. IsEarliest(early_start)
        BY <1>1, <2>2, <2>3 DEF IInv, LeastInv, EarlyDone, IsEarliest
      <3>2. QED
        BY <3>1, EarliestIsOne
    <2>5. \A a \in Activities :
            /\ early_finish[a] = early_start[a] + duration[a]
            /\ late_finish[a] = late_start[a] + duration[a]
            /\ total_float[a] = late_start[a] - early_start[a]
      BY <1>1 DEF IInv, EarlyInv, EarlyDone, LateInv, FloatInv
    <2>6. ProjectEnd = ProjectDuration
      <3>1. Finishes = {early_finish[a] : a \in Activities}
        BY <2>4, <2>5 DEF Finishes
      <3>2. QED
        BY <3>1 DEF ProjectEnd, ProjectDuration, IsProjectDuration
    <2>7. LatestSchedule = late_start
      <3>1. IsLatest(late_start)
        BY <1>1, <2>2, <2>3, <2>6 DEF IInv, GreatestInv, IsLatest
      <3>2. QED
        BY <3>1, LatestIsOne
    <2>8. ASSUME NEW a \in Activities
          PROVE  free_float[a] = FreeFloatOf(a)
      <3>1. free_float[a] = FreeFloat(a, total_float[a])
        BY <1>1 DEF FreeInv
      <3>2. total_float[a] = TotalFloatOf(a)
        BY <2>4, <2>5, <2>7 DEF TotalFloatOf
      <3>3. QED
        BY <2>4, <2>5, <3>1, <3>2 DEF FreeFloat, FreeFloatOf
    <2>9. /\ early_finish = [a \in Activities |-> EarliestSchedule[a] + duration[a]]
          /\ late_finish = [a \in Activities |-> LatestSchedule[a] + duration[a]]
          /\ total_float = [a \in Activities |-> TotalFloatOf(a)]
      BY <2>1, <2>4, <2>5, <2>7 DEF TypeOK, TotalFloatOf
    <2>10. QED
      BY <2>4, <2>7, <2>8, <2>9 DEF ResultIsTheNetworks
  <1>2. IInv /\ FreeInv => ResultIsTheNetworks
    BY <1>1 DEF ResultIsTheNetworks
  <1>3. QED
    BY <1>2, SourcesKnown, PTL

-----------------------------------------------------------------------------
(***************************************************************************)
(* Neither pass stalls. What the cycle check promises is stated for        *)
(* predecessors; the backward pass needs it for successors, and both need  *)
(* that a finite set of limits has an extreme. A set of activities without *)
(* a last one, or of limits without an extreme, would have a least subset  *)
(* of its kind, and that one can still lose an element.                    *)
(***************************************************************************)
LEMMA LeastOfFinite ==
    ASSUME NEW S, IsFiniteSet(S), NEW T, T \subseteq SUBSET S, T # {}
    PROVE  \E t \in T : \A u \in T : u \subseteq t => u = t
  <1>1. T \subseteq FiniteSubsetsOf(S)
    BY FS_Subset DEF FiniteSubsetsOf
  <1>2. PICK t \in T : \A u \in T : ~(<<u, t>> \in StrictSubsetOrdering(S))
    BY <1>1, FS_StrictSubsetOrderingWellFounded, WFMin
  <1>3. QED
    BY <1>2 DEF StrictSubsetOrdering

\* The values of a function on a finite set are finitely many.
LEMMA ValuesAreFinite ==
    ASSUME NEW S, IsFiniteSet(S), NEW f
    PROVE  IsFiniteSet({f[x] : x \in S})
  <1> DEFINE T == {f[x] : x \in S}
  <1> DEFINE g == [x \in S |-> f[x]]
  <1>1. g \in Surjection(S, T)
    BY DEF Surjection
  <1>2. IsFiniteSet(T)
    <2> HIDE DEF T, g
    <2>1. QED
      BY <1>1, FS_Surjection
  <1>3. QED
    BY <1>2

\* A finite set of integers has a greatest element.
LEMMA FiniteMax ==
    ASSUME NEW S, IsFiniteSet(S), S \subseteq Int, S # {}
    PROVE  \E m \in S : IsMax(m, S)
  <1> DEFINE T == {t \in SUBSET S : t # {} /\ \A m \in t : ~IsMax(m, t)}
  <1>1. SUFFICES ASSUME T # {} PROVE FALSE
    <2>1. S \in SUBSET S
      OBVIOUS
    <2>2. QED
      BY <2>1 DEF IsMax
  <1>2. PICK t \in T : \A u \in T : u \subseteq t => u = t
    <2>1. T \subseteq SUBSET S
      OBVIOUS
    <2> HIDE DEF T
    <2>2. IsFiniteSet(S)
      OBVIOUS
    <2>3. \E t \in T : \A u \in T : u \subseteq t => u = t
      BY ONLY <1>1, <2>1, <2>2, LeastOfFinite
    <2>4. QED
      BY <2>3
  <1>3. PICK x \in t : TRUE
    OBVIOUS
  <1>4. x \in Int /\ t \subseteq Int
    OBVIOUS
  <1>5. CASE t \ {x} = {}
    <2>1. IsMax(x, t)
      BY <1>4, <1>5 DEF IsMax
    <2>2. QED
      BY <2>1
  <1>6. CASE t \ {x} # {}
    <2>1. t \ {x} \notin T
      BY <1>2
    <2>2. PICK m \in t \ {x} : IsMax(m, t \ {x})
      BY <1>6, <2>1
    <2>3. CASE m <= x
      <3>1. IsMax(x, t)
        BY <1>4, <2>2, <2>3 DEF IsMax
      <3>2. QED
        BY <3>1
    <2>4. CASE ~(m <= x)
      <3>1. IsMax(m, t)
        BY <1>4, <2>2, <2>4 DEF IsMax
      <3>2. QED
        BY <3>1
    <2>5. QED
      BY <2>3, <2>4
  <1>7. QED
    BY <1>5, <1>6

\* ... and a least one.
LEMMA FiniteMin ==
    ASSUME NEW S, IsFiniteSet(S), S \subseteq Int, S # {}
    PROVE  \E m \in S : IsMin(m, S)
  <1> DEFINE opposite == {-x : x \in S}
  <1>1. IsFiniteSet(opposite)
    <2> DEFINE minus == [x \in S |-> -x]
    <2>1. opposite = {minus[x] : x \in S}
      OBVIOUS
    <2> HIDE DEF opposite, minus
    <2>2. QED
      BY <2>1, ValuesAreFinite
  <1>2. opposite \subseteq Int /\ opposite # {}
    <2>1. ASSUME NEW y \in opposite PROVE y \in Int
      <3>1. PICK x \in S : y = -x
        OBVIOUS
      <3>2. QED
        BY <3>1
    <2>2. PICK x \in S : TRUE
      OBVIOUS
    <2>3. -x \in opposite
      OBVIOUS
    <2>4. QED
      BY <2>1, <2>3
  <1>3. PICK m \in opposite : IsMax(m, opposite)
    <2> HIDE DEF opposite
    <2>1. QED
      BY <1>1, <1>2, FiniteMax
  <1>4. PICK x \in S : m = -x
    OBVIOUS
  <1>5. ASSUME NEW y \in S PROVE x <= y
    <2>1. -y <= -x /\ x \in Int /\ y \in Int
      BY <1>3, <1>4 DEF IsMax
    <2>2. QED
      BY <2>1
  <1>6. QED
    BY <1>5 DEF IsMin

\* In an acyclic network every set of activities has a last one.
LEMMA SomeActivityIsLast ==
    ASSUME TypeOK, Acyclic, NEW S \in SUBSET Activities, S # {}
    PROVE  \E a \in S : Successors(a) \cap S = {}
  <1> DEFINE T == {t \in SUBSET S : t # {} /\ \A a \in t : Successors(a) \cap t # {}}
  <1>1. SUFFICES ASSUME T # {} PROVE FALSE
    <2>1. S \in SUBSET S
      OBVIOUS
    <2>2. QED
      BY <2>1
  <1>2. PICK t \in T : \A u \in T : u \subseteq t => u = t
    <2> HIDE DEF T
    <2>1. T \subseteq SUBSET S
      BY DEF T
    <2>2. IsFiniteSet(S)
      BY ActivitiesAssumption, FS_Subset
    <2>3. QED
      BY <1>1, <2>1, <2>2, LeastOfFinite
  <1>3. PICK a \in t : Predecessors(a) \cap t = {}
    BY DEF Acyclic
  <1>4. ASSUME NEW b \in t PROVE \E s \in t \ {a} : s \in Successors(b)
    BY <1>3 DEF Predecessors, Successors
  <1>5. t \ {a} \in T
    BY <1>4
  <1>6. QED
    BY <1>2, <1>5

\* What each phase of calculate() needs in order to go on: an activity whose
\* predecessors (successors) are done, and the extreme of its limits.
CanGoOn ==
    /\ phase = "forward" =>
          IF pending = {}
          THEN \E end : IsProjectDuration(end)
          ELSE \E a \in pending :
                  /\ Predecessors(a) \cap pending = {}
                  /\ \E es : IsMax(es, {0} \cup {StartAfter(p, a) : p \in Predecessors(a)})
    /\ phase = "backward" /\ pending # {} =>
          \E a \in pending :
             /\ Successors(a) \cap pending = {}
             /\ \E lf : IsMin(lf, {late_finish[a]}
                                    \cup {FinishBefore(a, s) : s \in Successors(a)})

\* A step of a pass takes one activity off those it has still to visit, and no
\* phase comes back.
Progresses ==
    \/ phase = "created" /\ phase' \in {"circular", "forward"}
    \/ phase = "forward" /\ phase' = "backward"
    \/ phase = "backward" /\ phase' = "done"
    \/ /\ phase' = phase /\ phase \in {"forward", "backward"}
       /\ \E a \in pending : pending' = pending \ {a}

AcyclicOnceRunning == phase \in {"forward", "backward", "done"} => Acyclic

\* Why calculate() ends: on any network that passes the cycle check neither
\* pass is ever without an activity to visit or a date to give it, and every
\* step takes an activity off a finite list or goes on to the next phase.
THEOREM PassesNeverStall == Spec => []CanGoOn /\ [][Progresses]_vars
  <1>1. Init => AcyclicOnceRunning
    BY DEF Init, AcyclicOnceRunning
  <1>2. AcyclicOnceRunning /\ [Next]_vars => AcyclicOnceRunning'
    BY DEF AcyclicOnceRunning, Next, vars, network, results, RejectCycle,
           StartForwardPass, ForwardVisit, StartBackwardPass, BackwardVisit,
           CalculateFloat, Acyclic, Predecessors
  <1>3. ASSUME IInv, AcyclicOnceRunning
        PROVE  CanGoOn
    <2>1. TypeOK
      BY <1>3 DEF IInv
    <2>2. ASSUME NEW a \in Activities
          PROVE  /\ \E es : IsMax(es, {0} \cup {StartAfter(p, a) : p \in Predecessors(a)})
                 /\ \E lf : IsMin(lf, {late_finish[a]}
                                        \cup {FinishBefore(a, s) : s \in Successors(a)})
      <3> DEFINE limits == {StartAfter(p, a) : p \in Predecessors(a)}
      <3> DEFINE bounds == {FinishBefore(a, s) : s \in Successors(a)}
      <3>1. IsFiniteSet(Predecessors(a)) /\ IsFiniteSet(Successors(a))
        BY ActivitiesAssumption, FS_Subset DEF Predecessors, Successors
      <3>2. IsFiniteSet(limits) /\ IsFiniteSet(bounds)
        <4> DEFINE after == [p \in Predecessors(a) |-> StartAfter(p, a)]
        <4> DEFINE before == [s \in Successors(a) |-> FinishBefore(a, s)]
        <4>1. /\ limits = {after[p] : p \in Predecessors(a)}
              /\ bounds = {before[s] : s \in Successors(a)}
          OBVIOUS
        <4> HIDE DEF limits, bounds, after, before
        <4>2. QED
          BY <3>1, <4>1, ValuesAreFinite
      <3>3. limits \subseteq Int /\ bounds \subseteq Int /\ late_finish[a] \in Int
        BY <2>1, StartAfterType, FinishBeforeType DEF Predecessors, Successors, TypeOK
      <3> HIDE DEF limits, bounds
      <3>4. IsFiniteSet({0} \cup limits) /\ IsFiniteSet({late_finish[a]} \cup bounds)
        BY <3>2, FS_Singleton, FS_Union
      <3>5. \E es : IsMax(es, {0} \cup limits)
        <4>1. {0} \cup limits \subseteq Int /\ {0} \cup limits # {}
          BY <3>3
        <4>2. QED
          BY <3>4, <4>1, FiniteMax
      <3>6. \E lf : IsMin(lf, {late_finish[a]} \cup bounds)
        <4>1. {late_finish[a]} \cup bounds \subseteq Int /\ {late_finish[a]} \cup bounds # {}
          BY <3>3
        <4>2. QED
          BY <3>4, <4>1, FiniteMin
      <3>7. QED
        BY <3>5, <3>6 DEF limits, bounds
    <2>3. \E end : IsProjectDuration(end)
      <3> DEFINE finishes == {early_finish[a] : a \in Activities}
      <3>1. IsFiniteSet(finishes)
        BY ActivitiesAssumption, ValuesAreFinite
      <3>2. finishes \subseteq Int /\ finishes # {}
        BY <2>1, ActivitiesAssumption DEF TypeOK
      <3> HIDE DEF finishes
      <3>3. \E end \in finishes : IsMax(end, finishes)
        BY <3>1, <3>2, FiniteMax
      <3>4. QED
        BY <3>3 DEF finishes, IsProjectDuration
    <2>4. ASSUME phase = "forward", pending # {}
          PROVE  \E a \in pending : Predecessors(a) \cap pending = {}
      BY <1>3, <2>1, <2>4 DEF AcyclicOnceRunning, Acyclic, TypeOK
    <2>5. ASSUME phase = "backward", pending # {}
          PROVE  \E a \in pending : Successors(a) \cap pending = {}
      BY <1>3, <2>1, <2>5, SomeActivityIsLast DEF AcyclicOnceRunning, TypeOK
    <2>6. pending \subseteq Activities
      BY <2>1 DEF TypeOK
    <2>7. QED
      BY <2>2, <2>3, <2>4, <2>5, <2>6 DEF CanGoOn
  <1>4. [Next]_vars => [Progresses]_vars
    BY DEF Next, vars, Progresses, RejectCycle, StartForwardPass, ForwardVisit,
           StartBackwardPass, BackwardVisit, CalculateFloat
  <1>5. IInv /\ AcyclicOnceRunning => CanGoOn
    BY <1>3
  <1>6. QED
    BY <1>1, <1>2, <1>4, <1>5, Inductive, PTL DEF Spec

=============================================================================
