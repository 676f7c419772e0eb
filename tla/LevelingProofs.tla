--------------------------- MODULE LevelingProofs ---------------------------
(* Theorems about Leveling, for every program, whatever its network, loads  *)
(* and floats, and whatever the capacity and the bounds of the search.      *)
EXTENDS Leveling, FiniteSetTheorems, TLAPS

(* Dates only move later, what propagation has to look at has moved, and a  *)
(* link that the original dates honoured is honoured or still to be looked  *)
(* at.                                                                      *)
MovedAreLater ==
    /\ \A a \in Activities : project.start[a] <= start[a]
    /\ \A a \in moved : project.start[a] < start[a]
    /\ pc # "propagate" => moved = {}

LinksPending ==
    \A l \in project.links :
        ~Late(project.start, l) => ~Late(start, l) \/ l.from \in moved

IInv == TypeOK /\ MovedAreLater /\ LinksPending /\ MovesAreExplained

-----------------------------------------------------------------------------
LEMMA ProjectParts ==
    ASSUME TypeOK
    PROVE  /\ project.start \in [Activities -> Nat]
           /\ project.span \in [Activities -> Nat]
           /\ project.active \subseteq Resources
           /\ project.links \subseteq Links
BY ProjectsAssumption DEF TypeOK, Project

\* What a link demands is a whole number of days and depends on the start of
\* its predecessor alone.
LEMMA LimitIsInt ==
    ASSUME TypeOK, NEW l \in project.links, NEW s \in [Activities -> Nat]
    PROVE  Limit(s, l) \in Int
<1>1. /\ l.from \in Activities /\ l.to \in Activities
      /\ l.lag \in Int /\ l.type \in LinkTypes
  BY ProjectParts DEF Links
<1>2. /\ s[l.from] \in Nat /\ project.span[l.from] \in Nat /\ project.span[l.to] \in Nat
  BY <1>1, ProjectParts
<1> QED
  BY <1>1, <1>2 DEF Limit, LinkTypes

LEMMA LimitOfPredecessor ==
    ASSUME NEW l, NEW s, NEW t, s[l.from] = t[l.from]
    PROVE  Limit(s, l) = Limit(t, l)
BY DEF Limit

\* A slot lies on or after the day that the search begins at.
LEMMA SlotIsLater ==
    ASSUME NEW a, NEW r, NEW from \in Nat, NEW otherwise \in Nat,
           NEW d \in Slot(a, r, from, otherwise)
    PROVE  d \in Nat /\ (from <= d \/ d = otherwise)
<1>1. \A e \in Tried(from) : e \in Nat /\ from <= e
  BY SearchDaysAssumption DEF Tried, Weekdays
<1> QED
  BY <1>1 DEF Slot

LEMMA MovesAreLater ==
    ASSUME TypeOK, NEW a \in Activities, NEW d \in Moves(a)
    PROVE  d \in Nat /\ start[a] < d
<1>1. start[a] \in Nat /\ start[a] + SearchDays \in Nat
  BY SearchDaysAssumption DEF TypeOK
<1>2. PICK r \in Exceeded(a) : d \in Slot(a, r, start[a], start[a] + SearchDays)
  BY DEF Moves
<1>3. d \in Nat
  BY <1>1, <1>2, SlotIsLater
<1> QED
  BY <1>1, <1>3 DEF Moves, MayDelay

LEMMA ConflictsAreTyped ==
    ASSUME TypeOK
    PROVE  Conflicts(start) \subseteq [resource : Resources, day : Nat]
<1>1. Leveled \subseteq Resources
  BY ProjectParts DEF Leveled
<1>2. \A a \in Activities : Window(start, a) \subseteq Nat
  BY ProjectParts DEF TypeOK, Window
<1>3. Weekdays(UNION {Window(start, a) : a \in Activities}) \subseteq Nat
  BY <1>2 DEF Weekdays
<1> QED
  BY <1>1, <1>3 DEF Conflicts

-----------------------------------------------------------------------------
LEMMA InitInv == Init => IInv
<1> SUFFICES ASSUME Init PROVE IInv
  OBVIOUS
<1>1. /\ project \in Project
      /\ options \in Options /\ options.rounds \in Nat
      /\ start \in [Activities -> Nat] /\ start = project.start
  BY ProjectsAssumption, RoundsAssumption DEF Init, Project, Options
<1>2. TypeOK
  <2>1. /\ project \in Projects /\ method \in {"serial", "parallel"}
        /\ recorded \in [Activities -> Nat \cup {Never}]
        /\ moved \subseteq Activities /\ round \in 0 .. options.rounds
        /\ planned \in [Activities -> Nat \cup {Never}] /\ pc = "level"
    BY <1>1 DEF Init
  <2>2. conflicts \subseteq [resource : Resources, day : Nat]
    <3>1. /\ Leveled \subseteq Resources
          /\ \A a \in Activities : Window(start, a) \subseteq Nat
      BY <1>1 DEF Leveled, Project, Window
    <3>2. Conflicts(start) \subseteq [resource : Resources, day : Nat]
      BY <3>1 DEF Conflicts, Weekdays
    <3> QED
      BY <3>2 DEF Init
  <2> QED
    BY <1>1, <2>1, <2>2 DEF TypeOK
<1>3. MovedAreLater
  BY <1>1 DEF Init, MovedAreLater, Project
<1>4. LinksPending
  BY <1>1 DEF LinksPending
<1>5. MovesAreExplained
  BY <1>1 DEF Init, MovesAreExplained
<1> QED
  BY <1>2, <1>3, <1>4, <1>5 DEF IInv

\* Delaying one activity moves no predecessor, so only the links that leave
\* the activity have to be looked at.
LEMMA ShiftKeepsInv ==
    ASSUME IInv, NEW a \in Activities, NEW d \in Nat, start[a] < d,
           pc = "level", Shift(a, d),
           round' \in 0 .. options.rounds,
           conflicts' \subseteq [resource : Resources, day : Nat]
    PROVE  IInv'
<1>1. /\ start' = [start EXCEPT ![a] = d] /\ recorded' = [recorded EXCEPT ![a] = d]
      /\ moved' = {a} /\ pc' = "propagate"
      /\ UNCHANGED <<project, method, options, planned>>
  BY DEF Shift, request
<1>2. TypeOK /\ start \in [Activities -> Nat] /\ recorded \in [Activities -> Nat \cup {Never}]
      /\ project.start \in [Activities -> Nat]
  BY ProjectParts DEF IInv, TypeOK
<1>3. TypeOK'
  BY <1>1, <1>2 DEF TypeOK
<1>4. MovedAreLater'
  BY <1>1, <1>2 DEF IInv, MovedAreLater
<1>5. LinksPending'
  <2> SUFFICES ASSUME NEW l \in project.links, ~Late(project.start, l), l.from # a
               PROVE  ~(Limit(start, l) > start'[l.to]) /\ Limit(start', l) = Limit(start, l)
    BY <1>1 DEF LinksPending, Late, Limit
  <2>1. l.from \in Activities /\ l.to \in Activities
    BY <1>2, ProjectParts DEF Links
  <2>2. start'[l.from] = start[l.from] /\ start[l.to] <= start'[l.to]
    BY <1>1, <1>2, <2>1
  <2>3. Limit(start', l) = Limit(start, l)
    BY <2>2, LimitOfPredecessor
  <2>4. moved = {}
    BY DEF IInv, MovedAreLater
  <2>5. ~(Limit(start, l) > start[l.to])
    BY <2>4 DEF IInv, LinksPending, Late
  <2>6. Limit(start, l) \in Int
    BY <1>2, LimitIsInt
  <2>7. start[l.to] \in Nat /\ start'[l.to] \in Nat
    BY <1>1, <1>2, <2>1
  <2> QED
    BY <2>2, <2>3, <2>5, <2>6, <2>7
<1>6. MovesAreExplained'
  <2>1. \A b \in Activities : recorded'[b] # Never => recorded'[b] <= start'[b]
    BY <1>1, <1>2 DEF IInv, MovesAreExplained
  <2>2. ASSUME NEW D \in SUBSET Activities,
               \A b \in Activities : recorded'[b] # Never => b \in D,
               \A l \in project.links : l.from \in D => l.to \in D,
               NEW b \in Activities \ D
        PROVE  start'[b] = project.start[b]
    <3>1. recorded'[a] = d /\ d # Never
      BY <1>1, <1>2, NeverAssumption
    <3>2. a \in D
      BY <2>2, <3>1
    <3>3. \A x \in Activities : recorded[x] # Never => x \in D
      BY <1>1, <1>2, <2>2, <3>2
    <3>4. start[b] = project.start[b]
      BY <2>2, <3>3 DEF IInv, MovesAreExplained
    <3> QED
      BY <1>1, <1>2, <3>2, <3>4
  <2> QED
    BY <1>1, <2>1, <2>2 DEF MovesAreExplained
<1> QED
  BY <1>3, <1>4, <1>5, <1>6 DEF IInv

\* Following a late link makes it honoured and leaves those of its successor
\* to be looked at.
LEMMA PropagateKeepsInv ==
    ASSUME IInv, NEW l \in project.links, Propagate(l)
    PROVE  IInv'
<1> DEFINE a == l.to
           d == Limit(start, l)
<1>1. /\ start' = [start EXCEPT ![a] = d]
      /\ moved' = moved \cup {a} /\ l.from \in moved /\ d > start[a]
      /\ pc = "propagate" /\ pc' = pc
      /\ UNCHANGED <<project, method, options, recorded, conflicts, round, planned>>
  BY DEF Propagate, request, Late
<1>2. TypeOK /\ start \in [Activities -> Nat] /\ recorded \in [Activities -> Nat \cup {Never}]
      /\ project.start \in [Activities -> Nat] /\ a \in Activities /\ l.from \in Activities
  BY ProjectParts DEF IInv, TypeOK, Links
<1>3. d \in Nat
  <2>1. d \in Int
    BY <1>2, LimitIsInt
  <2> QED
    BY <1>1, <1>2, <2>1
<1> HIDE DEF a, d
<1>4. TypeOK'
  BY <1>1, <1>2, <1>3 DEF TypeOK
<1>5. MovedAreLater'
  <2>1. start'[a] = d /\ \A b \in Activities \ {a} : start'[b] = start[b]
    BY <1>1, <1>2
  <2>2. /\ \A b \in Activities : project.start[b] <= start[b]
        /\ \A b \in moved : project.start[b] < start[b]
        /\ moved \subseteq Activities
    BY <1>2 DEF IInv, MovedAreLater, TypeOK
  <2>3. project.start[a] \in Nat /\ start[a] \in Nat /\ project.start[a] <= start[a]
    BY <1>2, <2>2
  <2>4. project.start[a] < d
    BY <1>1, <1>3, <2>3
  <2> QED
    BY <1>1, <1>3, <2>1, <2>2, <2>3, <2>4 DEF MovedAreLater
<1>6. LinksPending'
  <2> SUFFICES ASSUME NEW m \in project.links, ~Late(project.start, m),
                      m.from \notin moved, m.from # a
               PROVE  ~(Limit(start, m) > start'[m.to]) /\ Limit(start', m) = Limit(start, m)
    BY <1>1 DEF LinksPending, Late, Limit
  <2>1. m.from \in Activities /\ m.to \in Activities
    BY <1>2, ProjectParts DEF Links
  <2>2. start'[m.from] = start[m.from] /\ start[m.to] <= start'[m.to]
    BY <1>1, <1>2, <1>3, <2>1
  <2>3. Limit(start', m) = Limit(start, m)
    BY <2>2, LimitOfPredecessor
  <2>4. ~(Limit(start, m) > start[m.to])
    BY DEF IInv, LinksPending, Late
  <2>5. Limit(start, m) \in Int
    BY <1>2, LimitIsInt
  <2>6. start[m.to] \in Nat /\ start'[m.to] \in Nat
    BY <1>1, <1>2, <1>3, <2>1
  <2> QED
    BY <2>2, <2>3, <2>4, <2>5, <2>6
<1>7. MovesAreExplained'
  <2>1. \A b \in Activities : recorded'[b] # Never => recorded'[b] <= start'[b]
    BY <1>1, <1>2, <1>3 DEF IInv, MovesAreExplained
  <2>2. ASSUME NEW D \in SUBSET Activities,
               \A b \in Activities : recorded[b] # Never => b \in D,
               \A m \in project.links : m.from \in D => m.to \in D,
               NEW b \in Activities \ D
        PROVE  start'[b] = project.start[b]
    <3>1. \A x \in Activities \ D : start[x] = project.start[x]
      BY <2>2 DEF IInv, MovesAreExplained
    <3>2. project.start[l.from] < start[l.from]
      BY <1>1 DEF IInv, MovedAreLater
    <3>3. l.from \in D
      BY <1>2, <3>1, <3>2
    <3>4. a \in D
      BY <2>2, <3>3 DEF a
    <3> QED
      BY <1>1, <1>2, <3>1, <3>4
  <2> QED
    BY <1>1, <2>1, <2>2 DEF MovesAreExplained
<1> QED
  BY <1>4, <1>5, <1>6, <1>7 DEF IInv

LEMMA OneMoreRound ==
    ASSUME TypeOK, round < options.rounds, round' = round + 1
    PROVE  round' \in 0 .. options.rounds
<1>1. options.rounds \in Nat /\ round \in 0 .. options.rounds
  BY RoundsAssumption DEF TypeOK, Options
<1> QED
  BY <1>1

LEMMA ParallelShiftKeepsInv ==
    ASSUME IInv, NEW c \in conflicts, ParallelShift(c)
    PROVE  IInv'
<1>1. /\ pc = "level" /\ round' = round + 1 /\ round < options.rounds
      /\ conflicts' = conflicts \ {c}
  BY DEF ParallelShift, Iterate
<1>2. PICK a \in Yielding(c) :
          \E d \in Slot(a, c.resource, c.day + 1, start[a] + SearchDays) : Shift(a, d)
  BY DEF ParallelShift
<1>12. PICK d \in Slot(a, c.resource, c.day + 1, start[a] + SearchDays) : Shift(a, d)
  BY <1>2
<1>3. TypeOK
  BY DEF IInv
<1>4. c.day \in Nat /\ a \in Activities /\ c.day \in Window(start, a)
  BY <1>2, <1>3 DEF TypeOK, Yielding, Competing
<1>5. start[a] \in Nat /\ project.span[a] \in Nat
  BY <1>3, <1>4, ProjectParts DEF TypeOK
<1>6. start[a] <= c.day
  BY <1>4, <1>5 DEF Window
<1>7. c.day + 1 \in Nat /\ start[a] + SearchDays \in Nat /\ start[a] < start[a] + SearchDays
  BY <1>4, <1>5, SearchDaysAssumption
<1>8. d \in Nat /\ (c.day + 1 <= d \/ d = start[a] + SearchDays)
  BY <1>12, <1>7, SlotIsLater
<1>9. start[a] < d
  BY <1>4, <1>5, <1>6, <1>7, <1>8
<1>10. round' \in 0 .. options.rounds
  BY <1>1, <1>3, OneMoreRound
<1>11. conflicts' \subseteq [resource : Resources, day : Nat]
  BY <1>1, <1>3 DEF TypeOK
<1> QED
  BY <1>1, <1>12, <1>4, <1>8, <1>9, <1>10, <1>11, ShiftKeepsInv

LEMMA SerialShiftKeepsInv ==
    ASSUME IInv, NEW a \in Activities, SerialShift(a)
    PROVE  IInv'
<1>1. TypeOK
  BY DEF IInv
<1>2. /\ pc = "level" /\ round' = round + 1 /\ round < options.rounds
      /\ conflicts' = conflicts
  BY DEF SerialShift, Iterate
<1>3. PICK d \in Moves(a) : Shift(a, d)
  BY DEF SerialShift
<1>4. d \in Nat /\ start[a] < d
  BY <1>1, MovesAreLater
<1>5. round' \in 0 .. options.rounds
  BY <1>1, <1>2, OneMoreRound
<1>6. conflicts' \subseteq [resource : Resources, day : Nat]
  BY <1>1, <1>2 DEF TypeOK
<1> QED
  BY <1>2, <1>3, <1>4, <1>5, <1>6, ShiftKeepsInv

LEMMA SettleKeepsInv ==
    ASSUME IInv, Settle
    PROVE  IInv'
<1>1. /\ moved' = {} /\ pc' = "level"
      /\ conflicts' = IF method = "parallel" THEN Conflicts(start) ELSE {}
      /\ \A l \in project.links : l.from \in moved => ~Late(start, l)
      /\ UNCHANGED <<project, method, options, start, recorded, round, planned>>
  BY DEF Settle, request
<1>2. TypeOK'
  BY <1>1, ConflictsAreTyped DEF IInv, TypeOK
<1>3. MovedAreLater'
  BY <1>1 DEF IInv, MovedAreLater
<1>4. LinksPending'
  BY <1>1 DEF IInv, LinksPending, Late, Limit
<1>5. MovesAreExplained'
  BY <1>1 DEF IInv, MovesAreExplained
<1> QED
  BY <1>2, <1>3, <1>4, <1>5 DEF IInv

\* The other steps leave the dates alone.
LEMMA RestKeepsInv ==
    ASSUME IInv,
           UNCHANGED <<project, method, options, start, recorded, moved>>,
           conflicts' \subseteq conflicts, round' \in 0 .. options.rounds,
           planned' \in [Activities -> Nat \cup {Never}],
           pc # "propagate", pc' \in {"level", "done", "applied"}
    PROVE  IInv'
<1>1. TypeOK'
  BY DEF IInv, TypeOK
<1>2. MovedAreLater'
  BY DEF IInv, MovedAreLater
<1>3. LinksPending'
  BY DEF IInv, LinksPending, Late, Limit
<1>4. MovesAreExplained'
  BY DEF IInv, MovesAreExplained
<1> QED
  BY <1>1, <1>2, <1>3, <1>4 DEF IInv

LEMMA NextInv == IInv /\ [Next]_vars => IInv'
<1> SUFFICES ASSUME IInv, [Next]_vars PROVE IInv'
  OBVIOUS
<1>1. /\ round \in 0 .. options.rounds /\ options.rounds \in Nat
      /\ planned \in [Activities -> Nat \cup {Never}]
      /\ recorded \in [Activities -> Nat \cup {Never}]
      /\ pc \in {"level", "propagate", "done", "applied"}
  BY RoundsAssumption DEF IInv, TypeOK, Options
<1>2. CASE \E a \in Activities : SerialShift(a)
  BY <1>2, SerialShiftKeepsInv
<1>3. CASE \E c \in conflicts : ParallelShift(c)
  BY <1>3, ParallelShiftKeepsInv
<1>4. CASE \E c \in conflicts : PassOver(c)
  <2>1. /\ UNCHANGED <<project, method, options, start, recorded, moved, planned, pc>>
        /\ conflicts' \subseteq conflicts /\ round' = round + 1
        /\ round < options.rounds /\ pc = "level"
    BY <1>4 DEF PassOver, Iterate, request
  <2>2. round' \in 0 .. options.rounds
    BY <1>1, <2>1
  <2> QED
    BY <1>1, <2>1, <2>2, RestKeepsInv
<1>5. CASE \E l \in project.links : Propagate(l)
  BY <1>5, PropagateKeepsInv
<1>6. CASE Settle
  BY <1>6, SettleKeepsInv
<1>7. CASE Stop
  <2>1. /\ UNCHANGED <<project, method, options, start, recorded, conflicts, moved, planned>>
        /\ pc = "level" /\ pc' = "done"
        /\ round' = round \/ (round' = round + 1 /\ round < options.rounds)
    BY <1>7 DEF Stop, Iterate, request
  <2>2. round' \in 0 .. options.rounds
    BY <1>1, <2>1
  <2> QED
    BY <1>1, <2>1, <2>2, RestKeepsInv
<1>8. CASE \E chosen \in SUBSET Activities : Apply(chosen)
  <2>1. PICK chosen \in SUBSET Activities : Apply(chosen)
    BY <1>8
  <2>2. /\ UNCHANGED <<project, method, options, start, recorded, conflicts, moved, round>>
        /\ pc = "done" /\ pc' = "applied"
        /\ planned' = [a \in Activities |-> IF a \in chosen THEN recorded[a] ELSE planned[a]]
    BY <2>1 DEF Apply, request
  <2>3. planned' \in [Activities -> Nat \cup {Never}]
    BY <1>1, <2>2
  <2> QED
    BY <1>1, <2>2, <2>3, RestKeepsInv
<1>9. CASE UNCHANGED vars
  BY <1>9 DEF vars, IInv, TypeOK, MovedAreLater, LinksPending, Late, Limit, MovesAreExplained
<1> HIDE DEF IInv
<1> QED
  BY <1>2, <1>3, <1>4, <1>5, <1>6, <1>7, <1>8, <1>9 DEF Next, Step

-----------------------------------------------------------------------------
\* The request's dates, heap, records and iteration count keep their shape.
THEOREM TypeCorrect == Spec => []TypeOK
<1>1. IInv => TypeOK
  BY DEF IInv
<1> QED
  BY <1>1, InitInv, NextInv, PTL DEF Spec

\* At rest the working dates honour every link that the original dates
\* honoured: for every network, every mix of link types and lags (cycles
\* included), and every order in which propagation follows the links.
THEOREM LinksKept == Spec => []LinksStayHonoured
<1>1. IInv => LinksStayHonoured
  BY DEF IInv, MovedAreLater, LinksPending, LinksStayHonoured
<1> QED
  BY <1>1, InitInv, NextInv, PTL DEF Spec

\* The recorded shifts, and the links downstream of them, account for every
\* working date that differs from the original one.
THEOREM MovesExplained == Spec => []MovesAreExplained
<1>1. IInv => MovesAreExplained
  BY DEF IInv
<1> QED
  BY <1>1, InitInv, NextInv, PTL DEF Spec

\* Leveling never lets an activity start earlier than the schedule says.
THEOREM NeverEarlier ==
    Spec => [](\A a \in Activities : project.start[a] <= start[a])
<1>1. IInv => \A a \in Activities : project.start[a] <= start[a]
  BY DEF IInv, MovedAreLater
<1> QED
  BY <1>1, InitInv, NextInv, PTL DEF Spec

-----------------------------------------------------------------------------
(* What is given up. A conflict that is not on the heap any more, while the *)
(* dates are those it was found with, has nobody who may be delayed; and    *)
(* the serial algorithm that ended before its last round could move nothing.*)
HeapIsComplete ==
    method = "parallel" /\ pc # "propagate" =>
        \A c \in Conflicts(start) \ conflicts : \A a \in Competing(start, c) : ~Delayable(a)

NothingCouldMove ==
    pc \in {"done", "applied"} /\ method = "serial" /\ round < options.rounds =>
        \A a \in Activities : Moves(a) = {}

StuckInv == HeapIsComplete /\ NothingCouldMove

LEMMA SameDatesSameLoads ==
    ASSUME UNCHANGED <<project, options, start>>
    PROVE  /\ Conflicts(start)' = Conflicts(start)
           /\ \A a \in Activities : Moves(a)' = Moves(a)
           /\ \A a \in Activities : Delayable(a)' = Delayable(a)
           /\ \A c : Competing(start, c)' = Competing(start, c)
<1>1. \A s, group, r, d : Load(s, group, r, d)' = Load(s, group, r, d)
  BY DEF Load, Window
<1>2. \A a, r, d : Fits(a, r, d)' = Fits(a, r, d)
  BY <1>1 DEF Fits
<1>3. \A a, r, from, otherwise : Slot(a, r, from, otherwise)' = Slot(a, r, from, otherwise)
  BY <1>2 DEF Slot
<1>4. \A a : Exceeded(a)' = Exceeded(a)
  BY <1>1 DEF Exceeded, Overloaded, Assigned, Window
<1>5. \A a : Moves(a)' = Moves(a)
  BY <1>3, <1>4 DEF Moves, MayDelay
<1>6. \A c : Competing(start, c)' = Competing(start, c)
  BY DEF Competing, Assigned, Window
<1>7. Conflicts(start)' = Conflicts(start)
  BY <1>1, <1>6 DEF Conflicts, Leveled, Window
<1>8. \A a : Delayable(a)' = Delayable(a)
  BY DEF Delayable
<1> QED
  BY <1>5, <1>6, <1>7, <1>8

LEMMA InitStuck == Init => StuckInv
BY DEF Init, StuckInv, HeapIsComplete, NothingCouldMove

LEMMA NextStuck == TypeOK /\ StuckInv /\ [Next]_vars => StuckInv'
<1> SUFFICES ASSUME TypeOK, StuckInv, [Next]_vars PROVE StuckInv'
  OBVIOUS
<1>1. CASE pc' = "propagate"
  BY <1>1 DEF StuckInv, HeapIsComplete, NothingCouldMove
<1>2. CASE \E a \in Activities : SerialShift(a)
  BY <1>1, <1>2 DEF SerialShift, Shift
<1>3. CASE \E c \in conflicts : ParallelShift(c)
  BY <1>1, <1>3 DEF ParallelShift, Shift
<1>4. CASE \E l \in project.links : Propagate(l)
  BY <1>1, <1>4 DEF Propagate
<1>5. ASSUME NEW c \in conflicts, PassOver(c)
      PROVE  StuckInv'
  <2>1. /\ UNCHANGED <<project, method, options, start, pc>> /\ pc = "level"
        /\ conflicts' = conflicts \ {c}
        /\ \A a \in Competing(start, c) : ~Delayable(a)
    BY <1>5 DEF PassOver, Iterate, request
  <2>2. HeapIsComplete'
    BY <2>1, SameDatesSameLoads DEF StuckInv, HeapIsComplete, Competing
  <2>3. NothingCouldMove'
    BY <2>1 DEF NothingCouldMove
  <2> QED
    BY <2>2, <2>3 DEF StuckInv
<1>6. CASE Settle
  <2>1. /\ UNCHANGED <<project, method, options, start>> /\ pc' = "level"
        /\ conflicts' = IF method = "parallel" THEN Conflicts(start) ELSE {}
    BY <1>6 DEF Settle, request
  <2>2. HeapIsComplete'
    BY <2>1, SameDatesSameLoads DEF HeapIsComplete
  <2>3. NothingCouldMove'
    BY <2>1 DEF NothingCouldMove
  <2> QED
    BY <2>2, <2>3 DEF StuckInv
<1>7. CASE Stop
  <2>1. /\ UNCHANGED <<project, method, options, start, conflicts>> /\ pc = "level"
        /\ \/ round = options.rounds /\ round' = round
           \/ method = "parallel"
           \/ \A a \in Activities : Moves(a) = {}
    BY <1>7 DEF Stop, Iterate, request
  <2>2. HeapIsComplete'
    BY <2>1, SameDatesSameLoads DEF StuckInv, HeapIsComplete, Competing
  <2>3. NothingCouldMove'
    <3>1. round \in 0 .. options.rounds /\ options.rounds \in Nat
      BY RoundsAssumption DEF TypeOK, Options
    <3>3. CASE \A a \in Activities : Moves(a) = {}
      BY <2>1, <3>3, SameDatesSameLoads DEF NothingCouldMove
    <3>4. CASE ~(\A a \in Activities : Moves(a) = {})
      <4>1. method = "parallel" \/ (round' = round /\ ~(round < options.rounds))
        BY <2>1, <3>1, <3>4
      <4> QED
        BY <2>1, <4>1 DEF NothingCouldMove
    <3> QED
      BY <3>3, <3>4
  <2> QED
    BY <2>2, <2>3 DEF StuckInv
<1>8. ASSUME NEW chosen \in SUBSET Activities, Apply(chosen)
      PROVE  StuckInv'
  <2>1. /\ UNCHANGED <<project, method, options, start, conflicts, round>>
        /\ pc = "done" /\ method = "serial"
    BY <1>8 DEF Apply, request
  <2>2. HeapIsComplete'
    BY <2>1 DEF HeapIsComplete
  <2>3. NothingCouldMove'
    BY <2>1, SameDatesSameLoads DEF StuckInv, NothingCouldMove
  <2> QED
    BY <2>2, <2>3 DEF StuckInv
<1>9. CASE UNCHANGED vars
  <2>1. UNCHANGED <<project, method, options, start, conflicts, round, pc>>
    BY <1>9 DEF vars
  <2>2. HeapIsComplete'
    BY <2>1, SameDatesSameLoads DEF StuckInv, HeapIsComplete, Competing
  <2>3. NothingCouldMove'
    BY <2>1, SameDatesSameLoads DEF StuckInv, NothingCouldMove
  <2> QED
    BY <2>2, <2>3 DEF StuckInv
<1> HIDE DEF StuckInv
<1> QED
  BY <1>2, <1>3, <1>4, <1>5, <1>6, <1>7, <1>8, <1>9 DEF Next, Step

\* A conflict is given up only when nobody involved may be delayed, and the
\* serial algorithm stops early only when nothing can be moved.
THEOREM LeftoversStuck == Spec => []LeftoversAreStuck
<1>1. TypeOK /\ StuckInv => LeftoversAreStuck
  BY DEF StuckInv, HeapIsComplete, NothingCouldMove, LeftoversAreStuck
<1> QED
  BY <1>1, InitStuck, NextStuck, TypeCorrect, PTL DEF Spec

-----------------------------------------------------------------------------
(***************************************************************************)
(* Sums. Total is a fold that takes one element after the other, in the    *)
(* order that CHOOSE has them. Induction over the finite sets, as the      *)
(* least counterexample of the strict subset order, shows that the order   *)
(* does not matter: any element may be taken out first.                    *)
(***************************************************************************)
Pick(s) == CHOOSE x \in s : TRUE

\* g is the fold's table of the sums of f over the subsets of S.
Sums(g, f, S) ==
    g = [s \in SUBSET S |-> IF s = {} THEN 0 ELSE f[Pick(s)] + g[s \ {Pick(s)}]]

SumTable(f, S) == CHOOSE g : Sums(g, f, S)

LEMMA TotalIsSum ==
    ASSUME NEW f, NEW S
    PROVE  Total(f, S) = SumTable(f, S)[S]
BY DEF Total, FoldFunctionOnSet, MapThenFoldSet, SumTable, Sums, Pick

LEMMA PickIn ==
    ASSUME NEW s, s # {}
    PROVE  Pick(s) \in s
BY DEF Pick

\* Among sets of subsets of a finite set there is always a least one.
LEMMA LeastSubset ==
    ASSUME NEW S, IsFiniteSet(S), NEW T, T \subseteq SUBSET S, T # {}
    PROVE  \E s \in T : \A t \in SUBSET s : t # s => t \notin T
<1>1. T \subseteq FiniteSubsetsOf(S)
  BY FS_Subset DEF FiniteSubsetsOf
<1>2. PICK s \in T : \A t \in T : ~(<<t, s>> \in StrictSubsetOrdering(S))
  BY <1>1, FS_StrictSubsetOrderingWellFounded, WFMin
<1> QED
  BY <1>2 DEF StrictSubsetOrdering

\* Two tables agree wherever both have a sum.
LEMMA SumsAgree ==
    ASSUME NEW f, NEW S, IsFiniteSet(S), NEW U, NEW g, NEW h, Sums(g, f, S), Sums(h, f, U),
           NEW s \in SUBSET S, s \in SUBSET U
    PROVE  g[s] = h[s]
<1> DEFINE T == {t \in SUBSET S : t \subseteq U /\ g[t] # h[t]}
<1>1. SUFFICES ASSUME T # {} PROVE FALSE
  OBVIOUS
<1>2. PICK t \in T : \A u \in SUBSET t : u # t => u \notin T
  <2> HIDE DEF T
  <2>1. T \subseteq SUBSET S
    BY DEF T
  <2> QED
    BY <1>1, <2>1, LeastSubset
<1>3. t \subseteq S /\ t \subseteq U
  OBVIOUS
<1>4. /\ g[t] = IF t = {} THEN 0 ELSE f[Pick(t)] + g[t \ {Pick(t)}]
      /\ h[t] = IF t = {} THEN 0 ELSE f[Pick(t)] + h[t \ {Pick(t)}]
  BY <1>3 DEF Sums
<1>5. t # {} => t \ {Pick(t)} \in SUBSET t /\ t \ {Pick(t)} # t
  BY PickIn
<1>6. t # {} => g[t \ {Pick(t)}] = h[t \ {Pick(t)}]
  BY <1>2, <1>3, <1>5
<1> QED
  BY <1>4, <1>6

LEMMA SumTableExists ==
    ASSUME NEW f, NEW S, IsFiniteSet(S)
    PROVE  Sums(SumTable(f, S), f, S)
<1> DEFINE T == {t \in SUBSET S : ~Sums(SumTable(f, t), f, t)}
<1>1. SUFFICES ASSUME T # {} PROVE FALSE
  <2>1. S \in SUBSET S
    OBVIOUS
  <2> QED
    BY <2>1
<1>2. PICK t \in T : \A u \in SUBSET t : u # t => u \notin T
  <2> HIDE DEF T
  <2>1. T \subseteq SUBSET S
    BY DEF T
  <2> QED
    BY <1>1, <2>1, LeastSubset
<1>3. t \subseteq S /\ ~Sums(SumTable(f, t), f, t)
  OBVIOUS
<1>4. \A u \in SUBSET t : u # t => Sums(SumTable(f, u), f, u) /\ IsFiniteSet(u)
  BY <1>2, <1>3, FS_Subset
<1> HIDE DEF T
<1> DEFINE Next1(s, v) == IF s = {} THEN 0 ELSE f[Pick(s)] + v
           h == [s \in SUBSET t |-> IF s = t THEN Next1(t, SumTable(f, t \ {Pick(t)})[t \ {Pick(t)}])
                                    ELSE SumTable(f, s)[s]]
<1>5. ASSUME NEW s \in SUBSET t
      PROVE  h[s] = IF s = {} THEN 0 ELSE f[Pick(s)] + h[s \ {Pick(s)}]
  <2>1. CASE s = {}
    <3>1. CASE s = t
      BY <2>1, <3>1
    <3>2. CASE s # t
      <4>1. Sums(SumTable(f, s), f, s) /\ s \in SUBSET s
        BY <1>4, <3>2
      <4>2. SumTable(f, s)[s] = 0
        BY <2>1, <4>1 DEF Sums
      <4> QED
        BY <2>1, <3>2, <4>2
    <3> QED
      BY <3>1, <3>2
  <2>2. CASE s # {}
    <3> DEFINE u == s \ {Pick(s)}
    <3>1. u \in SUBSET s /\ u \in SUBSET t /\ u # s /\ u # t
      BY <2>2, PickIn
    <3>2. h[u] = SumTable(f, u)[u]
      BY <3>1
    <3>3. CASE s = t
      BY <2>2, <3>2, <3>3
    <3>4. CASE s # t
      <4>1. Sums(SumTable(f, s), f, s) /\ Sums(SumTable(f, u), f, u) /\ IsFiniteSet(s)
        BY <1>4, <3>1, <3>4
      <4>2. SumTable(f, s)[u] = SumTable(f, u)[u]
        <5>1. u \in SUBSET u
          OBVIOUS
        <5> HIDE DEF u
        <5> QED
          BY <3>1, <4>1, <5>1, SumsAgree
      <4>3. SumTable(f, s)[s] = f[Pick(s)] + SumTable(f, s)[u]
        <5>1. s \in SUBSET s
          OBVIOUS
        <5> QED
          BY <2>2, <4>1, <5>1 DEF Sums
      <4>4. h[s] = SumTable(f, s)[s]
        BY <3>4
      <4> HIDE DEF h
      <4> QED
        BY <2>2, <3>2, <4>2, <4>3, <4>4
    <3> QED
      BY <3>3, <3>4
  <2> QED
    BY <2>1, <2>2
<1>6. h = [s \in SUBSET t |-> h[s]]
  OBVIOUS
<1> HIDE DEF h
<1>7. Sums(h, f, t)
  BY <1>5, <1>6 DEF Sums
<1>8. Sums(SumTable(f, t), f, t)
  BY <1>7 DEF SumTable
<1> QED
  BY <1>3, <1>8

\* A sum is that of the picked element and of the rest.
LEMMA TotalStep ==
    ASSUME NEW f, NEW S, IsFiniteSet(S)
    PROVE  /\ Total(f, {}) = 0
           /\ S # {} => Total(f, S) = f[Pick(S)] + Total(f, S \ {Pick(S)})
<1>1. \A U : IsFiniteSet(U) => Sums(SumTable(f, U), f, U)
  BY SumTableExists
<1>2. Total(f, {}) = 0
  <2>1. Sums(SumTable(f, {}), f, {}) /\ {} \in SUBSET {}
    BY <1>1, FS_EmptySet
  <2> QED
    BY <2>1, TotalIsSum DEF Sums
<1>3. ASSUME S # {} PROVE Total(f, S) = f[Pick(S)] + Total(f, S \ {Pick(S)})
  <2> DEFINE u == S \ {Pick(S)}
  <2>1. u \in SUBSET S /\ u \in SUBSET u /\ S \in SUBSET S
    OBVIOUS
  <2>2. IsFiniteSet(u)
    BY FS_Subset
  <2>3. SumTable(f, S)[S] = f[Pick(S)] + SumTable(f, S)[u]
    BY <1>1, <1>3, <2>1 DEF Sums
  <2> HIDE DEF u
  <2>4. SumTable(f, S)[u] = SumTable(f, u)[u]
    <3>1. Sums(SumTable(f, S), f, S) /\ Sums(SumTable(f, u), f, u)
      BY <1>1, <2>2
    <3> QED
      BY <2>1, <3>1, SumsAgree
  <2> QED
    BY <2>3, <2>4, TotalIsSum DEF u
<1> QED
  BY <1>2, <1>3

LEMMA TotalIsNat ==
    ASSUME NEW f, NEW S, IsFiniteSet(S), \A x \in S : f[x] \in Nat
    PROVE  Total(f, S) \in Nat
<1> DEFINE T == {t \in SUBSET S : Total(f, t) \notin Nat}
<1>1. SUFFICES ASSUME T # {} PROVE FALSE
  <2>1. S \in SUBSET S
    OBVIOUS
  <2> QED
    BY <2>1
<1>2. PICK t \in T : \A u \in SUBSET t : u # t => u \notin T
  <2> HIDE DEF T
  <2>1. T \subseteq SUBSET S
    BY DEF T
  <2> QED
    BY <1>1, <2>1, LeastSubset
<1>3. t \in SUBSET S /\ Total(f, t) \notin Nat
  OBVIOUS
<1>4. t # {} /\ Total(f, t) = f[Pick(t)] + Total(f, t \ {Pick(t)})
  <2>1. IsFiniteSet(t)
    BY <1>3, FS_Subset
  <2>2. Total(f, {}) = 0 /\ 0 \in Nat
    BY <2>1, TotalStep
  <2>3. t # {}
    BY <1>3, <2>2
  <2> QED
    BY <2>1, <2>3, TotalStep
<1>5. Pick(t) \in t /\ f[Pick(t)] \in Nat
  BY <1>3, <1>4, PickIn
<1>6. Total(f, t \ {Pick(t)}) \in Nat
  BY <1>2, <1>3, <1>5
<1> QED
  BY <1>3, <1>4, <1>5, <1>6

\* Any element can be taken out of a sum.
LEMMA TotalWithout ==
    ASSUME NEW f, NEW S, IsFiniteSet(S), \A x \in S : f[x] \in Nat, NEW a \in S
    PROVE  Total(f, S) = f[a] + Total(f, S \ {a})
<1> DEFINE Splits(t) == \A x \in t : Total(f, t) = f[x] + Total(f, t \ {x})
           T == {t \in SUBSET S : ~Splits(t)}
<1>1. SUFFICES ASSUME T # {} PROVE FALSE
  <2>1. S \in SUBSET S
    OBVIOUS
  <2> QED
    BY <2>1
<1>2. PICK t \in T : \A u \in SUBSET t : u # t => u \notin T
  <2> HIDE DEF T
  <2>1. T \subseteq SUBSET S
    BY DEF T
  <2> QED
    BY <1>1, <2>1, LeastSubset
<1>3. t \in SUBSET S /\ IsFiniteSet(t)
  BY FS_Subset
<1>4. PICK x \in t : Total(f, t) # f[x] + Total(f, t \ {x})
  BY <1>2
<1> DEFINE p == Pick(t)
<1>5. p \in t /\ Total(f, t) = f[p] + Total(f, t \ {p})
  BY <1>3, <1>4, TotalStep, PickIn
<1>6. p # x
  BY <1>4, <1>5
<1>7. Splits(t \ {p}) /\ Splits(t \ {x})
  <2>1. /\ t \ {p} \in SUBSET S /\ t \ {p} # t /\ t \ {p} \in SUBSET t
        /\ t \ {x} \in SUBSET S /\ t \ {x} # t /\ t \ {x} \in SUBSET t
    BY <1>3, <1>4, <1>5
  <2> QED
    BY <1>2, <2>1
<1>8. Total(f, t \ {p}) = f[x] + Total(f, (t \ {p}) \ {x})
  BY <1>4, <1>6, <1>7
<1>9. Total(f, t \ {x}) = f[p] + Total(f, (t \ {x}) \ {p})
  BY <1>5, <1>6, <1>7
<1>10. (t \ {p}) \ {x} = (t \ {x}) \ {p}
  OBVIOUS
<1>11. /\ f[x] \in Nat /\ f[p] \in Nat /\ Total(f, (t \ {x}) \ {p}) \in Nat
  <2>1. (t \ {x}) \ {p} \in SUBSET S /\ IsFiniteSet((t \ {x}) \ {p})
    BY <1>3, FS_Subset
  <2> QED
    BY <1>3, <1>4, <1>5, <2>1, TotalIsNat
<1> HIDE DEF p, T, Splits
<1>12. Total(f, t) = f[x] + Total(f, t \ {x})
  <2>1. \A i, j, k \in Nat : i + (j + k) = j + (i + k)
    OBVIOUS
  <2> DEFINE rest == Total(f, (t \ {x}) \ {p})
  <2>2. Total(f, t) = f[p] + (f[x] + rest) /\ f[x] + Total(f, t \ {x}) = f[x] + (f[p] + rest)
    BY <1>5, <1>8, <1>9, <1>10
  <2> HIDE DEF rest
  <2> QED
    BY <1>11, <2>1, <2>2 DEF rest
<1> QED
  BY <1>4, <1>12

-----------------------------------------------------------------------------
(* Free slots.                                                              *)

\* What resource r carries on a day of activity a: a's own units and the rest.
LEMMA LoadWithout ==
    ASSUME TypeOK, NEW s, NEW a \in Activities, NEW r \in Resources, NEW day \in Window(s, a)
    PROVE  /\ Load(s, Activities, r, day)
                = project.units[a][r] + Load(s, Activities \ {a}, r, day)
           /\ Load(s, Activities, r, day) \in Nat
<1> DEFINE f == [x \in Activities |-> project.units[x][r]]
           group == {x \in Activities : day \in Window(s, x)}
<1>1. group \in SUBSET Activities /\ a \in group
  OBVIOUS
<1>2. \A x \in group : f[x] \in Nat /\ f[x] = project.units[x][r]
  BY ProjectsAssumption DEF TypeOK, Project
<1>3. group \ {a} = {x \in Activities \ {a} : day \in Window(s, x)}
  OBVIOUS
<1>4. /\ Load(s, Activities, r, day) = Total(f, group)
      /\ Load(s, Activities \ {a}, r, day) = Total(f, group \ {a})
  BY <1>3 DEF Load
<1>5. IsFiniteSet(group)
  BY <1>1, ActivitiesAssumption, FS_Subset
<1> HIDE DEF f, group
<1> QED
  BY <1>1, <1>2, <1>4, <1>5, TotalIsNat, TotalWithout

\* In a slot that fits, the activity and the others stay within capacity.
LEMMA FittingIsFree ==
    ASSUME TypeOK, NEW a \in Activities, NEW r \in Resources, NEW d, Fits(a, r, d),
           start' = [start EXCEPT ![a] = d]
    PROVE  ~Overloaded(start', r, Window(start', a))
<1>1. /\ start'[a] = d /\ \A x \in Activities \ {a} : start'[x] = start[x]
  BY DEF TypeOK
<1>2. SUFFICES ASSUME NEW day \in Weekdays(Window(start', a))
               PROVE  ~(Load(start', Activities, r, day) > Capacity)
  BY DEF Overloaded
<1>3. day \in Window(start', a) /\ day \in Weekdays(d .. (d + project.span[a]))
  BY <1>1 DEF Weekdays, Window
<1>4. Load(start', Activities \ {a}, r, day) = Load(start, Activities \ {a}, r, day)
  <2>1. {x \in Activities \ {a} : day \in Window(start', x)}
        = {x \in Activities \ {a} : day \in Window(start, x)}
    BY <1>1 DEF Window
  <2> QED
    BY <2>1 DEF Load
<1>5. Load(start, Activities \ {a}, r, day) + project.units[a][r] <= Capacity
  BY <1>3 DEF Fits
<1>6. /\ Load(start', Activities, r, day)
            = project.units[a][r] + Load(start, Activities \ {a}, r, day)
      /\ Load(start', Activities, r, day) \in Nat
  BY <1>3, <1>4, LoadWithout
<1>7. project.units[a][r] \in Nat /\ Load(start, Activities \ {a}, r, day) \in Nat
  <2>1. project.units[a][r] \in Nat
    BY ProjectsAssumption DEF TypeOK, Project
  <2> DEFINE group == {x \in Activities \ {a} : day \in Window(start, x)}
             f == [x \in Activities |-> project.units[x][r]]
  <2>2. group \in SUBSET Activities /\ IsFiniteSet(group)
    BY ActivitiesAssumption, FS_Subset
  <2>3. \A x \in group : f[x] \in Nat
    BY ProjectsAssumption DEF TypeOK, Project
  <2>4. Load(start, Activities \ {a}, r, day) = Total(f, group)
    BY DEF Load
  <2> HIDE DEF group, f
  <2> QED
    BY <2>1, <2>2, <2>3, <2>4, TotalIsNat
<1> QED
  BY <1>5, <1>6, <1>7, CapacityAssumption

\* A delay to a free slot resolves: for every program and capacity, an activity
\* that leveling moves to anywhere but the end of the search has a resource of
\* its own that is within capacity on all the weekdays of its new dates. The
\* capacity that the search sums up without the activity and the one that the
\* overload check sums up with it are the same.
THEOREM SlotsFree == Spec => SlotsAreFree
<1>1. TypeOK /\ [Next]_vars =>
        (\A a \in Activities :
            pc = "level" /\ start'[a] \notin {start[a], start[a] + SearchDays} =>
               \E r \in Assigned(a) : ~Overloaded(start', r, Window(start', a)))
  <2> SUFFICES ASSUME TypeOK, [Next]_vars, NEW a \in Activities, pc = "level",
                      start'[a] \notin {start[a], start[a] + SearchDays}
               PROVE  \E r \in Assigned(a) : ~Overloaded(start', r, Window(start', a))
    OBVIOUS
  <2>1. ASSUME NEW b \in Activities, NEW r \in Assigned(b), NEW from, NEW d,
               d \in Slot(b, r, from, start[b] + SearchDays), Shift(b, d)
        PROVE  \E x \in Assigned(a) : ~Overloaded(start', x, Window(start', a))
    <3>1. start' = [start EXCEPT ![b] = d] /\ DOMAIN start = Activities
      BY <2>1 DEF Shift, TypeOK
    <3>2. a = b /\ d # start[b] + SearchDays
      BY <3>1
    <3>3. Fits(b, r, d)
      BY <2>1, <3>2 DEF Slot
    <3>4. r \in Resources
      BY DEF Assigned
    <3> QED
      BY <3>1, <3>2, <3>3, <3>4, FittingIsFree
  <2>2. ASSUME NEW b \in Activities, SerialShift(b)
        PROVE  \E x \in Assigned(a) : ~Overloaded(start', x, Window(start', a))
    <3>1. PICK d \in Moves(b) : Shift(b, d)
      BY <2>2 DEF SerialShift
    <3>2. PICK r \in Exceeded(b) : d \in Slot(b, r, start[b], start[b] + SearchDays)
      BY DEF Moves
    <3>3. r \in Assigned(b)
      BY DEF Exceeded
    <3> QED
      BY <2>1, <3>1, <3>2, <3>3
  <2>3. ASSUME NEW c \in conflicts, ParallelShift(c)
        PROVE  \E x \in Assigned(a) : ~Overloaded(start', x, Window(start', a))
    <3>1. PICK b \in Yielding(c) :
              \E d \in Slot(b, c.resource, c.day + 1, start[b] + SearchDays) : Shift(b, d)
      BY <2>3 DEF ParallelShift
    <3>2. b \in Activities /\ c.resource \in Assigned(b)
      BY DEF Yielding, Competing
    <3> QED
      BY <2>1, <3>1, <3>2
  <2>4. ASSUME \/ UNCHANGED vars
               \/ \E c \in conflicts : PassOver(c)
               \/ \E l \in project.links : Propagate(l)
               \/ Settle \/ Stop
               \/ \E chosen \in SUBSET Activities : Apply(chosen)
        PROVE  start' = start
    BY <2>4 DEF vars, PassOver, Propagate, Settle, Stop, Apply
  <2> QED
    BY <2>2, <2>3, <2>4 DEF Next, Step
<1> QED
  BY <1>1, TypeCorrect, PTL DEF Spec, SlotsAreFree
=============================================================================
