----------------------- MODULE DependencyGraphProofs -----------------------
(***************************************************************************)
(* Theorems about DependencyGraph, for any set of activities, any pairs    *)
(* and any number of concurrent creations.                                 *)
(***************************************************************************)
EXTENDS DependencyGraph, TLAPS

THEOREM TypeCorrect == Spec => []TypeOK
PROOF
  <1>1. Init => TypeOK
    BY DEF Init, TypeOK, RowState
  <1>2. TypeOK /\ [Next]_vars => TypeOK'
    <2> SUFFICES ASSUME TypeOK, [Next]_vars PROVE TypeOK'
      OBVIOUS
    <2> USE DEF TypeOK, RowState
    <2>1. ASSUME NEW r \in Requests, NEW p \in Pairs, VerifyActivities(r, p)
          PROVE  TypeOK'
      BY <2>1 DEF VerifyActivities
    <2>2. ASSUME NEW r \in Requests, CheckDuplicate(r) PROVE TypeOK'
      BY <2>2 DEF CheckDuplicate
    <2>3. ASSUME NEW r \in Requests, AcceptAcyclic(r) PROVE TypeOK'
      BY <2>3 DEF AcceptAcyclic
    <2>4. ASSUME NEW r \in Requests, RejectCircular(r) PROVE TypeOK'
      BY <2>4 DEF RejectCircular
    <2>5. ASSUME NEW r \in Requests, Insert(r) PROVE TypeOK'
      BY <2>5 DEF Insert
    <2>6. ASSUME NEW r \in Requests, Commit(r) PROVE TypeOK'
      BY <2>6 DEF Commit
    <2>7. ASSUME NEW r \in Requests, Abandon(r) PROVE TypeOK'
      BY <2>7 DEF Abandon
    <2>8. ASSUME NEW a \in Activities, CreateActivity(a) PROVE TypeOK'
      BY <2>8 DEF CreateActivity
    <2>9. ASSUME NEW a \in Activities, DeleteActivity(a) PROVE TypeOK'
      BY <2>9 DEF DeleteActivity
    <2>10. ASSUME NEW p \in Pairs, DeleteDependency(p) PROVE TypeOK'
      BY <2>10 DEF DeleteDependency
    <2>11. ASSUME NEW news \in SUBSET Activities, NEW links \in SUBSET Pairs,
                  ImportProject(news, links)
           PROVE  TypeOK'
      BY <2>11 DEF ImportProject
    <2>12. CASE UNCHANGED vars
      BY <2>12 DEF vars
    <2>13. QED
      BY <2>1, <2>2, <2>3, <2>4, <2>5, <2>6, <2>7, <2>8, <2>9, <2>10, <2>11,
         <2>12 DEF Next, Create
  <1>3. QED
    BY <1>1, <1>2, PTL DEF Spec

-----------------------------------------------------------------------------
\* Two acyclic graphs of which the second has all its links among activities
\* that the first does not touch are acyclic together.
LEMMA DisjointUnionAcyclic ==
    ASSUME NEW E \in SUBSET (Activities \X Activities),
           NEW D \in SUBSET (Activities \X Activities),
           NEW news \in SUBSET Activities,
           Acyclic(E), Acyclic(D),
           \A p \in E : p[1] \notin news /\ p[2] \notin news,
           \A p \in D : p[1] \in news /\ p[2] \in news
    PROVE  Acyclic(E \cup D)
  <1> SUFFICES ASSUME NEW S \in SUBSET Activities, S # {}
               PROVE  \E a \in S : \A b \in S : <<b, a>> \notin E \cup D
    BY DEF Acyclic
  <1>1. CASE S \cap news # {}
    <2>1. PICK a \in S \cap news : \A b \in S \cap news : <<b, a>> \notin D
      BY <1>1 DEF Acyclic
    <2>2. ASSUME NEW b \in S
          PROVE  <<b, a>> \notin E \cup D
      <3>1. <<b, a>> \notin E
        BY <2>1
      <3>2. <<b, a>> \notin D
        BY <2>1
      <3>3. QED
        BY <3>1, <3>2
    <2>3. QED
      BY <2>1, <2>2
  <1>2. CASE S \cap news = {}
    <2>1. PICK a \in S : \A b \in S : <<b, a>> \notin E
      BY DEF Acyclic
    <2>2. \A b \in S : <<b, a>> \notin D
      BY <1>2, <2>1
    <2>3. QED
      BY <2>1, <2>2
  <1>3. QED
    BY <1>1, <1>2

(***************************************************************************)
(* The invariant behind the cycle check. A request that has passed the     *)
(* check may commit without closing a cycle as long as nothing has been    *)
(* committed since: the graph it checked is then still the graph, up to    *)
(* imported activities that the request's own pair cannot touch.           *)
(***************************************************************************)
EndsKnown ==
    /\ \A p \in Rows : activity[p[1]] # "absent" /\ activity[p[2]] # "absent"
    /\ \A r \in Requests : pc[r] # "idle" =>
            activity[pair[r][1]] # "absent" /\ activity[pair[r][2]] # "absent"

CheckHolds ==
    \A r \in Requests :
        Checked(r) /\ committedSince[r] = {} /\ Acyclic(Rows)
            => Acyclic(Rows \cup {pair[r]})

IInv == TypeOK /\ EndsKnown /\ CheckHolds

LEMMA RowsArePairs == Rows \subseteq Pairs /\ Rows' \subseteq Pairs
  BY DEF Rows

\* A step that leaves the rows alone keeps them, for every reading of them.
LEMMA SameRows == dependency' = dependency => Rows' = Rows
  BY DEF Rows

LEMMA CommitRows ==
    ASSUME TypeOK, NEW r \in Requests, Commit(r)
    PROVE  Rows' = Rows \cup {pair[r]}
  BY DEF TypeOK, Commit, Rows

LEMMA ImportRows ==
    ASSUME TypeOK, NEW news \in SUBSET Activities, NEW links \in SUBSET Pairs,
           ImportProject(news, links)
    PROVE  Rows' = Rows \cup links
  BY DEF TypeOK, ImportProject, Rows

LEMMA NextIInv ==
    ASSUME IInv, TypeOK', [Next]_vars
    PROVE  EndsKnown' /\ CheckHolds'
  <1> USE DEF IInv
  <1>1. ASSUME NEW r \in Requests, NEW p \in Pairs, VerifyActivities(r, p)
        PROVE  EndsKnown' /\ CheckHolds'
    BY <1>1, SameRows
       DEF VerifyActivities, EndsKnown, CheckHolds, Checked, TypeOK
  <1>2. ASSUME NEW r \in Requests, CheckDuplicate(r)
        PROVE  EndsKnown' /\ CheckHolds'
    BY <1>2, SameRows
       DEF CheckDuplicate, EndsKnown, CheckHolds, Checked, TypeOK
  <1>3. ASSUME NEW r \in Requests, AcceptAcyclic(r)
        PROVE  EndsKnown' /\ CheckHolds'
    BY <1>3, SameRows
       DEF AcceptAcyclic, PassesCycleCheck, EndsKnown, CheckHolds, Checked,
           TypeOK
  <1>4. ASSUME NEW r \in Requests, RejectCircular(r)
        PROVE  EndsKnown' /\ CheckHolds'
    BY <1>4, SameRows
       DEF RejectCircular, EndsKnown, CheckHolds, Checked, TypeOK
  <1>5. ASSUME NEW r \in Requests, Insert(r)
        PROVE  EndsKnown' /\ CheckHolds'
    BY <1>5, SameRows DEF Insert, EndsKnown, CheckHolds, Checked, TypeOK
  <1>6. ASSUME NEW r \in Requests, Commit(r)
        PROVE  EndsKnown' /\ CheckHolds'
    <2>1. Rows' = Rows \cup {pair[r]}
      BY <1>6, CommitRows
    <2>2. EndsKnown'
      BY <1>6, <2>1 DEF Commit, EndsKnown, TypeOK
    <2>3. \A q \in Requests : committedSince'[q] = {} => q = r \/ ~Checked(q)
      BY <1>6 DEF Commit
    <2>4. \A q \in Requests : Checked(q)' => q # r /\ Checked(q)
      BY <1>6 DEF Commit, Checked, TypeOK
    <2>5. QED
      BY <2>2, <2>3, <2>4 DEF CheckHolds
  <1>7. ASSUME NEW r \in Requests, Abandon(r)
        PROVE  EndsKnown' /\ CheckHolds'
    BY <1>7, SameRows DEF Abandon, EndsKnown, CheckHolds, Checked, TypeOK
  <1>8. ASSUME NEW a \in Activities, CreateActivity(a) \/ DeleteActivity(a)
        PROVE  EndsKnown' /\ CheckHolds'
    <2>1. /\ \A b \in Activities : activity[b] # "absent" => activity'[b] # "absent"
          /\ UNCHANGED <<dependency, pc, pair, committedSince>>
      BY <1>8 DEF CreateActivity, DeleteActivity, TypeOK
    <2>2. Rows \subseteq Activities \X Activities
      BY RowsArePairs, PairsAssumption
    <2>3. \A r \in Requests : pair[r] \in Activities \X Activities
      BY PairsAssumption DEF TypeOK
    <2>4. QED
      BY <2>1, <2>2, <2>3, SameRows DEF EndsKnown, CheckHolds, Checked
  <1>9. ASSUME NEW p \in Pairs, DeleteDependency(p)
        PROVE  EndsKnown' /\ CheckHolds'
    <2>1. Rows' = Rows
      BY <1>9 DEF DeleteDependency, Rows, TypeOK
    <2>2. QED
      BY <1>9, <2>1 DEF DeleteDependency, EndsKnown, CheckHolds, Checked
  <1>10. ASSUME NEW news \in SUBSET Activities, NEW links \in SUBSET Pairs,
                ImportProject(news, links)
         PROVE  EndsKnown' /\ CheckHolds'
    <2>1. Rows' = Rows \cup links
      BY <1>10, ImportRows
    <2>2. /\ UNCHANGED <<pc, pair, committedSince>>
          /\ \A a \in Activities :
                activity'[a] = IF a \in news THEN "live" ELSE activity[a]
          /\ \A a \in news : activity[a] = "absent"
          /\ \A p \in links : p[1] \in news /\ p[2] \in news
      BY <1>10 DEF ImportProject
    <2>3. /\ Rows \subseteq Activities \X Activities
          /\ links \subseteq Activities \X Activities
          /\ \A r \in Requests : pair[r] \in Activities \X Activities
      BY RowsArePairs, PairsAssumption DEF TypeOK
    <2>4. EndsKnown'
      BY <2>1, <2>2, <2>3 DEF EndsKnown
    <2>5. CheckHolds'
      <3> SUFFICES ASSUME NEW r \in Requests, Checked(r)',
                          committedSince'[r] = {}, Acyclic(Rows)'
                   PROVE  Acyclic(Rows \cup {pair[r]})'
        BY DEF CheckHolds
      <3>1. Acyclic(Rows) /\ Acyclic(links)
        BY <2>1 DEF Acyclic
      <3>2. Checked(r) /\ committedSince[r] = {}
        BY <2>2 DEF Checked
      <3>3. Acyclic(Rows \cup {pair[r]})
        BY <3>1, <3>2 DEF CheckHolds
      <3>4. \A p \in Rows \cup {pair[r]} : p[1] \notin news /\ p[2] \notin news
        BY <2>2, <2>3, <3>2 DEF EndsKnown, Checked
      <3>5. Acyclic((Rows \cup {pair[r]}) \cup links)
        BY <2>2, <2>3, <3>1, <3>3, <3>4, DisjointUnionAcyclic
      <3>6. (Rows \cup {pair[r]})' = (Rows \cup {pair[r]}) \cup links
        BY <2>1, <2>2
      <3>7. QED
        BY <3>5, <3>6 DEF Acyclic
    <2>6. QED
      BY <2>4, <2>5
  <1>11. CASE UNCHANGED vars
    BY <1>11, SameRows DEF vars, EndsKnown, CheckHolds, Checked
  <1>12. QED
    BY <1>1, <1>2, <1>3, <1>4, <1>5, <1>6, <1>7, <1>8, <1>9, <1>10, <1>11
       DEF Next, Create

\* The strengthening holds in every state, whatever the clients do.
THEOREM Inductive == Spec => []IInv
  <1>1. Init => EndsKnown /\ CheckHolds
    BY DEF Init, EndsKnown, CheckHolds, Checked, Rows
  <1>2. IInv /\ TypeOK' /\ [Next]_vars => (EndsKnown /\ CheckHolds)'
    BY NextIInv
  <1>3. QED
    BY <1>1, <1>2, TypeCorrect, PTL DEF Spec, IInv

-----------------------------------------------------------------------------
LEMMA StepKeepsAcyclic ==
    ASSUME IInv, [Next]_vars, Acyclic(Rows), ~CircularImport,
           \A r \in Requests : Commit(r) => committedSince[r] = {}
    PROVE  Acyclic(Rows)'
  <1> USE DEF IInv
  <1>1. CASE \E r \in Requests : Commit(r)
    <2>1. PICK r \in Requests : Commit(r)
      BY <1>1
    <2>2. Checked(r)
      BY <2>1 DEF Commit, Checked
    <2>3. Acyclic(Rows \cup {pair[r]})
      BY <2>1, <2>2 DEF CheckHolds
    <2>4. Rows' = Rows \cup {pair[r]}
      BY <2>1, CommitRows
    <2>5. QED
      BY <2>3, <2>4 DEF Acyclic
  <1>2. CASE \E news \in SUBSET Activities : \E links \in SUBSET Pairs :
                ImportProject(news, links)
    <2>1. PICK news \in SUBSET Activities, links \in SUBSET Pairs :
             ImportProject(news, links)
      BY <1>2
    <2>2. /\ \A a \in news : activity[a] = "absent"
          /\ \A p \in links : p[1] \in news /\ p[2] \in news
          /\ Acyclic(links)
      BY <2>1 DEF ImportProject, CircularImport
    <2>3. /\ Rows \subseteq Activities \X Activities
          /\ links \subseteq Activities \X Activities
      BY RowsArePairs, PairsAssumption
    <2>4. \A p \in Rows : p[1] \notin news /\ p[2] \notin news
      BY <2>2, <2>3 DEF EndsKnown
    <2>5. Acyclic(Rows \cup links)
      BY <2>2, <2>3, <2>4, DisjointUnionAcyclic
    <2>6. QED
      BY <2>1, <2>5, ImportRows DEF Acyclic
  <1>3. CASE dependency' = dependency
    BY <1>3, SameRows DEF Acyclic
  <1>4. CASE \E p \in Pairs : DeleteDependency(p)
    <2>1. Rows' = Rows
      BY <1>4 DEF DeleteDependency, Rows, TypeOK
    <2>2. QED
      BY <2>1 DEF Acyclic
  <1>5. QED
    BY <1>1, <1>2, <1>3, <1>4
       DEF Next, Create, vars, VerifyActivities, CheckDuplicate, AcceptAcyclic,
           RejectCircular, Insert, Abandon, CreateActivity, DeleteActivity

\* A cycle comes only with an imported one, or by a creation whose cycle check
\* missed a dependency that another creation committed since.
THEOREM CyclesNeedOverlap == Spec => CycleNeedsOverlap
  <1>1. IInv /\ [Next]_vars
          => [ Acyclic(Rows) /\ ~Acyclic(Rows)'
                 => \/ CircularImport
                    \/ \E r \in Requests :
                          Commit(r) /\ committedSince[r] # {} ]_vars
    BY StepKeepsAcyclic
  <1>2. QED
    BY <1>1, Inductive, PTL DEF Spec, CycleNeedsOverlap

\* The request r has missed no pair.
SoleWriter(r) == committedSince[r] = {}

\* Where creations are serialised only the import of a circular plan gives the
\* graph a cycle.
THEOREM SerialCreationsKeepAcyclic ==
    ASSUME NEW s, Requests = {s}
    PROVE  Spec => [][ Acyclic(Rows) /\ ~Acyclic(Rows)' => CircularImport ]_vars
  <1>1. Init => SoleWriter(s)
    BY DEF SoleWriter, Init
  <1>2. IInv /\ SoleWriter(s) /\ [Next]_vars => SoleWriter(s)'
    BY DEF Next, Create, vars, VerifyActivities, CheckDuplicate,
           AcceptAcyclic, RejectCircular, Insert, Commit, Abandon,
           CreateActivity, DeleteActivity, DeleteDependency, ImportProject,
           IInv, TypeOK, SoleWriter
  <1>3. IInv /\ SoleWriter(s) /\ [Next]_vars
          => [ Acyclic(Rows) /\ ~Acyclic(Rows)' => CircularImport ]_vars
    BY StepKeepsAcyclic DEF SoleWriter
  <1>4. QED
    BY <1>1, <1>2, <1>3, Inductive, PTL DEF Spec

-----------------------------------------------------------------------------
(***************************************************************************)
(* What the unique constraint protects. A flushed insert holds its key     *)
(* alone, and nobody else can give its pair a row before it commits: the   *)
(* other inserts wait, and an import links only activities it has just     *)
(* made.                                                                   *)
(***************************************************************************)
KeyInv ==
    /\ \A r \in Requests : HoldsKey(r) => dependency[pair[r]] = "absent"
    /\ \A q, r \in Requests :
          HoldsKey(q) /\ HoldsKey(r) /\ q # r => pair[q] # pair[r]

\* An import gives no row to a pair that has one or that a creation is after.
LEMMA ImportedPairsAreNew ==
    ASSUME TypeOK, EndsKnown, NEW news \in SUBSET Activities,
           NEW links \in SUBSET Pairs, ImportProject(news, links), NEW p \in links
    PROVE  /\ dependency[p] = "absent"
           /\ \A r \in Requests : HoldsKey(r) => pair[r] # p
  <1>1. /\ activity[p[1]] = "absent" /\ p[1] \in Activities
        /\ p \in Pairs
    BY PairsAssumption DEF ImportProject
  <1>2. p \notin Rows
    BY <1>1 DEF EndsKnown
  <1>3. QED
    BY <1>1, <1>2 DEF Rows, EndsKnown, HoldsKey

\* A step in which no key is taken and no row of a held pair changes.
LEMMA KeysKept ==
    ASSUME KeyInv,
           \A r \in Requests : HoldsKey(r)' =>
               /\ HoldsKey(r)
               /\ pair'[r] = pair[r]
               /\ dependency'[pair[r]] = dependency[pair[r]]
    PROVE  KeyInv'
  <1>1. \A r \in Requests : HoldsKey(r)' => dependency'[pair'[r]] = "absent"
    BY DEF KeyInv
  <1>2. \A q, r \in Requests :
            HoldsKey(q)' /\ HoldsKey(r)' /\ q # r => pair'[q] # pair'[r]
    BY DEF KeyInv
  <1>3. QED
    BY <1>1, <1>2 DEF KeyInv

LEMMA NextKeyInv ==
    ASSUME IInv, KeyInv, [Next]_vars
    PROVE  KeyInv'
  <1> USE DEF IInv
  <1>1. ASSUME NEW r \in Requests, NEW p \in Pairs, VerifyActivities(r, p)
        PROVE  KeyInv'
    BY <1>1, KeysKept DEF VerifyActivities, HoldsKey, TypeOK
  <1>2. ASSUME NEW r \in Requests,
               CheckDuplicate(r) \/ AcceptAcyclic(r) \/ RejectCircular(r) \/ Abandon(r)
        PROVE  KeyInv'
    BY <1>2, KeysKept DEF CheckDuplicate, AcceptAcyclic, RejectCircular, Abandon,
                          HoldsKey, TypeOK
  <1>3. ASSUME NEW r \in Requests, Insert(r)
        PROVE  KeyInv'
    <2>1. /\ UNCHANGED <<dependency, pair>>
          /\ \A q \in Requests : HoldsKey(q) => pair[q] # pair[r]
          /\ \A q \in Requests : q # r => (HoldsKey(q)' <=> HoldsKey(q))
          /\ HoldsKey(r)' => dependency[pair[r]] = "absent"
      BY <1>3 DEF Insert, HoldsKey, Rows, TypeOK
    <2>2. QED
      BY <2>1 DEF KeyInv
  <1>4. ASSUME NEW r \in Requests, Commit(r)
        PROVE  KeyInv'
    <2>1. /\ HoldsKey(r) /\ ~HoldsKey(r)' /\ UNCHANGED pair
          /\ \A q \in Requests : q # r => (HoldsKey(q)' <=> HoldsKey(q))
          /\ \A p \in Pairs : p # pair[r] => dependency'[p] = dependency[p]
      BY <1>4 DEF Commit, HoldsKey, TypeOK
    <2>2. \A q \in Requests : HoldsKey(q)' =>
             /\ HoldsKey(q)
             /\ dependency'[pair[q]] = dependency[pair[q]]
      BY <2>1 DEF KeyInv, TypeOK
    <2>3. QED
      BY <2>1, <2>2, KeysKept
  <1>5. ASSUME NEW a \in Activities, CreateActivity(a) \/ DeleteActivity(a)
        PROVE  KeyInv'
    BY <1>5, KeysKept DEF CreateActivity, DeleteActivity, HoldsKey
  <1>6. ASSUME NEW p \in Pairs, DeleteDependency(p)
        PROVE  KeyInv'
    BY <1>6, KeysKept DEF DeleteDependency, HoldsKey, KeyInv, TypeOK
  <1>7. ASSUME NEW news \in SUBSET Activities, NEW links \in SUBSET Pairs,
               ImportProject(news, links)
        PROVE  KeyInv'
    <2>1. /\ UNCHANGED <<pc, pair>>
          /\ \A p \in Pairs : p \notin links => dependency'[p] = dependency[p]
      BY <1>7 DEF ImportProject
    <2>2. \A r \in Requests : HoldsKey(r) => pair[r] \in Pairs \ links
      BY <1>7, ImportedPairsAreNew DEF TypeOK
    <2>3. QED
      BY <2>1, <2>2, KeysKept DEF HoldsKey
  <1>8. CASE UNCHANGED vars
    BY <1>8, KeysKept DEF vars, HoldsKey
  <1>9. QED
    BY <1>1, <1>2, <1>3, <1>4, <1>5, <1>6, <1>7, <1>8 DEF Next, Create

\* What a step may do to the row of the pair p.
RowAges(p) ==
    \/ dependency'[p] = dependency[p]
    \/ dependency[p] = "absent" /\ dependency'[p] = "live"
    \/ dependency[p] = "live" /\ dependency'[p] = "deleted"

\* However many creations, deletions and imports run at once, the row of a
\* pair only ages: it appears once, is deleted once and is never revived.
THEOREM RowsAge == Spec => RowsOnlyAge
  <1>1. ASSUME IInv, KeyInv, [Next]_vars, NEW p \in Pairs
        PROVE  RowAges(p)
    <2> USE <1>1 DEF IInv
    <2>1. ASSUME NEW r \in Requests, Commit(r)
          PROVE  RowAges(p)
      BY <2>1 DEF Commit, KeyInv, HoldsKey, TypeOK, RowAges
    <2>2. ASSUME NEW q \in Pairs, DeleteDependency(q)
          PROVE  RowAges(p)
      BY <2>2 DEF DeleteDependency, TypeOK, RowAges
    <2>3. ASSUME NEW news \in SUBSET Activities, NEW links \in SUBSET Pairs,
                 ImportProject(news, links)
          PROVE  RowAges(p)
      <3>1. dependency'[p] = IF p \in links THEN "live" ELSE dependency[p]
        BY <2>3 DEF ImportProject
      <3>2. p \in links => dependency[p] = "absent"
        BY <2>3, ImportedPairsAreNew
      <3>3. QED
        BY <3>1, <3>2 DEF RowAges
    <2>4. CASE dependency' = dependency
      BY <2>4 DEF RowAges
    <2>5. QED
      BY <2>1, <2>2, <2>3, <2>4
         DEF Next, Create, vars, VerifyActivities, CheckDuplicate, AcceptAcyclic,
             RejectCircular, Insert, Abandon, CreateActivity, DeleteActivity
  <1>2. Init => KeyInv
    BY DEF Init, KeyInv, HoldsKey
  <1>3. IInv /\ KeyInv /\ [Next]_vars => KeyInv'
    BY NextKeyInv
  <1>4. IInv /\ KeyInv /\ [Next]_vars
          => [ \A p \in Pairs :
                 \/ dependency'[p] = dependency[p]
                 \/ dependency[p] = "absent" /\ dependency'[p] = "live"
                 \/ dependency[p] = "live" /\ dependency'[p] = "deleted" ]_vars
    BY <1>1 DEF RowAges
  <1>5. QED
    BY <1>2, <1>3, <1>4, Inductive, PTL DEF Spec, RowsOnlyAge

=============================================================================
