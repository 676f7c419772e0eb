-------------------------- MODULE BaselinesProofs --------------------------
(***************************************************************************)
(* What Baselines guarantees, for every bound on versions and pages: the   *)
(* types, the identity of version numbers, and the promises the handlers   *)
(* make about approval, which only an overtaken request can break.         *)
(***************************************************************************)
EXTENDS Baselines, FiniteSetTheorems, TLAPS

\* The counted page gives a number, because versions are finitely many.
LEMMA PageSizeIsNatural ==
    ASSUME NEW page \in SUBSET Live
    PROVE  Cardinality(page) \in Nat
  <1>1. IsFiniteSet(Versions)
    BY FS_Interval, BoundsAssumption DEF Versions
  <1>2. IsFiniteSet(page)
    BY <1>1, FS_Subset DEF Live
  <1>3. QED
    BY <1>2, FS_CardinalityType

(* A row once loaded stays: deletion only marks it.                         *)
TargetsExist ==
    \A r \in Requests :
        pc[r] \in {"approving", "approvable", "unapproving", "deleting"} =>
            row[target[r]] # "absent"

IInv == TypeOK /\ TargetsExist

LEMMA InitIInv == Init => IInv
  BY BoundsAssumption DEF Init, TypeOK, TargetsExist, IInv

LEMMA NextIInv == IInv /\ [Next]_vars => IInv'
  <1> SUFFICES ASSUME IInv, [Next]_vars PROVE IInv'
    OBVIOUS
  <1> USE BoundsAssumption
      DEF IInv, TargetsExist, TypeOK, Versions, Live, ApprovedLive, Go, Finish,
          FinishBeforeOthers
  <1>1. ASSUME NEW r \in Requests, NumberSnapshot(r) PROVE IInv'
    BY <1>1 DEF NumberSnapshot
  <1>2. ASSUME NEW r \in Requests, NumberPromotion(r) PROVE IInv'
    BY <1>2, PageSizeIsNatural DEF NumberPromotion
  <1>3. ASSUME NEW r \in Requests, InsertBaseline(r) PROVE IInv'
    BY <1>3 DEF InsertBaseline
  <1>4. ASSUME NEW r \in Requests, NEW v \in Versions, LoadForApproval(r, v)
        PROVE  IInv'
    BY <1>4 DEF LoadForApproval
  <1>5. ASSUME NEW r \in Requests, FindApproved(r) PROVE IInv'
    BY <1>5 DEF FindApproved
  <1>6. ASSUME NEW r \in Requests, FailOnTwoApproved(r) PROVE IInv'
    BY <1>6 DEF FailOnTwoApproved
  <1>7. ASSUME NEW r \in Requests, CommitApproval(r) PROVE IInv'
    BY <1>7 DEF CommitApproval
  <1>8. ASSUME NEW r \in Requests, NEW v \in Versions, LoadForUnapproval(r, v)
        PROVE  IInv'
    BY <1>8 DEF LoadForUnapproval
  <1>9. ASSUME NEW r \in Requests, CommitUnapproval(r) PROVE IInv'
    BY <1>9 DEF CommitUnapproval
  <1>10. ASSUME NEW r \in Requests, NEW v \in Versions, LoadForDeletion(r, v)
        PROVE  IInv'
    BY <1>10 DEF LoadForDeletion
  <1>11. ASSUME NEW r \in Requests, CommitDeletion(r) PROVE IInv'
    BY <1>11 DEF CommitDeletion
  <1>12. ASSUME NEW r \in Requests, Abandon(r) PROVE IInv'
    BY <1>12 DEF Abandon
  <1>13. CASE UNCHANGED vars
    BY <1>13 DEF vars, request
  <1>14. QED
    BY <1>1, <1>2, <1>3, <1>4, <1>5, <1>6, <1>7, <1>8, <1>9, <1>10, <1>11,
       <1>12, <1>13 DEF Next, Step, Load

\* Every request works on a version in range, and only existing rows are
\* approved: the approvals a commit adds rest on rows that never vanish.
THEOREM TypeCorrect == Spec => []TypeOK
  <1>1. IInv => TypeOK
    BY DEF IInv
  <1>2. QED
    BY <1>1, InitIInv, NextIInv, PTL DEF Spec

\* No overlap of creations, promotions, approvals and deletions overwrites or
\* revives a baseline.
THEOREM VersionNamesStay == Spec => VersionsNameOneBaseline
  <1>1. IInv /\ [Next]_vars =>
          [\A v \in Versions :
             \/ row'[v] = row[v]
             \/ row[v] = "absent" /\ row'[v] = "live"
             \/ row[v] = "live" /\ row'[v] = "deleted"]_vars
    <2> SUFFICES ASSUME IInv, Next, NEW v \in Versions
                 PROVE  \/ row'[v] = row[v]
                        \/ row[v] = "absent" /\ row'[v] = "live"
                        \/ row[v] = "live" /\ row'[v] = "deleted"
      BY DEF vars, request
    <2> USE DEF IInv, TypeOK, TargetsExist
    <2>1. ASSUME NEW r \in Requests, InsertBaseline(r)
          PROVE  row'[v] = row[v] \/ (row[v] = "absent" /\ row'[v] = "live")
      BY <2>1 DEF InsertBaseline
    <2>2. ASSUME NEW r \in Requests, CommitDeletion(r)
          PROVE  row'[v] = row[v] \/ (row[v] = "live" /\ row'[v] = "deleted")
      BY <2>2 DEF CommitDeletion
    <2>3. QED
      BY <2>1, <2>2
         DEF Next, Step, Load, NumberSnapshot, NumberPromotion, FindApproved,
             FailOnTwoApproved, CommitApproval, CommitUnapproval, Abandon, LoadForApproval,
             LoadForUnapproval, LoadForDeletion
  <1>2. QED
    BY <1>1, InitIInv, NextIInv, PTL DEF Spec, VersionsNameOneBaseline

-----------------------------------------------------------------------------
(* What a request read is still so when it commits, unless another request  *)
(* has committed an approval, an unapproval or a deletion since.            *)

ReadIsCurrent(r) ==
    /\ pc[r] \in {"approving", "approvable"} =>
          /\ target[r] \in Live
          /\ seen[r] = (target[r] \in approved)
    /\ pc[r] = "approvable" => previous[r] = ApprovedLive \ {target[r]}
    /\ pc[r] = "deleting" => target[r] \in Live \ approved

ReadsAreCurrent == \A r \in Requests \ overtaken : ReadIsCurrent(r)

CurrentInv == IInv /\ ReadsAreCurrent

LEMMA InitCurrent == Init => CurrentInv
  BY InitIInv DEF Init, CurrentInv, ReadsAreCurrent, ReadIsCurrent

LEMMA NextCurrent == CurrentInv /\ [Next]_vars => CurrentInv'
  <1> SUFFICES ASSUME CurrentInv, [Next]_vars,
                      NEW q \in Requests, q \notin overtaken'
               PROVE  ReadIsCurrent(q)'
    BY NextIInv DEF CurrentInv, ReadsAreCurrent
  <1> USE DEF CurrentInv, ReadsAreCurrent, ReadIsCurrent, IInv, TypeOK,
          TargetsExist, Live, ApprovedLive, Go
  <1>a. ASSUME NEW r \in Requests, FinishBeforeOthers(r) PROVE pc'[q] = "idle"
    BY <1>a DEF FinishBeforeOthers
  <1>1. ASSUME NEW r \in Requests, NumberSnapshot(r) PROVE ReadIsCurrent(q)'
    BY <1>1 DEF NumberSnapshot
  <1>2. ASSUME NEW r \in Requests, NumberPromotion(r) PROVE ReadIsCurrent(q)'
    BY <1>2 DEF NumberPromotion
  <1>3. ASSUME NEW r \in Requests, InsertBaseline(r) PROVE ReadIsCurrent(q)'
    BY <1>3 DEF InsertBaseline, Finish
  <1>4. ASSUME NEW r \in Requests, NEW v \in Versions, LoadForApproval(r, v)
        PROVE  ReadIsCurrent(q)'
    BY <1>4 DEF LoadForApproval
  <1>5. ASSUME NEW r \in Requests, FindApproved(r) PROVE ReadIsCurrent(q)'
    BY <1>5 DEF FindApproved
  <1>6. ASSUME NEW r \in Requests, FailOnTwoApproved(r) PROVE ReadIsCurrent(q)'
    BY <1>6 DEF FailOnTwoApproved, Finish
  <1>7. ASSUME NEW r \in Requests, CommitApproval(r) PROVE ReadIsCurrent(q)'
    BY <1>7, <1>a DEF CommitApproval
  <1>8. ASSUME NEW r \in Requests, NEW v \in Versions, LoadForUnapproval(r, v)
        PROVE  ReadIsCurrent(q)'
    BY <1>8 DEF LoadForUnapproval
  <1>9. ASSUME NEW r \in Requests, CommitUnapproval(r) PROVE ReadIsCurrent(q)'
    BY <1>9, <1>a DEF CommitUnapproval
  <1>10. ASSUME NEW r \in Requests, NEW v \in Versions, LoadForDeletion(r, v)
         PROVE  ReadIsCurrent(q)'
    BY <1>10 DEF LoadForDeletion
  <1>11. ASSUME NEW r \in Requests, CommitDeletion(r) PROVE ReadIsCurrent(q)'
    BY <1>11, <1>a DEF CommitDeletion
  <1>12. ASSUME NEW r \in Requests, Abandon(r) PROVE ReadIsCurrent(q)'
    BY <1>12 DEF Abandon, Finish
  <1>13. CASE UNCHANGED vars
    BY <1>13 DEF vars, request
  <1>14. QED
    BY <1>1, <1>2, <1>3, <1>4, <1>5, <1>6, <1>7, <1>8, <1>9, <1>10, <1>11,
       <1>12, <1>13 DEF Next, Step, Load

\* For any number of overlapping requests, an approval that is not overtaken
\* leaves exactly its baseline approved.
THEOREM ApprovalMoves == Spec => ApprovalMovesThePMB
  <1>1. CurrentInv /\ [Next]_vars =>
          [\A r \in Requests :
             CommitApproval(r) /\ r \notin overtaken
               => ApprovedLive' = {target[r]}]_vars
    <2> SUFFICES ASSUME CurrentInv, NEW r \in Requests, CommitApproval(r),
                        r \notin overtaken
                 PROVE  ApprovedLive' = {target[r]}
      OBVIOUS
    <2>1. /\ target[r] \in Live
          /\ seen[r] => target[r] \in approved
          /\ previous[r] = ApprovedLive \ {target[r]}
      BY DEF CurrentInv, ReadsAreCurrent, ReadIsCurrent, CommitApproval
    <2>2. approved' \cap Live = {target[r]}
      BY <2>1 DEF CommitApproval, ApprovedLive
    <2>3. Live' = Live
      BY DEF CommitApproval, Live
    <2>4. QED
      BY <2>2, <2>3 DEF ApprovedLive
  <1>2. QED
    BY <1>1, InitCurrent, NextCurrent, PTL DEF Spec, ApprovalMovesThePMB

\* For any number of overlapping requests, a baseline becomes approved and
\* deleted only through a request that was overtaken.
THEOREM ApprovedStay == Spec => ApprovedAreKept
  <1> DEFINE Kept(v) ==
          v \in approved' /\ row'[v] = "deleted"
            => \/ v \in approved /\ row[v] = "deleted"
               \/ \E r \in overtaken :
                     /\ target[r] = v
                     /\ CommitApproval(r) \/ CommitDeletion(r)
  <1>1. CurrentInv /\ [Next]_vars => [\A v \in Versions : Kept(v)]_vars
    <2> SUFFICES ASSUME CurrentInv, Next, NEW v \in Versions PROVE Kept(v)
      BY DEF vars, request
    <2> USE DEF CurrentInv, ReadsAreCurrent, ReadIsCurrent, IInv, TypeOK,
            Live, ApprovedLive
    <2>1. ASSUME NEW r \in Requests, InsertBaseline(r) PROVE Kept(v)
      BY <2>1 DEF InsertBaseline
    <2>2. ASSUME NEW r \in Requests, CommitApproval(r) PROVE Kept(v)
      BY <2>2 DEF CommitApproval
    <2>3. ASSUME NEW r \in Requests, CommitDeletion(r) PROVE Kept(v)
      BY <2>3 DEF CommitDeletion
    <2>4. ASSUME NEW r \in Requests, CommitUnapproval(r) PROVE Kept(v)
      BY <2>4 DEF CommitUnapproval
    <2>5. QED
      BY <2>1, <2>2, <2>3, <2>4
         DEF Next, Step, Load, NumberSnapshot, NumberPromotion, FindApproved,
             FailOnTwoApproved, Abandon, LoadForApproval, LoadForUnapproval,
             LoadForDeletion
  <1>2. QED
    BY <1>1, InitCurrent, NextCurrent, PTL DEF Spec, ApprovedAreKept

-----------------------------------------------------------------------------
(* One performance measurement baseline, and what it takes to get two.     *)

OnePMB == \A v, w \in ApprovedLive : v = w

\* A program gets a second approved baseline only when an approval commits
\* that was overtaken: no creation, promotion, deletion or lost worker, and no
\* approval that nothing overtook, adds one.
THEOREM SecondPMBNeedsOverlap ==
    Spec => [][OnePMB /\ ~OnePMB' => \E r \in overtaken : CommitApproval(r)]_vars
  <1>1. CurrentInv /\ [Next]_vars =>
          [OnePMB /\ ~OnePMB' => \E r \in overtaken : CommitApproval(r)]_vars
    <2> SUFFICES ASSUME CurrentInv, Next, OnePMB,
                        \A r \in overtaken : ~CommitApproval(r)
                 PROVE  OnePMB'
      BY DEF OnePMB, ApprovedLive, Live, vars, request
    <2> USE DEF OnePMB, ApprovedLive, Live
    <2>1. ASSUME NEW r \in Requests, CommitApproval(r) PROVE OnePMB'
      <3>1. /\ target[r] \in Live
            /\ previous[r] = ApprovedLive \ {target[r]}
        BY <2>1 DEF CurrentInv, ReadsAreCurrent, ReadIsCurrent, CommitApproval
      <3>2. \A v \in ApprovedLive' : v = target[r]
        BY <2>1, <3>1 DEF CommitApproval
      <3>3. QED
        BY <3>2
    <2>2. ASSUME NEW r \in Requests, InsertBaseline(r) PROVE OnePMB'
      BY <2>2 DEF InsertBaseline, CurrentInv, IInv, TypeOK
    <2>3. ASSUME NEW r \in Requests, CommitUnapproval(r) PROVE OnePMB'
      BY <2>3 DEF CommitUnapproval
    <2>4. ASSUME NEW r \in Requests, CommitDeletion(r) PROVE OnePMB'
      BY <2>4 DEF CommitDeletion, CurrentInv, IInv, TypeOK
    <2>5. QED
      BY <2>1, <2>2, <2>3, <2>4
         DEF Next, Step, Load, NumberSnapshot, NumberPromotion, FindApproved,
             FailOnTwoApproved, Abandon, LoadForApproval, LoadForUnapproval,
             LoadForDeletion
  <1>2. QED
    BY <1>1, InitCurrent, NextCurrent, PTL DEF Spec

\* Where requests are serialised the program has one approved baseline at
\* most, and it is never a deleted one.
THEOREM SerialRequestsKeepOnePMB ==
    ASSUME NEW s, Requests = {s}
    PROVE  Spec => [](OnePMB /\ approved \subseteq Live)
  <1> DEFINE Serial == overtaken = {} /\ OnePMB /\ approved \subseteq Live
  <1>1. Init => Serial
    BY DEF Init, OnePMB, ApprovedLive
  <1>2. ASSUME CurrentInv, Serial, [Next]_vars PROVE Serial'
    <2> USE DEF OnePMB, ApprovedLive, Live
    <2>1. ReadIsCurrent(s)
      BY <1>2 DEF CurrentInv, ReadsAreCurrent
    <2>2. ASSUME CommitApproval(s) PROVE Serial'
      BY <1>2, <2>1, <2>2 DEF CommitApproval, FinishBeforeOthers, ReadIsCurrent
    <2>3. ASSUME InsertBaseline(s) PROVE Serial'
      BY <1>2, <2>3 DEF InsertBaseline, Finish, CurrentInv, IInv, TypeOK
    <2>4. ASSUME CommitUnapproval(s) PROVE Serial'
      BY <1>2, <2>4 DEF CommitUnapproval, FinishBeforeOthers
    <2>5. ASSUME CommitDeletion(s) PROVE Serial'
      BY <1>2, <2>1, <2>5
         DEF CommitDeletion, FinishBeforeOthers, ReadIsCurrent, CurrentInv, IInv, TypeOK
    <2>6. QED
      BY <1>2, <2>2, <2>3, <2>4, <2>5
         DEF Next, Step, Load, NumberSnapshot, NumberPromotion, FindApproved,
             FailOnTwoApproved, Abandon, LoadForApproval, LoadForUnapproval,
             LoadForDeletion, Finish, vars, request
  <1>3. CurrentInv /\ Serial /\ [Next]_vars => Serial'
    BY <1>2
  <1>4. Serial => OnePMB /\ approved \subseteq Live
    OBVIOUS
  <1> HIDE DEF Serial
  <1>5. QED
    BY <1>1, <1>3, <1>4, InitCurrent, NextCurrent, PTL DEF Spec

=============================================================================
