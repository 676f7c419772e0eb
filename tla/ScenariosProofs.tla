-------------------------- MODULE ScenariosProofs --------------------------
(***************************************************************************)
(* What Scenarios guarantees for any number of scenarios, changes and      *)
(* overlapping requests: the types, that a scenario is spent once, that a  *)
(* promotion is exact, and what a promoted scenario keeps.                 *)
(***************************************************************************)
EXTENDS Scenarios, TLAPS

(* A request under way works on a row that is there, and a spent scenario   *)
(* has one; the version that a promotion counted is at most the next.       *)
RowsExist ==
    /\ \A r \in Requests : pc[r] # "idle" =>
          target[r] \in Scenarios /\ status[target[r]] # "absent"
    /\ \A s \in spent : status[s] # "absent"

NumbersAreNext == \A r \in Requests : number[r] <= Len(snapshot) + 1

IInv == TypeOK /\ RowsExist /\ NumbersAreNext

LEMMA InitIInv == Init => IInv
  BY MaxBaselinesAssumption
     DEF Init, IInv, TypeOK, RowsExist, NumbersAreNext, Steps, ScenarioStatus

LEMMA NextIInv == IInv /\ [Next]_vars => IInv'
  <1> SUFFICES ASSUME IInv, [Next]_vars PROVE IInv'
    OBVIOUS
  <1> USE MaxBaselinesAssumption, NoScenarioAssumption, UpdatesAssumption
      DEF IInv, TypeOK, RowsExist, NumbersAreNext, Steps, Handlers,
          ScenarioStatus, Ended, Live, Go, Close, Commit, SetStatus, rows,
          history
  <1>1. ASSUME NEW s \in Scenarios, CreateScenario(s) PROVE IInv'
    BY <1>1 DEF CreateScenario, request
  <1>2. ASSUME NEW r \in Requests, NEW s \in Scenarios, NEW h \in Handlers,
               Load(r, h, s)
        PROVE  IInv'
    BY <1>2 DEF Load
  <1>3. ASSUME NEW r \in Requests, UpdateScenario(r) PROVE IInv'
    BY <1>3 DEF UpdateScenario
  <1>4. ASSUME NEW r \in Requests, ActivateScenario(r) PROVE IInv'
    BY <1>4 DEF ActivateScenario
  <1>5. ASSUME NEW r \in Requests, ArchiveScenario(r) PROVE IInv'
    BY <1>5 DEF ArchiveScenario
  <1>6. ASSUME NEW r \in Requests, DeleteScenario(r) PROVE IInv'
    BY <1>6 DEF DeleteScenario
  <1>7. ASSUME NEW r \in Requests, NEW c \in Changes, AddChange(r, c)
        PROVE  IInv'
    BY <1>7 DEF AddChange
  <1>8. ASSUME NEW r \in Requests, NEW s \in Scenarios, NEW c \in Changes,
               RemoveChange(r, s, c)
        PROVE  IInv'
    BY <1>8 DEF RemoveChange
  <1>9. ASSUME NEW r \in Requests, ReadChanges(r) PROVE IInv'
    BY <1>9 DEF ReadChanges
  <1>10. ASSUME NEW r \in Requests, NEW s \in Scenarios, CreateBranch(r, s)
         PROVE  IInv'
    BY <1>10 DEF CreateBranch
  <1>11. ASSUME NEW r \in Requests, CountBaselines(r) PROVE IInv'
    BY <1>11 DEF CountBaselines
  <1>12. ASSUME NEW r \in Requests, PromoteScenario(r) PROVE IInv'
    <2>1. Len(snapshot') = Len(snapshot) + 1 /\ snapshot' \in Seq(SUBSET Updates)
      BY <1>12 DEF PromoteScenario, Carried
    <2>2. number[r] = Len(snapshot) + 1
      BY <1>12 DEF PromoteScenario
    <2>3. QED
      BY <1>12, <2>1, <2>2 DEF PromoteScenario, Spend
  <1>13. ASSUME NEW r \in Requests, ApplyScenarioChanges(r) PROVE IInv'
    BY <1>13 DEF ApplyScenarioChanges, Spend
  <1>14. ASSUME NEW r \in Requests, Abandon(r) PROVE IInv'
    BY <1>14 DEF Abandon
  <1>15. CASE UNCHANGED vars
    BY <1>15 DEF vars, request
  <1> HIDE DEF IInv, TypeOK, RowsExist, NumbersAreNext, Handlers
  <1>16. QED
    BY <1>1, <1>2, <1>3, <1>4, <1>5, <1>6, <1>7, <1>8, <1>9, <1>10, <1>11,
       <1>12, <1>13, <1>14, <1>15 DEF Next

\* No overlap numbers a baseline out of turn, links a scenario to a baseline
\* that is not there, or works on a scenario that has no row.
THEOREM TypeCorrect == Spec => []TypeOK
  <1>1. IInv => TypeOK
    BY DEF IInv
  <1>2. QED
    BY <1>1, InitIInv, NextIInv, PTL DEF Spec

-----------------------------------------------------------------------------
(* Spending ends a scenario, so that nothing loads it again to spend it      *)
(* before its status is set back; a request that loaded it before is         *)
(* overtaken. Until then a request finds its scenario as it loaded it.       *)

SpentAreClosed ==
    \A s \in spent \cap Live : status[s] \in Ended

FoundAsLoaded(r) ==
    /\ pc[r] \in {"numbering", "numbered"} => read[r] = changes[target[r]]
    /\ pc[r] \in Steps \ {"idle", "archive", "branch", "branching"}
         => status[target[r]] # "promoted"

SpendingInv ==
    /\ SpentAreClosed
    /\ SpentOnce
    /\ \A r \in Requests \ overtaken : FoundAsLoaded(r)

CurrentInv == IInv /\ SpendingInv

LEMMA InitCurrent == Init => CurrentInv
  BY InitIInv
     DEF Init, CurrentInv, SpendingInv, SpentAreClosed, SpentOnce, FoundAsLoaded, Live

LEMMA NextCurrent == CurrentInv /\ [Next]_vars => CurrentInv'
  <1> SUFFICES ASSUME CurrentInv, [Next]_vars PROVE SpendingInv'
    BY NextIInv DEF CurrentInv
  <1> USE DEF CurrentInv, SpendingInv, SpentAreClosed, SpentOnce, FoundAsLoaded, IInv,
          TypeOK, RowsExist, Steps, Live, Go, Close, Commit, SetStatus, rows,
          history
  <1>1. ASSUME NEW s \in Scenarios, CreateScenario(s) PROVE SpendingInv'
    BY <1>1 DEF CreateScenario, request
  <1>2. ASSUME NEW r \in Requests, NEW s \in Scenarios, NEW h \in Handlers,
               Load(r, h, s)
        PROVE  SpendingInv'
    <2>1. status[s] \notin Ended \/ h \notin {"promote", "apply"}
      BY <1>2 DEF Load, Accepts
    <2>2. status[s] # "promoted" \/ h \in {"archive", "branch"}
      BY <1>2 DEF Load, Accepts, Handlers, Ended
    <2>3. QED
      BY <1>2, <2>1, <2>2 DEF Load, Handlers
  <1>3. ASSUME NEW r \in Requests, UpdateScenario(r) PROVE SpendingInv'
    BY <1>3 DEF UpdateScenario
  <1>4. ASSUME NEW r \in Requests, ActivateScenario(r) PROVE SpendingInv'
    BY <1>4 DEF ActivateScenario
  <1>5. ASSUME NEW r \in Requests, ArchiveScenario(r) PROVE SpendingInv'
    BY <1>5 DEF ArchiveScenario
  <1>6. ASSUME NEW r \in Requests, DeleteScenario(r) PROVE SpendingInv'
    BY <1>6 DEF DeleteScenario
  <1>7. ASSUME NEW r \in Requests, NEW c \in Changes, AddChange(r, c)
        PROVE  SpendingInv'
    BY <1>7 DEF AddChange
  <1>8. ASSUME NEW r \in Requests, NEW s \in Scenarios, NEW c \in Changes,
               RemoveChange(r, s, c)
        PROVE  SpendingInv'
    BY <1>8 DEF RemoveChange
  <1>9. ASSUME NEW r \in Requests, ReadChanges(r) PROVE SpendingInv'
    BY <1>9 DEF ReadChanges
  <1>10. ASSUME NEW r \in Requests, NEW s \in Scenarios, CreateBranch(r, s)
         PROVE  SpendingInv'
    BY <1>10 DEF CreateBranch
  <1>11. ASSUME NEW r \in Requests, CountBaselines(r) PROVE SpendingInv'
    BY <1>11 DEF CountBaselines
  <1>12. ASSUME NEW r \in Requests, PromoteScenario(r) PROVE SpendingInv'
    BY <1>12 DEF PromoteScenario, Spend, Ended
  <1>13. ASSUME NEW r \in Requests, ApplyScenarioChanges(r) PROVE SpendingInv'
    BY <1>13 DEF ApplyScenarioChanges, Spend, Ended
  <1>14. ASSUME NEW r \in Requests, Abandon(r) PROVE SpendingInv'
    BY <1>14 DEF Abandon
  <1>15. CASE UNCHANGED vars
    BY <1>15 DEF vars, request
  <1> HIDE DEF CurrentInv, SpendingInv
  <1>16. QED
    BY <1>1, <1>2, <1>3, <1>4, <1>5, <1>6, <1>7, <1>8, <1>9, <1>10, <1>11,
       <1>12, <1>13, <1>14, <1>15 DEF Next

\* For any number of overlapping requests, what is about to promote or apply
\* a scenario for the second time was overtaken, or its status was set back.
THEOREM SpentOnceOnly == Spec => []SpentOnce
  <1>1. CurrentInv => SpentOnce
    BY DEF CurrentInv, SpendingInv
  <1>2. QED
    BY <1>1, InitCurrent, NextCurrent, PTL DEF Spec

\* For any number of overlapping requests, a promotion that is not overtaken
\* links a baseline of its own, made of those of the scenario's changes that
\* update a row on the pages it read.
THEOREM PromotionsAreExact == Spec => PromotionIsExact
  <1> DEFINE Exact(s) ==
          baseline'[s] # baseline[s] => \E r \in Requests :
             /\ Ends(r) /\ target[r] = s
             /\ \/ r \in overtaken
                \/ /\ snapshot'[baseline'[s]] =
                         {c \in changes[s] \cap Updates : c \in shown[r]}
                   /\ status'[s] = "promoted"
                   /\ \A t \in Scenarios \ {s} : baseline[t] # baseline'[s]
  <1>1. CurrentInv /\ [Next]_vars => [\A s \in Scenarios : Exact(s)]_vars
    <2> SUFFICES ASSUME CurrentInv, Next, NEW s \in Scenarios,
                        baseline'[s] # baseline[s]
                 PROVE  Exact(s)
      BY DEF vars
    <2>1. PICK r \in Requests : PromoteScenario(r)
      BY DEF Next, CreateScenario, Load, UpdateScenario, ActivateScenario,
             ArchiveScenario, DeleteScenario, AddChange, RemoveChange,
             ReadChanges, CreateBranch, CountBaselines, ApplyScenarioChanges,
             Abandon, rows
    <2>2. target[r] = s /\ s \in Live /\ baseline'[s] = number[r]
      BY <2>1 DEF PromoteScenario, CurrentInv, IInv, TypeOK
    <2>3. Ends(r) /\ status'[s] = "promoted"
      BY <2>1, <2>2
         DEF PromoteScenario, Spend, Commit, Close, Ends, CurrentInv, IInv, TypeOK
    <2>4. number[r] = Len(snapshot) + 1
      BY <2>1 DEF PromoteScenario, CurrentInv, IInv, TypeOK, NumbersAreNext
    <2>5. snapshot'[number[r]] = {c \in read[r] \cap Updates : c \in shown[r]}
      <3>1. snapshot'[number[r]] = Carried(r)
        <4>1. Carried(r) \in SUBSET Updates
          BY DEF Carried, CurrentInv, IInv, TypeOK
        <4>2. QED
          BY <2>1, <2>4, <4>1 DEF PromoteScenario, CurrentInv, IInv, TypeOK
      <3>2. QED
        BY <3>1 DEF Carried, CurrentInv, IInv, TypeOK
    <2>6. \A t \in Scenarios : baseline[t] # number[r]
      BY <2>4 DEF CurrentInv, IInv, TypeOK
    <2>7. r \in overtaken \/ read[r] = changes[s]
      BY <2>1, <2>2 DEF PromoteScenario, CurrentInv, SpendingInv, FoundAsLoaded
    <2>8. QED
      BY <2>2, <2>3, <2>5, <2>6, <2>7
  <1>2. QED
    BY <1>1, InitCurrent, NextCurrent, PTL DEF Spec, PromotionIsExact

\* For any number of overlapping requests, a promoted scenario keeps its
\* baseline, its changes and its row, but for the exceptions it names.
THEOREM PromotedStay == Spec => PromotedStayAsTheyWere
  <1> DEFINE Stays(s) ==
          \/ /\ <<baseline[s], changes[s]>> = <<baseline[s], changes[s]>>'
             /\ s \in Live'
             /\ status'[s] = "promoted" \/ \E r \in Requests :
                   Ends(r) /\ pc[r] = "archive" /\ status'[s] = "archived"
          \/ \E r \in Requests :
                /\ Ends(r)
                /\ \/ target[r] = s /\ r \in overtaken
                   \/ target[r] # s /\ pc[r] = "remove"
  <1>1. CurrentInv /\ [Next]_vars =>
          [\A s \in Live : status[s] = "promoted" => Stays(s)]_vars
    <2> SUFFICES ASSUME CurrentInv, Next, NEW s \in Live,
                        status[s] = "promoted"
                 PROVE  Stays(s)
      BY DEF vars
    <2>1. s \in Scenarios
      BY DEF Live
    <2>a. ASSUME NEW r \in Requests, Close(r), pc[r] # "idle",
                 \/ target[r] = s /\ r \in overtaken
                 \/ target[r] # s /\ pc[r] = "remove"
          PROVE  Stays(s)
      BY <2>a DEF Close, Ends, CurrentInv, IInv, TypeOK
    <2>b. ASSUME NEW r \in Requests, r \notin overtaken, target[r] = s
          PROVE  pc[r] \notin {"update", "delete", "add", "remove", "activate",
                               "numbered", "applying"}
      BY <2>b DEF CurrentInv, SpendingInv, FoundAsLoaded, Steps, Handlers
    <2>2. ASSUME NEW t \in Scenarios, CreateScenario(t) PROVE Stays(s)
      BY <2>1, <2>2 DEF CreateScenario, Live, CurrentInv, IInv, TypeOK
    <2>3. ASSUME NEW r \in Requests, NEW t \in Scenarios, CreateBranch(r, t)
          PROVE  Stays(s)
      BY <2>1, <2>3 DEF CreateBranch, Live, CurrentInv, IInv, TypeOK
    <2>4. ASSUME NEW r \in Requests, ArchiveScenario(r) PROVE Stays(s)
      BY <2>1, <2>4, <2>a
         DEF ArchiveScenario, SetStatus, Commit, Close, Ends, Live, CurrentInv,
             IInv, TypeOK
    <2>5. ASSUME NEW r \in Requests,
                 \/ UpdateScenario(r) \/ ActivateScenario(r) \/ DeleteScenario(r)
                 \/ \E c \in Changes : AddChange(r, c)
                 \/ \E t \in Scenarios, c \in Changes : RemoveChange(r, t, c)
                 \/ PromoteScenario(r) \/ ApplyScenarioChanges(r)
          PROVE  Stays(s)
      <3>1. /\ Close(r)
            /\ pc[r] \in {"update", "delete", "add", "remove", "activate",
                          "numbered", "applying"}
        BY <2>5
           DEF UpdateScenario, ActivateScenario, DeleteScenario, AddChange,
               RemoveChange, PromoteScenario, ApplyScenarioChanges, Spend, Commit
      <3>2. CASE target[r] = s \/ pc[r] = "remove"
        BY <3>1, <3>2, <2>a, <2>b
      <3>3. CASE target[r] # s /\ pc[r] # "remove"
        BY <2>1, <2>5, <3>3
           DEF UpdateScenario, ActivateScenario, DeleteScenario, AddChange,
               RemoveChange, PromoteScenario, ApplyScenarioChanges, Spend,
               SetStatus, Live, CurrentInv, IInv, TypeOK
      <3>4. QED
        BY <3>2, <3>3
    <2>6. QED
      BY <2>1, <2>2, <2>3, <2>4, <2>5
         DEF Next, Load, ReadChanges, CountBaselines, Abandon, rows, Live
  <1>2. QED
    BY <1>1, InitCurrent, NextCurrent, PTL DEF Spec, PromotedStayAsTheyWere

\* Each promoted scenario has a baseline of its own.
OneOwnerEach ==
    \A s, t \in Scenarios : baseline[s] = baseline[t] /\ s # t => baseline[s] = 0

\* However promotions overlap with each other and with anything else, no two
\* scenarios ever link the same baseline, and what a baseline holds is never
\* replaced by another promotion.
THEOREM BaselinesNotShared ==
    Spec => /\ []OneOwnerEach
            /\ [][\A n \in 1..Len(snapshot) :
                     n <= Len(snapshot') /\ snapshot'[n] = snapshot[n]]_vars
  <1>1. Init => OneOwnerEach
    BY DEF Init, OneOwnerEach
  <1>2. ASSUME IInv, IInv', OneOwnerEach, [Next]_vars
        PROVE  OneOwnerEach' /\ \A n \in 1..Len(snapshot) :
                  n <= Len(snapshot') /\ snapshot'[n] = snapshot[n]
    <2>1. ASSUME NEW r \in Requests, PromoteScenario(r)
          PROVE  OneOwnerEach' /\ \A n \in 1..Len(snapshot) :
                    n <= Len(snapshot') /\ snapshot'[n] = snapshot[n]
      <3>1. number[r] = Len(snapshot) + 1
        BY <1>2, <2>1 DEF PromoteScenario, IInv, TypeOK, NumbersAreNext
      <3>2. \A t \in Scenarios : baseline[t] \in Nat /\ baseline[t] < number[r]
        BY <1>2, <3>1 DEF IInv, TypeOK
      <3>3. OneOwnerEach'
        BY <1>2, <2>1, <3>2 DEF PromoteScenario, OneOwnerEach, IInv, TypeOK
      <3>4. /\ snapshot' = Append(snapshot, Carried(r))
            /\ snapshot \in Seq(SUBSET Updates)
            /\ Carried(r) \in SUBSET Updates
        BY <1>2, <2>1 DEF PromoteScenario, Carried, IInv, TypeOK
      <3>5. QED
        BY <3>3, <3>4
    <2>2. ASSUME UNCHANGED <<baseline, snapshot>>
          PROVE  OneOwnerEach' /\ \A n \in 1..Len(snapshot) :
                    n <= Len(snapshot') /\ snapshot'[n] = snapshot[n]
      <3>1. Len(snapshot) \in Nat
        BY <1>2 DEF IInv, TypeOK
      <3>2. QED
        BY <1>2, <2>2, <3>1 DEF OneOwnerEach
    <2>3. QED
      BY <1>2, <2>1, <2>2
         DEF Next, CreateScenario, Load, UpdateScenario, ActivateScenario,
             ArchiveScenario, DeleteScenario, AddChange, RemoveChange,
             ReadChanges, CreateBranch, CountBaselines, ApplyScenarioChanges,
             Abandon, rows, vars
  <1>3. IInv /\ IInv' /\ OneOwnerEach /\ [Next]_vars
          => /\ OneOwnerEach'
             /\ [\A n \in 1..Len(snapshot) :
                   n <= Len(snapshot') /\ snapshot'[n] = snapshot[n]]_vars
    BY <1>2
  <1>4. QED
    BY <1>1, <1>3, InitIInv, NextIInv, PTL DEF Spec

=============================================================================
