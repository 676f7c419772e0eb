----------------------------- MODULE Scenarios -----------------------------
(***************************************************************************)
(* The what-if scenarios of one program: the handlers of                   *)
(* api/src/api/v1/endpoints/scenarios.py over ScenarioRepository,          *)
(* ScenarioPromotionService and ScenarioApplyService.                      *)
(*                                                                         *)
(* A handler loads the scenario, decides by the status it loaded, and      *)
(* commits later; nothing is locked in between. A flush writes only the    *)
(* columns that differ from what the session loaded. Names, the is_active  *)
(* flag that lists filter on and the results cache that nothing fills are  *)
(* left out. A change is a model value and a scenario holds it once; each  *)
(* update is of a field of its own.                                        *)
(***************************************************************************)
EXTENDS Naturals, Sequences, FiniteSets

CONSTANTS
    Scenarios,     \* identifiers a scenario may get
    Changes,       \* changes that may be recorded
    Updates,       \* those that update a field of an activity or WBS element
    Requests,      \* concurrent requests of any of the handlers
    NoScenario,    \* what an idle request works on
    MaxChanges,    \* bound: changes that a scenario holds at a time
    MaxBaselines   \* bound: promotions that are modelled

ASSUME MaxChangesAssumption == MaxChanges \in Nat
ASSUME MaxBaselinesAssumption == MaxBaselines \in Nat
ASSUME NoScenarioAssumption == NoScenario \notin Scenarios
ASSUME UpdatesAssumption == Updates \subseteq Changes

ScenarioStatus == {"draft", "active", "promoted", "archived"}
Ended == {"promoted", "archived"}

VARIABLES
    status,     \* Scenario.status, or "absent"
    deleted,    \* scenarios with deleted_at set
    changes,    \* the ScenarioChange rows of each scenario
    baseline,   \* promoted_baseline_id: a position in snapshot, or 0
    snapshot,   \* the updates inside each baseline a promotion has created
    pc,         \* where each request is
    target,     \* the scenario in its URL
    seen,       \* the status its session loaded, if the handler may set one
    read,       \* the changes that it read
    shown,      \* the updates whose row was on the pages that it read
    number,     \* the version it will give to the new baseline
    spent,      \* scenarios promoted or applied to the program, until their
                \* status leaves Ended again (history)
    overtaken   \* requests since whose load another one has committed
                \* something about their scenario (history)

rows == <<status, deleted, changes, baseline, snapshot>>
request == <<pc, target, seen, read, shown, number>>
history == <<spent, overtaken>>
vars == <<rows, request, history>>

Live == {s \in Scenarios : status[s] # "absent" /\ s \notin deleted}

Init ==
    /\ status = [s \in Scenarios |-> "absent"]
    /\ deleted = {}
    /\ changes = [s \in Scenarios |-> {}]
    /\ baseline = [s \in Scenarios |-> 0]
    /\ snapshot = <<>>
    /\ pc = [r \in Requests |-> "idle"]
    /\ target = [r \in Requests |-> NoScenario]
    /\ seen = [r \in Requests |-> "absent"]
    /\ read = [r \in Requests |-> {}]
    /\ shown = [r \in Requests |-> {}]
    /\ number = [r \in Requests |-> 0]
    /\ spent = {}
    /\ overtaken = {}

\* The request r goes on to a later step.
Go(r, step) == pc' = [pc EXCEPT ![r] = step]

\* It ends, and its session is closed.
Close(r) ==
    /\ pc' = [pc EXCEPT ![r] = "idle"]
    /\ target' = [target EXCEPT ![r] = NoScenario]
    /\ seen' = [seen EXCEPT ![r] = "absent"]
    /\ read' = [read EXCEPT ![r] = {}]
    /\ shown' = [shown EXCEPT ![r] = {}]
    /\ number' = [number EXCEPT ![r] = 0]

Abandon(r) ==
    /\ pc[r] # "idle"
    /\ Close(r)
    /\ overtaken' = overtaken \ {r}
    /\ UNCHANGED <<rows, spent>>

\* It commits something about the scenario s.
Commit(r, s) ==
    /\ Close(r)
    /\ overtaken' = (overtaken \cup
                     {q \in Requests : pc[q] # "idle" /\ target[q] = s}) \ {r}

\* The flush writes the status when the session saw another one.
SetStatus(r, new) ==
    /\ status' = IF seen[r] = new THEN status
                 ELSE [status EXCEPT ![target[r]] = new]
    /\ spent' = spent \ {s \in Scenarios : status[s] \in Ended
                                           /\ status'[s] \notin Ended}

-----------------------------------------------------------------------------
(* Every handler but create_scenario() begins by loading its scenario.     *)

\* Mutant: changes are taken out of promoted scenarios too.
MutantAcceptsRemoval(handler) ==
    CASE handler \in {"update", "delete", "add"} -> ScenarioStatus \ {"promoted"}
      [] handler = "activate" -> {"draft"}
      [] handler \in {"promote", "apply"} -> ScenarioStatus \ Ended
      [] handler \in {"remove", "archive", "branch"} -> ScenarioStatus

\* The statuses that the handler accepts.
Accepts(handler) ==
    CASE handler \in {"update", "delete", "add", "remove"} ->
            ScenarioStatus \ {"promoted"}
      [] handler = "activate" -> {"draft"}
      [] handler \in {"promote", "apply"} -> ScenarioStatus \ Ended
      [] handler \in {"archive", "branch"} -> ScenarioStatus

Handlers == {"update", "delete", "add", "remove", "activate", "promote",
             "apply", "archive", "branch"}

SetsStatus == {"update", "activate", "archive"}

Load(r, handler, s) ==
    /\ pc[r] = "idle"
    /\ s \in Live
    /\ status[s] \in Accepts(handler)
    /\ Go(r, handler)
    /\ target' = [target EXCEPT ![r] = s]
    /\ seen' = [seen EXCEPT
                   ![r] = IF handler \in SetsStatus THEN status[s] ELSE "absent"]
    /\ UNCHANGED <<rows, read, shown, number, history>>

\* create_scenario() without a parent.
CreateScenario(s) ==
    /\ status[s] = "absent"
    /\ status' = [status EXCEPT ![s] = "draft"]
    /\ UNCHANGED <<deleted, changes, baseline, snapshot, request, history>>

\* update_scenario(): any status may be asked for.
UpdateScenario(r) ==
    /\ pc[r] = "update"
    /\ \E new \in ScenarioStatus : SetStatus(r, new)
    /\ Commit(r, target[r])
    /\ UNCHANGED <<deleted, changes, baseline, snapshot>>

ActivateScenario(r) ==
    /\ pc[r] = "activate"
    /\ SetStatus(r, "active")
    /\ Commit(r, target[r])
    /\ UNCHANGED <<deleted, changes, baseline, snapshot>>

ArchiveScenario(r) ==
    /\ pc[r] = "archive"
    /\ SetStatus(r, "archived")
    /\ Commit(r, target[r])
    /\ UNCHANGED <<deleted, changes, baseline, snapshot>>

DeleteScenario(r) ==
    /\ pc[r] = "delete"
    /\ deleted' = deleted \cup {target[r]}
    /\ Commit(r, target[r])
    /\ UNCHANGED <<status, changes, baseline, snapshot, spent>>

AddChange(r, c) ==
    /\ pc[r] = "add"
    /\ Cardinality(changes[target[r]]) < MaxChanges
    /\ changes' = [changes EXCEPT ![target[r]] = @ \cup {c}]
    /\ Commit(r, target[r])
    /\ UNCHANGED <<status, deleted, baseline, snapshot, spent>>

\* remove_change() looks the change up by its own identifier: it may be one
\* of another scenario s than the scenario that was loaded.
RemoveChange(r, s, c) ==
    /\ pc[r] = "remove"
    /\ c \in changes[s]
    /\ changes' = [changes EXCEPT ![s] = @ \ {c}]
    /\ Commit(r, s)
    /\ UNCHANGED <<status, deleted, baseline, snapshot, spent>>

-----------------------------------------------------------------------------
(* branch_from_scenario(), promote_scenario() and apply_changes() read the *)
(* changes after the scenario.                                             *)

ReadChanges(r) ==
    /\ \/ pc[r] = "branch" /\ Go(r, "branching")
       \/ pc[r] = "promote" /\ target[r] \in Live /\ Go(r, "numbering")
       \/ pc[r] = "apply" /\ target[r] \in Live /\ Go(r, "applying")
    /\ read' = [read EXCEPT ![r] = changes[target[r]]]
    /\ UNCHANGED <<rows, target, seen, shown, number, history>>

CreateBranch(r, s) ==
    /\ pc[r] = "branching"
    /\ status[s] = "absent"
    /\ status' = [status EXCEPT ![s] = "draft"]
    /\ changes' = [changes EXCEPT ![s] = read[r]]
    /\ Close(r)
    /\ overtaken' = overtaken \ {r}
    /\ UNCHANGED <<deleted, baseline, snapshot, spent>>

\* The first page of the program's activities is read, and that of its WBS
\* elements: rows that this module does not keep, so that any updates may find
\* theirs there. The version is the number of baselines that there are, plus
\* one. Those that come and go otherwise only take versions, which Abandon
\* stands for.
CountBaselines(r) ==
    /\ pc[r] = "numbering"
    /\ Len(snapshot) < MaxBaselines
    /\ Go(r, "numbered")
    /\ \E page \in SUBSET Updates : shown' = [shown EXCEPT ![r] = page]
    /\ number' = [number EXCEPT ![r] = Len(snapshot) + 1]
    /\ UNCHANGED <<rows, target, seen, read, history>>

\* Mutant: the scenario keeps its status.
MutantSpendNoStatus(r, new) ==
    /\ status' = status
    /\ spent' = spent \cup {target[r]}
    /\ Commit(r, target[r])

\* A promotion or an application is committed. It has fetched its scenario
\* once more to set its status, and sets none on a deleted one.
Spend(r, new) ==
    /\ status' = IF target[r] \in Live
                 THEN [status EXCEPT ![target[r]] = new] ELSE status
    /\ spent' = spent \cup {target[r]}
    /\ Commit(r, target[r])

\* Mutant: whatever the scenario changes is in the baseline.
MutantCarriedEverything(r) == read[r]

\* What the snapshots are made of: the rows of those pages, with the updates
\* of the scenario. A change that creates or deletes something, and one of a
\* dependency, is passed over, and so is an update of a row further on.
Carried(r) == read[r] \cap shown[r]

\* Mutant: the link is one version ahead.
MutantPromoteLinksNext(r) ==
    /\ pc[r] = "numbered"
    /\ number[r] > Len(snapshot)
    /\ snapshot' = Append(snapshot, Carried(r))
    /\ baseline' = [baseline EXCEPT ![target[r]] = number[r] + 1]
    /\ Spend(r, "promoted")
    /\ UNCHANGED <<deleted, changes>>

\* The baseline is inserted, the scenario is linked to it, and both are
\* committed. A version that is taken fails the promotion.
PromoteScenario(r) ==
    /\ pc[r] = "numbered"
    /\ number[r] > Len(snapshot)
    /\ snapshot' = Append(snapshot, Carried(r))
    /\ baseline' = IF target[r] \in Live
                   THEN [baseline EXCEPT ![target[r]] = number[r]] ELSE baseline
    /\ Spend(r, "promoted")
    /\ UNCHANGED <<deleted, changes>>

\* apply_changes() on a scenario that has some: every change was applied and
\* the program's rows are committed. If one failed, all are rolled back;
\* without changes nothing is done: both are Abandon.
ApplyScenarioChanges(r) ==
    /\ pc[r] = "applying"
    /\ read[r] # {}
    /\ Spend(r, "archived")
    /\ UNCHANGED <<deleted, changes, baseline, snapshot>>

Next ==
    \/ \E s \in Scenarios : CreateScenario(s)
    \/ \E r \in Requests :
          \/ \E s \in Scenarios, h \in Handlers : Load(r, h, s)
          \/ UpdateScenario(r)
          \/ ActivateScenario(r)
          \/ ArchiveScenario(r)
          \/ DeleteScenario(r)
          \/ \E c \in Changes : AddChange(r, c)
          \/ \E s \in Scenarios, c \in Changes : RemoveChange(r, s, c)
          \/ ReadChanges(r)
          \/ \E s \in Scenarios : CreateBranch(r, s)
          \/ CountBaselines(r)
          \/ PromoteScenario(r)
          \/ ApplyScenarioChanges(r)
          \/ Abandon(r)

Spec == Init /\ [][Next]_vars

-----------------------------------------------------------------------------
Steps == {"idle", "branching", "numbering", "numbered", "applying"} \cup Handlers

TypeOK ==
    /\ status \in [Scenarios -> ScenarioStatus \cup {"absent"}]
    /\ deleted \subseteq Scenarios
    /\ changes \in [Scenarios -> SUBSET Changes]
    /\ baseline \in [Scenarios -> 0..MaxBaselines]
    /\ snapshot \in Seq(SUBSET Updates)
    /\ Len(snapshot) <= MaxBaselines
    /\ \A s \in Scenarios : baseline[s] <= Len(snapshot)
    /\ pc \in [Requests -> Steps]
    /\ target \in [Requests -> Scenarios \cup {NoScenario}]
    /\ seen \in [Requests -> ScenarioStatus \cup {"absent"}]
    /\ read \in [Requests -> SUBSET Changes]
    /\ shown \in [Requests -> SUBSET Updates]
    /\ number \in [Requests -> 0..MaxBaselines]
    /\ spent \subseteq Scenarios
    /\ overtaken \subseteq Requests

\* A scenario becomes a baseline or is applied to the program once: nothing
\* is about to promote or apply one that was already, whichever of the two it
\* was, unless its status was set back since or the request was overtaken.
SpentOnce ==
    \A r \in Requests :
        /\ pc[r] \in {"promote", "numbering", "numbered", "apply", "applying"}
        /\ target[r] \in spent
        => r \in overtaken

\* r ends in this step.
Ends(r) == pc[r] # "idle" /\ pc'[r] = "idle"

\* "The scenario is marked as promoted and cannot be further modified"
\* (promote_scenario()), so far as it is true: a promoted scenario keeps its
\* baseline, its changes and its row, unless it is archived, one of its
\* changes is removed through another scenario, or a request that loaded it
\* before its promotion writes to it after.
PromotedStayAsTheyWere ==
    [][\A s \in Live :
          status[s] = "promoted" =>
             \/ /\ <<baseline[s], changes[s]>> = <<baseline[s], changes[s]>>'
                /\ s \in Live'
                /\ status'[s] = "promoted" \/ \E r \in Requests :
                      Ends(r) /\ pc[r] = "archive" /\ status'[s] = "archived"
             \/ \E r \in Requests :
                   /\ Ends(r)
                   /\ \/ target[r] = s /\ r \in overtaken
                      \/ target[r] # s /\ pc[r] = "remove"]_vars

\* A promotion links a baseline of its own, made of exactly those changes of
\* the scenario, as they are at that moment, that update a row on the pages it
\* read, and of nothing else it changes; the scenario ends promoted and no
\* other scenario links that baseline. The exception is a scenario that was
\* changed while the promotion was under way.
PromotionIsExact ==
    [][\A s \in Scenarios :
          baseline'[s] # baseline[s] => \E r \in Requests :
             /\ Ends(r) /\ target[r] = s
             /\ \/ r \in overtaken
                \/ /\ snapshot'[baseline'[s]] =
                         {c \in changes[s] \cap Updates : c \in shown[r]}
                   /\ status'[s] = "promoted"
                   /\ \A t \in Scenarios \ {s} : baseline[t] # baseline'[s]]_vars

=============================================================================
