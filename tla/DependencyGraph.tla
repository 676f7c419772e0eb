-------------------------- MODULE DependencyGraph --------------------------
(***************************************************************************)
(* Who may change the dependency graph of one program, and how: the        *)
(* handlers of api/src/api/v1/endpoints/dependencies.py and activities.py, *)
(* several of them at once, over the soft-deleting repositories.           *)
(*                                                                         *)
(* create_dependency awaits the database several times between its checks  *)
(* and its commit; PostgreSQL runs at READ COMMITTED, so each statement    *)
(* sees what is committed when it starts and nothing else is locked. The   *)
(* other handlers check and write one row and are one step.                *)
(***************************************************************************)
EXTENDS Naturals, FiniteSets

CONSTANTS
    Activities,   \* identities of activity rows
    Pairs,        \* <<predecessor, successor>> pairs a client may ask to link
    Requests      \* concurrent executions of create_dependency

ASSUME PairsAssumption ==
    Pairs \subseteq {p \in Activities \X Activities : p[1] # p[2]}

VARIABLES
    activity,     \* activity rows: absent, live or soft-deleted
    dependency,   \* dependency rows; one row at most per pair, by the unique
                  \* constraint uq_dependencies_predecessor_successor
    pc,           \* where each create_dependency is
    pair,         \* the pair it was asked to link
    committedSince \* pairs committed by others between its cycle check and its
                  \* own commit (history)

vars == <<activity, dependency, pc, pair, committedSince>>

RowState == {"absent", "live", "deleted"}

\* What DependencyRepository.get_by_program returns: it filters on the program
\* of the predecessor only, so soft-deleted rows are returned as well.
Rows == {p \in Pairs : dependency[p] # "absent"}
LiveRows == {p \in Pairs : dependency[p] = "live"}

\* No set of activities feeds itself.
Acyclic(links) ==
    \A S \in SUBSET Activities :
        S # {} => \E a \in S : \A b \in S : <<b, a>> \notin links

Init ==
    /\ activity \in [Activities -> {"absent", "live"}]
    /\ dependency = [p \in Pairs |-> "absent"]
    /\ pc = [r \in Requests |-> "idle"]
    /\ pair \in [Requests -> Pairs]
    /\ committedSince = [r \in Requests |-> {}]

-----------------------------------------------------------------------------
(* create_dependency, from one await to the next.                          *)

\* Both activities exist (and belong to the program the client may edit).
VerifyActivities(r, p) ==
    /\ pc[r] = "idle"
    /\ activity[p[1]] = "live" /\ activity[p[2]] = "live"
    /\ pc' = [pc EXCEPT ![r] = "verified"]
    /\ pair' = [pair EXCEPT ![r] = p]
    /\ UNCHANGED <<activity, dependency, committedSince>>

\* dependency_exists(): a row in the table, deleted or not, is a duplicate.
CheckDuplicate(r) ==
    /\ pc[r] = "verified"
    /\ pc' = [pc EXCEPT ![r] = IF pair[r] \in Rows THEN "idle" ELSE "unique"]
    /\ UNCHANGED <<activity, dependency, pair, committedSince>>

\* Mutant: the cycle check skips the deleted dependencies that the CPM engine
\* goes on reading.
MutantPassesCycleCheckLiveOnly(r) == Acyclic(LiveRows \cup {pair[r]})

\* would_create_cycle() finds no cycle in the rows with the new one added.
PassesCycleCheck(r) == Acyclic(Rows \cup {pair[r]})

AcceptAcyclic(r) ==
    /\ pc[r] = "unique"
    /\ PassesCycleCheck(r)
    /\ pc' = [pc EXCEPT ![r] = "checked"]
    /\ committedSince' = [committedSince EXCEPT ![r] = {}]
    /\ UNCHANGED <<activity, dependency, pair>>

RejectCircular(r) ==
    /\ pc[r] = "unique"
    /\ ~PassesCycleCheck(r)
    /\ pc' = [pc EXCEPT ![r] = "idle"]
    /\ UNCHANGED <<activity, dependency, pair, committedSince>>

\* Between its cycle check and its commit a request relies on that check.
Checked(r) == pc[r] \in {"checked", "inserted"}

\* A request whose insert is flushed and not yet committed holds its key.
HoldsKey(r) == pc[r] = "inserted"

\* Mutant: the table has no unique constraint on the pair.
MutantInsertUnconstrained(r) ==
    /\ pc[r] = "checked"
    /\ pc' = [pc EXCEPT ![r] = "inserted"]
    /\ UNCHANGED <<activity, dependency, pair, committedSince>>

\* The insert waits for an uncommitted row with the same key, and fails on a
\* committed one: ConflictError.
Insert(r) ==
    /\ pc[r] = "checked"
    /\ \A q \in Requests : HoldsKey(q) => pair[q] # pair[r]
    /\ pc' = [pc EXCEPT ![r] = IF pair[r] \in Rows THEN "idle" ELSE "inserted"]
    /\ UNCHANGED <<activity, dependency, pair, committedSince>>

\* Mutant: a committed transaction keeps the lock on its key.
MutantCommitKeepsKey(r) ==
    /\ pc[r] = "inserted"
    /\ dependency[pair[r]] # "live"
    /\ dependency' = [dependency EXCEPT ![pair[r]] = "live"]
    /\ committedSince' = [q \in Requests |->
            IF q # r /\ Checked(q) THEN committedSince[q] \cup {pair[r]} ELSE {}]
    /\ UNCHANGED <<activity, pc, pair>>

Commit(r) ==
    /\ pc[r] = "inserted"
    /\ dependency' = [dependency EXCEPT ![pair[r]] = "live"]
    /\ pc' = [pc EXCEPT ![r] = "idle"]
    /\ committedSince' = [q \in Requests |->
            IF q # r /\ Checked(q) THEN committedSince[q] \cup {pair[r]} ELSE {}]
    /\ UNCHANGED <<activity, pair>>

\* The worker dies or the connection is lost: get_db() or the server rolls the
\* transaction back.
Abandon(r) ==
    /\ pc[r] # "idle"
    /\ pc' = [pc EXCEPT ![r] = "idle"]
    /\ committedSince' = [committedSince EXCEPT ![r] = {}]
    /\ UNCHANGED <<activity, dependency, pair>>

-----------------------------------------------------------------------------
(* The other handlers that write activity or dependency rows.              *)

CreateActivity(a) ==
    /\ activity[a] = "absent"
    /\ activity' = [activity EXCEPT ![a] = "live"]
    /\ UNCHANGED <<dependency, pc, pair, committedSince>>

\* delete_activity() soft-deletes the row and touches nothing else.
DeleteActivity(a) ==
    /\ activity[a] = "live"
    /\ activity' = [activity EXCEPT ![a] = "deleted"]
    /\ UNCHANGED <<dependency, pc, pair, committedSince>>

\* delete_dependency() answers 404 when the predecessor is gone.
DeleteDependency(p) ==
    /\ dependency[p] = "live"
    /\ activity[p[1]] = "live"
    /\ dependency' = [dependency EXCEPT ![p] = "deleted"]
    /\ UNCHANGED <<activity, pc, pair, committedSince>>

\* Mutant: the import replaces the dependencies that are there.
MutantImportProjectReplaces(news, links) ==
    /\ news # {} /\ \A a \in news : activity[a] = "absent"
    /\ links \subseteq {p \in Pairs : p[1] \in news /\ p[2] \in news}
    /\ activity' = [a \in Activities |->
                      IF a \in news THEN "live" ELSE activity[a]]
    /\ dependency' = [p \in links |-> "live"]
    /\ UNCHANGED <<pc, pair, committedSince>>

\* import_msproject_to_program() adds new activities and the links between
\* them that the file has, without a cycle check.
ImportProject(news, links) ==
    /\ news # {} /\ \A a \in news : activity[a] = "absent"
    /\ links \subseteq {p \in Pairs : p[1] \in news /\ p[2] \in news}
    /\ activity' = [a \in Activities |->
                      IF a \in news THEN "live" ELSE activity[a]]
    /\ dependency' = [p \in Pairs |->
                      IF p \in links THEN "live" ELSE dependency[p]]
    /\ UNCHANGED <<pc, pair, committedSince>>

Create(r) ==
    \/ CheckDuplicate(r)
    \/ AcceptAcyclic(r)
    \/ RejectCircular(r)
    \/ Insert(r)
    \/ Commit(r)

Next ==
    \/ \E r \in Requests : \E p \in Pairs : VerifyActivities(r, p)
    \/ \E r \in Requests : Create(r) \/ Abandon(r)
    \/ \E a \in Activities : CreateActivity(a) \/ DeleteActivity(a)
    \/ \E p \in Pairs : DeleteDependency(p)
    \/ \E news \in SUBSET Activities : \E links \in SUBSET Pairs :
          ImportProject(news, links)

Spec == Init /\ [][Next]_vars

\* Every coroutine that is not waiting for the database is resumed. Strong
\* fairness for the insert: PostgreSQL queues the transactions that wait for a
\* key, so one of them is not overtaken by newcomers for ever.
FairSpec ==
    Spec /\ \A r \in Requests : WF_vars(Create(r)) /\ SF_vars(Insert(r))

-----------------------------------------------------------------------------
TypeOK ==
    /\ activity \in [Activities -> RowState]
    /\ dependency \in [Pairs -> RowState]
    /\ pc \in [Requests ->
                 {"idle", "verified", "unique", "checked", "inserted"}]
    /\ pair \in [Requests -> Pairs]
    /\ committedSince \in [Requests -> SUBSET Pairs]

\* create_dependency() rejects a dependency that would close a cycle, so that
\* calculate_schedule() can always answer: no creation makes a cyclic graph out
\* of an acyclic one. Creations that overlap do.
CreationsCloseNoCycle ==
    [][ \A r \in Requests :
          Commit(r) /\ Acyclic(Rows) => Acyclic(Rows)' ]_vars

\* An import of a plan that is circular in itself.
CircularImport ==
    \E news \in SUBSET Activities : \E links \in SUBSET Pairs :
        ImportProject(news, links) /\ ~Acyclic(links)

\* With creations in parallel, the only way to a cycle, other than importing
\* one, is a commit that overlaps another: one whose cycle check missed a pair
\* committed since.
CycleNeedsOverlap ==
    [][ Acyclic(Rows) /\ ~Acyclic(Rows)'
          => \/ CircularImport
             \/ \E r \in Requests : Commit(r) /\ committedSince[r] # {} ]_vars

\* No row is lost, revived or overwritten by concurrent requests: the row of a
\* pair goes from absent to live to deleted, each step at most once.
RowsOnlyAge ==
    [][ \A p \in Pairs :
          \/ dependency'[p] = dependency[p]
          \/ dependency[p] = "absent" /\ dependency'[p] = "live"
          \/ dependency[p] = "live" /\ dependency'[p] = "deleted" ]_vars

\* create_dependency() never waits for ever, although an insert waits for the
\* transaction that holds its key.
CreationsFinish == \A r \in Requests : pc[r] # "idle" ~> pc[r] = "idle"

\* delete_activity(): "Deleting an activity will also remove its dependencies."
LiveDependenciesJoinLiveActivities ==
    \A p \in LiveRows : activity[p[1]] # "deleted" /\ activity[p[2]] # "deleted"

=============================================================================
