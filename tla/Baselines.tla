----------------------------- MODULE Baselines -----------------------------
(***************************************************************************)
(* The baselines of one program: the handlers of                           *)
(* api/src/api/v1/endpoints/baselines.py over BaselineRepository, and the  *)
(* baselines that scenario promotion adds.                                 *)
(*                                                                         *)
(* A handler reads, decides and commits in separate statements at READ     *)
(* COMMITTED, with no row locked in between. Its flush writes only columns *)
(* that differ from what the session loaded. The snapshots themselves are  *)
(* never written again and are left out.                                   *)
(***************************************************************************)
EXTENDS Naturals, FiniteSets

CONSTANTS
    Requests,     \* concurrent requests of any of the handlers
    MaxVersion,   \* bound: highest version number that is modelled
    PageLimit     \* rows get_by_program() returns when it is not told (100)

ASSUME BoundsAssumption == MaxVersion \in Nat /\ PageLimit \in Nat

Versions == 1..MaxVersion

VARIABLES
    row,       \* baseline rows by version: uq_baselines_program_version
               \* covers soft-deleted rows too
    approved,  \* versions whose row has is_approved set
    pc,        \* where each request is
    target,    \* the version it works on
    seen,      \* is_approved of that row as the session loaded it
    previous,  \* the other approved baseline that an approval found, if any
    overtaken  \* requests since whose first read another one has committed an
               \* approval, an unapproval or a deletion (history)

request == <<pc, target, seen, previous>>
vars == <<row, approved, request, overtaken>>

Live == {v \in Versions : row[v] = "live"}
ApprovedLive == approved \cap Live

Init ==
    /\ row = [v \in Versions |-> "absent"]
    /\ approved = {}
    /\ pc = [r \in Requests |-> "idle"]
    /\ target = [r \in Requests |-> 0]
    /\ seen = [r \in Requests |-> FALSE]
    /\ previous = [r \in Requests |-> {}]
    /\ overtaken = {}

\* The request r goes on to step with version v.
Go(r, step, v) ==
    /\ pc' = [pc EXCEPT ![r] = step]
    /\ target' = [target EXCEPT ![r] = v]

\* It ends without a change that another request's decision may rest on.
Finish(r) ==
    /\ pc' = [pc EXCEPT ![r] = "idle"]
    /\ overtaken' = overtaken \ {r}

\* It commits such a change.
FinishBeforeOthers(r) ==
    /\ pc' = [pc EXCEPT ![r] = "idle"]
    /\ overtaken' = (overtaken \cup {q \in Requests : pc[q] # "idle"}) \ {r}

-----------------------------------------------------------------------------
(* Creating: create_snapshot() and ScenarioPromotionService.               *)

\* get_latest_version() looks at live rows only.
IsLatestVersion(n) == n \in Live \cup {0} /\ \A v \in Live : v <= n

\* Mutant: the new baseline takes the latest number itself.
MutantNumberSnapshotLatest(r) ==
    /\ pc[r] = "idle"
    /\ \E n \in 0..MaxVersion : IsLatestVersion(n) /\ Go(r, "numbered", n)
    /\ UNCHANGED <<row, approved, seen, previous, overtaken>>

NumberSnapshot(r) ==
    /\ pc[r] = "idle"
    /\ \E n \in 0..(MaxVersion - 1) :
          IsLatestVersion(n) /\ Go(r, "numbered", n + 1)
    /\ UNCHANGED <<row, approved, seen, previous, overtaken>>

\* Promotion numbers by counting the first page of live baselines.
NumberPromotion(r) ==
    /\ pc[r] = "idle"
    /\ \E page \in SUBSET Live :
          /\ Cardinality(page) <= PageLimit
          /\ Cardinality(page) = PageLimit \/ page = Live
          /\ Cardinality(page) < MaxVersion
          /\ Go(r, "numbered", Cardinality(page) + 1)
    /\ UNCHANGED <<row, approved, seen, previous, overtaken>>

\* Mutant: the constraint does not cover soft-deleted rows.
MutantInsertOverDeleted(r) ==
    /\ pc[r] = "numbered"
    /\ row' = IF row[target[r]] # "live"
              THEN [row EXCEPT ![target[r]] = "live"] ELSE row
    /\ Finish(r)
    /\ UNCHANGED <<approved, target, seen, previous>>

\* After the snapshots are built the row is inserted and committed; a version
\* that is taken raises IntegrityError.
InsertBaseline(r) ==
    /\ pc[r] = "numbered"
    /\ row' = IF row[target[r]] = "absent"
              THEN [row EXCEPT ![target[r]] = "live"] ELSE row
    /\ Finish(r)
    /\ UNCHANGED <<approved, target, seen, previous>>

-----------------------------------------------------------------------------
(* approve_baseline()                                                      *)

LoadForApproval(r, v) ==
    /\ pc[r] = "idle"
    /\ v \in Live
    /\ Go(r, "approving", v)
    /\ seen' = [seen EXCEPT ![r] = v \in approved]
    /\ UNCHANGED <<row, approved, previous, overtaken>>

\* Mutant: only a baseline older than the one approved is looked for.
MutantFindApprovedOlder(r) ==
    /\ pc[r] = "approving"
    /\ Cardinality(ApprovedLive) <= 1
    /\ pc' = [pc EXCEPT ![r] = "approvable"]
    /\ previous' = [previous EXCEPT ![r] =
                      {v \in ApprovedLive : v < target[r]}]
    /\ UNCHANGED <<row, approved, target, seen, overtaken>>

FindApproved(r) ==
    /\ pc[r] = "approving"
    /\ Cardinality(ApprovedLive) <= 1
    /\ pc' = [pc EXCEPT ![r] = "approvable"]
    /\ previous' = [previous EXCEPT ![r] = ApprovedLive \ {target[r]}]
    /\ UNCHANGED <<row, approved, target, seen, overtaken>>

\* get_approved_baseline(): scalar_one_or_none() raises on two rows.
FailOnTwoApproved(r) ==
    /\ pc[r] = "approving"
    /\ Cardinality(ApprovedLive) > 1
    /\ Finish(r)
    /\ UNCHANGED <<row, approved, target, seen, previous>>

\* The flag is written only if the row was loaded without it.
CommitApproval(r) ==
    /\ pc[r] = "approvable"
    /\ approved' = (approved \ previous[r])
                     \cup (IF seen[r] THEN {} ELSE {target[r]})
    /\ FinishBeforeOthers(r)
    /\ UNCHANGED <<row, target, seen, previous>>

-----------------------------------------------------------------------------
(* unapprove_baseline() and delete_baseline()                              *)

LoadForUnapproval(r, v) ==
    /\ pc[r] = "idle"
    /\ v \in ApprovedLive
    /\ Go(r, "unapproving", v)
    /\ UNCHANGED <<row, approved, seen, previous, overtaken>>

CommitUnapproval(r) ==
    /\ pc[r] = "unapproving"
    /\ approved' = approved \ {target[r]}
    /\ FinishBeforeOthers(r)
    /\ UNCHANGED <<row, target, seen, previous>>

\* Mutant: an approved baseline may be deleted.
MutantLoadForDeletionUnchecked(r, v) ==
    /\ pc[r] = "idle"
    /\ v \in Live
    /\ Go(r, "deleting", v)
    /\ UNCHANGED <<row, approved, seen, previous, overtaken>>

LoadForDeletion(r, v) ==
    /\ pc[r] = "idle"
    /\ v \in Live \ approved
    /\ Go(r, "deleting", v)
    /\ UNCHANGED <<row, approved, seen, previous, overtaken>>

\* repo.delete() selects the row again, skipping a deleted one, but does not
\* look at is_approved again.
CommitDeletion(r) ==
    /\ pc[r] = "deleting"
    /\ row' = [row EXCEPT ![target[r]] = "deleted"]
    /\ FinishBeforeOthers(r)
    /\ UNCHANGED <<approved, target, seen, previous>>

\* The worker or the connection is lost before the commit.
Abandon(r) ==
    /\ pc[r] # "idle"
    /\ Finish(r)
    /\ UNCHANGED <<row, approved, target, seen, previous>>

-----------------------------------------------------------------------------
Step(r) ==
    \/ NumberSnapshot(r) \/ NumberPromotion(r) \/ InsertBaseline(r)
    \/ FindApproved(r) \/ FailOnTwoApproved(r) \/ CommitApproval(r)
    \/ CommitUnapproval(r) \/ CommitDeletion(r)
    \/ Abandon(r)

Load(r, v) ==
    LoadForApproval(r, v) \/ LoadForUnapproval(r, v) \/ LoadForDeletion(r, v)

Next ==
    \/ \E r \in Requests : Step(r)
    \/ \E r \in Requests, v \in Versions : Load(r, v)

Spec == Init /\ [][Next]_vars

-----------------------------------------------------------------------------
TypeOK ==
    /\ row \in [Versions -> {"absent", "live", "deleted"}]
    /\ approved \subseteq {v \in Versions : row[v] # "absent"}
    /\ pc \in [Requests -> {"idle", "numbered", "approving", "approvable",
                            "unapproving", "deleting"}]
    /\ target \in [Requests -> 0..MaxVersion]
    /\ \A r \in Requests : pc[r] # "idle" => target[r] \in Versions
    /\ seen \in [Requests -> BOOLEAN]
    /\ previous \in [Requests -> SUBSET Versions]
    /\ overtaken \subseteq {r \in Requests : pc[r] # "idle"}

\* approve_baseline(): "Only one baseline per program can be approved at a
\* time. Approving a new baseline automatically unapproves the previous one."
\* An approval makes its baseline the only approved one, whatever else is going
\* on, unless the approvals or deletions changed after its first read.
ApprovalMovesThePMB ==
    [][ \A r \in Requests :
          CommitApproval(r) /\ r \notin overtaken
            => ApprovedLive' = {target[r]} ]_vars

\* delete_baseline(): "Approved baselines cannot be deleted - unapprove first."
\* A baseline becomes approved and deleted only by a request that read it
\* before another one approved or deleted it.
ApprovedAreKept ==
    [][ \A v \in Versions :
          v \in approved' /\ row'[v] = "deleted"
            => \/ v \in approved /\ row[v] = "deleted"
               \/ \E r \in overtaken :
                     /\ target[r] = v
                     /\ CommitApproval(r) \/ CommitDeletion(r) ]_vars

\* A version number names one baseline for ever: a row is never overwritten or
\* revived, whatever creations, promotions and deletions overlap.
VersionsNameOneBaseline ==
    [][ \A v \in Versions :
          \/ row'[v] = row[v]
          \/ row[v] = "absent" /\ row'[v] = "live"
          \/ row[v] = "live" /\ row'[v] = "deleted" ]_vars

\* create_baseline(): "The baseline version is automatically incremented": a
\* creation that nothing overlaps gets a version that is free.
NumbersAreFree ==
    \A r \in Requests : pc[r] = "numbered" => row[target[r]] = "absent"

=============================================================================
