# Formal models of the Defense PM Tool

TLA+ specifications of the core of the Defense PM Tool API (`api/src`): scheduling,
baselines and scenarios, resource leveling and the Jira synchronisation; model-checked with
TLC and, where a claim can be proved for every size, proved with TLAPS. Every definition is
translated from the Python source; `PROJECT.json` gives the lines.

## The system

The API is a FastAPI application. Each request runs a coroutine with a database session
of its own; a handler reads and writes PostgreSQL through repositories, at PostgreSQL's
default isolation level READ COMMITTED, and commits at its end (`core/database.py`).
Several workers serve requests, so handlers interleave at every `await`. Rows are
soft-deleted (`deleted_at`). Redis holds derived results (`core/cache.py`); every Redis
error is swallowed. No handler takes a row lock explicitly, and nothing is retried.

| Component | State it keeps | Operations | Interacts with | What is hard, and what makes it correct |
|---|---|---|---|---|
| CPM engine `services/cpm.py` | dates and floats of one run | `calculate`, `get_critical_path`, `get_project_duration` | called by schedule, scenarios, Monte Carlo, leveling | four link types, leads and lags, any topological order: earliest and latest feasible dates, usable floats, termination |
| Dependencies `endpoints/dependencies.py`, `repositories/dependency.py` | dependency rows | create (duplicate and cycle checks), update, delete | activities, CPM engine | checks and insert are separate statements: acyclic graph, one row per pair |
| Activities `endpoints/activities.py` | activity rows and their calculated columns | create, update, delete, code generation | cache, dependencies, schedule | invalidation before commit, deletion that leaves dependencies |
| Schedule `endpoints/schedule.py`, `core/cache.py` | calculated columns, `cpm:result:*` keys | calculate, critical path, project duration | engine, cache, activities | network read by two statements, stale cache, column-wise writes: exact answers, consistent rows |
| Baselines `endpoints/baselines.py`, `repositories/baseline.py` | baseline rows, `is_approved` | create, approve, unapprove, delete, compare | scenario promotion, EVMS | numbering and approval under overlap: one PMB, versions never reused |
| Scenarios `endpoints/scenarios.py`, `services/scenario_*.py` | scenario and change rows, status, results cache | create, branch, change, activate, archive, promote, apply | baselines, activities, WBS | status machine, double promotion, partial application |
| WBS `endpoints/wbs.py` | tree of elements with codes and paths | create, update, move, delete | activities, EVMS | code generation race, deletion of a subtree |
| MS Project import | — | import | WBS, activities, dependencies | rows without the handlers' checks |
| EVMS `endpoints/evms.py`, `services/evms.py`, `ev_methods.py` | periods and their cumulative data | create, update, complete, summary | baselines, variance, reports | cumulative sums, status of a period |
| Management reserve | log of changes with a running balance | change, history | EVMS | two entries on one balance |
| Leveling `services/resource_leveling.py`, `parallel_leveling.py`, `endpoints/leveling.py` | working dates, recorded shifts, a heap of conflicts; `planned_start` when applied | preview (serial, parallel, compare), apply | CPM dates, assignments, links | iteration that must end, keep the links, and not give up what could still be resolved |
| Resources, assignments, loading | resources, assignments | assign, load by day | leveling | sums by day and week |
| Resource pools | pools, members, grants | share, check availability | resources | concurrent allocation |
| Monte Carlo simulation | simulation rows with a status | create, run | CPM engine, cache | random numbers; status of a run |
| Dashboard and simulation caches | fixed Redis keys | get, invalidate | EVMS, activities | stale results |
| Jira integration `endpoints/jira_*.py`, `services/jira_*.py` | the integration, one mapping row per entity, sync log; the issues, kept by Jira | connect, map, push, pull, progress, webhook, variance issue | WBS, activities, variance | one transaction around many HTTP calls, retried calls, duplicated, late and lost webhooks, the echo of the program's own changes |
| Variance, reports, skills, calendars, costs | rows and text | maintenance, formatting | EVMS | little beyond single rows |
| Auth, middleware, frontend, migrations | tokens, logs, UI state | — | all | libraries and presentation |

The same list, with the status of each part, is `components` in `PROJECT.json`; what is
hard to test in the code, line by line, is `hazards`.

## The modules

### `CPMEngine`

One run of `CPMEngine.calculate`. The network (durations, links, types, lags) is chosen by
`Init`; the rest of the state is the run's: `phase`, the activities the current loop has
still to visit (`pending`), and the fields of `ScheduleResult`. Actions are `RejectCycle`,
`StartForwardPass`, `ForwardVisit`, `StartBackwardPass`, `BackwardVisit` and
`CalculateFloat`, one per turn of each loop. `networkx.topological_sort` promises no
particular order, so the visits take any activity whose predecessors (successors) are done.
Properties compare the result with what the four dependency types mean (`Feasible`), not
with the two passes: the early dates are the least feasible schedule from day 0, the late
dates the greatest that meets the project's end. Lags are integers, days are working days.
Conversion of day numbers to calendar dates is done by callers and is left out.

### `DependencyGraph`

The rows of one program's dependency graph under `create_dependency`, which is split at
its awaits: `VerifyActivities`, `CheckDuplicate`, `AcceptAcyclic` or `RejectCircular`,
`Insert` (the flush, which waits for an uncommitted row with the same unique key and fails
on a committed one), `Commit`, and `Abandon` for a lost worker or connection. The handlers
that check and write one row (`CreateActivity`, `DeleteActivity`, `DeleteDependency`) and
`ImportProject` are one step. `get_by_program` returns soft-deleted dependencies as well
(`Rows`), as the query does. `committedSince` is a history variable.

### `ScheduleCalculation`

`calculate_schedule` between PostgreSQL (`net`: durations and links; `row`: the calculated
columns) and Redis (`cache`). One calculation is `ReadActivities`, `ReadDependencies` (a
second statement, a second snapshot), then a hit (`AnswerFromCache`), an error
(`EngineRaises`) or `CalculateAndSave`, which writes the columns that differ from what the
session loaded and nothing else, as SQLAlchemy does, and `CacheResult`. Edits flush and
invalidate before they commit (`FlushActivity`, `CommitActivity`, `RollBackActivity`);
dependency edits invalidate nothing. `Invalidate` and `CacheResult` may silently do nothing
(Redis errors). The engine is the constant `Schedule`; the MC module gives it the schedule
that `CPMEngine`'s invariants characterise, and `EngineAssumption` is what those
invariants say of it. The key of a result is modelled as the network itself:
`compute_activities_hash` covers every duration, type and lag, and hash collisions are left
out. `since` is a history variable: what others committed since the calculation's first
read. `CPMEngine` and `ScheduleCalculation` meet in `Schedule`; `DependencyGraph` says when
a network has one.

### `Baselines`

The baselines of a program by version: `row` (absent, live, deleted) and `approved`. The
handlers are split at their awaits: numbering by the latest live version (`create_baseline`)
or by counting the first page of live ones (scenario promotion), `InsertBaseline` with the
unique constraint, which covers deleted rows; approval (`LoadForApproval`, `FindApproved`,
`CommitApproval`), where the flag is written only if the row was loaded without it;
unapproval; deletion, which checks the approval when it loads. `overtaken` is a history
variable. Snapshots are immutable and left out.

### `Scenarios`

The scenarios of a program: `status`, `deleted`, their `changes`, the baseline each was
promoted to (`baseline`, a position in `snapshot`, which holds the updates that went into
it). Every handler but a plain creation begins with `Load`, which decides by the status
(`Accepts`), and commits later: `UpdateScenario` (any status may be asked for),
`ActivateScenario`, `ArchiveScenario`, `DeleteScenario`, `AddChange`, `RemoveChange` (by the
change's own id, whichever scenario it belongs to). Branching, promotion and application
read the changes in a statement of their own (`ReadChanges`), and end in `CreateBranch`, in
`CountBaselines` and `PromoteScenario`, or in `ApplyScenarioChanges`; all that fails or
changes nothing is `Abandon`. An application is all or nothing because it is one
transaction, so its failing changes need no step. A status equal to the one the session
loaded is not written. A promotion does not put every change into its baseline (`Carried`):
the snapshots are rows of the program with the scenario's field updates written over them, so
a change that creates or deletes a row, or is about a dependency, is in none of them
(`scenario_promotion.py:303`, `:340`, `:372`), and an update only if its row is on the first
page of activities or WBS elements (`:140-141`). `Updates` is the set of changes that update
a field of an activity or WBS element; which of their rows those pages hold (`shown`) is left
open, because the rows belong to other handlers. Each update is of a field of its own: of two
updates of one field, the code keeps the later one. An application handles every kind of
change, or fails. History: `spent` (promoted or applied, and not set back to draft or active
since), `overtaken`. `is_active`, which only lists filter on, and
`results_cache`, which nothing fills, are left out. Version numbers meet those of
`Baselines` only in the count: here promotions alone add baselines.

### `Leveling`

One request for leveling. `Init` chooses the program (`project`: CPM dates, spans, floats,
critical flags, loads, links), the algorithm (`method`) and the `LevelingOptions`. The state
is the algorithm's own copy of the dates (`start`), the start in each activity's last
recorded shift (`recorded`), the parallel algorithm's heap (`conflicts`), and the iteration
count. `SerialShift` is one turn of the serial loop: the first activity in order that an
overloaded resource of its own can send to a later slot is sent there. `ParallelShift` pops
the soonest conflict and delays the activity with the highest score, `PassOver` drops a
conflict in which nobody may give way. `Propagate` follows one link to a successor that
would start too early; the code's recursion and its queue visit links in orders of their
own, so any order is allowed. `Settle` ends the propagation and rebuilds the heap, `Stop`
ends the loop, and `Apply` is the endpoint that runs the serial algorithm with its defaults
and writes `planned_start`. Calendar dates are day numbers with weekends, as the code treats
them; the search for a slot (`Slot`) tries `SearchDays` weekdays and otherwise answers the
day it gave up at. It is assumed that every activity has early dates, that rows read again
during a run have not changed and that all assignments are in the program.

### `JiraSync` and `JiraLinks`

`JiraLinks` is the abstract specification: what the rows of `jira_mappings` promise over
their life. `JiraSync` is the exchange itself. Its state is the program's side (the
`integration`, one mapping row `link` per entity, `name`, `percent`, `alive`), Jira's side
(`issue`, the `hooks` it has sent, and a `clock`; modelled from how the client uses it), and
the requests at work (`req`). A request is one database transaction that lasts over all its
HTTP calls: it has a `plan` (the items that it loaded at its start, with the link and name as
they then were), the item it is at (`here`), its uncommitted `writes` and its row `locks`. A
push goes `Create`, `Insert` or `Update`, `Touch` per item; a pull `Fetch`, `Read`, `Write`,
`Stamp`; the progress run `Aim`, `Compare`, `Transition`, `Touch`; a webhook `Stamp`, `Read`,
`Write`, or `Drop` for a deleted issue; a variance explanation a single `Create`. `Commit`
ends them all. Every call to Jira may end in `Fault`, with or without its effect in Jira, and
is tried again after a 429 or 5xx. `Insert` rolls the request back on a unique
violation, and `Victim` is PostgreSQL breaking a deadlock, which is real: a pull locks the
activity before its link, a webhook the link before the activity. `ReceiveHook` may leave the
webhook in place (delivered again) and takes them in any order. The contents of a text are
the clock tick at which it was written. `budget` bounds what users, Jira and the network do;
`trouble` is a history variable.

### How the modules meet

`CPMEngine` gives `ScheduleCalculation` its `Schedule` and `Leveling` its dates, floats and
critical flags; `DependencyGraph` says when a network has a schedule; `Scenarios` and
`Baselines` share the numbering of baselines; `JiraSync` composes the endpoints, the webhook
receiver, the client and the tracker in one state machine, since their hazards are one
another.

### Proof modules

`CPMEngineProofs`, `DependencyGraphProofs`, `ScheduleCalculationProofs`, `BaselinesProofs`,
`ScenariosProofs`, `LevelingProofs` and `JiraSyncProofs` each EXTEND their component and
TLAPS; `JiraExchangeProofs` goes on from `JiraSyncProofs`. `MC*` modules hold the instances.

## What TLC checks

| Run | Instance | States | Shows |
|---|---|---|---|
| `CPMEngine` | 3 activities, durations {0, 3}, all acyclic networks with 4 types and lags {-2, 1}, plus cycles | 61 552 | the ten properties of the engine; `CalculateTerminates` under weak fairness |
| `DependencyGraph` | 3 activities, 3 pairs that form a triangle, 2 creations | 83 919 | types, `CycleNeedsOverlap`, `RowsOnlyAge`, `CreationsFinish` |
| `ScheduleCalculation` | 2 activities, one link, 3 updates, 2 calculations, 1 cached result, 2 uncommitted edits | 1 665 102 | types, exact and current answers, saved rows, matched flags |
| `Baselines` | 3 versions, page of 2, 2 requests | 361 811 | types, `ApprovalMovesThePMB`, `ApprovedAreKept`, `VersionsNameOneBaseline` |
| `Scenarios` | 2 scenarios, an update and a change of another kind, at most 1 of them in a scenario, 2 baselines, 2 requests | 9 235 327 | types, `SpentOnce`, `PromotedStayAsTheyWere`, `PromotionIsExact` |
| `Leveling` | 3 activities, 2 resources, capacity 2, search of 6 weekdays, 5 iterations, 4 networks with all link types, 4 loads, every choice of options | 89 390 | types, `LinksStayHonoured`, `MovesAreExplained`, `LeftoversAreStuck`, `SlotsAreFree`, `LevelingEnds` |
| `JiraSync` | 2 activities, 1 WBS element, 2 requests, 6 issues, page of 2, 2 attempts, 16 stories | 317 117 | types, `DuplicateNeedsTrouble`, `PullWatermarkIsHonest`, `SettledStaysSettled`, `OneWayLinks`, `EveryRequestEnds`, and the refinement `LinksRefined` |

Five more runs each end in a counterexample to a sentence of the documentation or a test:

| Run | Sentence | What the code does |
|---|---|---|
| `CPMFreeFloat` | free float delays no successor (`docs/cpm-algorithm.md:17`) | only FS successors are looked at; an activity with SS, FF or SF successors gets more |
| `DependencyRace` | "Should prevent A -> B -> A cycle" (`test_dependencies_api.py:379`) | two creations pass the check before either commits |
| `DependencyOrphans` | deleting an activity removes its dependencies (`activities.py:326`) | they stay live |
| `ScheduleStaleRows` | the critical path endpoint returns the critical activities (`schedule.py:143`) | it reads rows that a cache hit did not rewrite |
| `BaselineVersionTaken` | the version is incremented automatically (`baselines.py:101`) | after the newest baseline is deleted, the next number is taken by its row |

Deadlock is checked for `Baselines`. The others turn it off because they end where the
system does: `calculate()` returns; a program whose activities are all created and deleted
has nothing left to do, nor has one whose scenarios are; a calculation over a bounded set of
edits may run out of changes; leveling returns; and a Jira story ends when its budget is
spent. That no request is left waiting for ever is what `EveryRequestEnds` says instead.

**Bounds and why they are enough.** Three activities admit every shape in which two links
compete (a chain, a fork, a join and a transitive edge); durations 0 and 3 with lags -2 and
1 make leads larger and smaller than durations and reach day 0 from both sides; `Days` holds
every day a schedule of the instance can use. A triangle needs three overlapping or
successive creations and has no mutual pair, so a check that looks one step back fails. Two
requests are what an overtaken decision takes; the theorems cover more. In
`ScheduleCalculation` a link that is absent or present and a duration that is shorter or
longer than the other activity's give each activity a zero and a non-zero float;
`ScheduleStaleRows` also changes a link's type. `KeysBound` and `EditsBound` cap the cache
and the uncommitted edits; neither appears in a proof. Two uncommitted edits are the batch
that applying a scenario flushes and then commits or rolls back as one
(`scenario_apply.py:176`): its commits follow one another without a step in between, which
is one of the orders the model allows. `MaxVersion` = 3 with `PageLimit` = 2 lets the count
of a page differ from the latest version; no action gives a number above `MaxVersion`. Two
scenarios give a parent and a branch, or a scenario and the one through which its change is
removed; two baselines let one scenario be promoted twice. A scenario holds one change at a
time (`MaxChanges`), of either kind: what a promotion does with a change does not depend on
the others, and `PromotionsAreExact` is proved for any set of them. In `Leveling` two activities
overload a resource and a third competes or follows; a load of 3 on a capacity of 2 is an
activity that never fits; 6 weekdays of search end both inside and outside the schedule; 5
iterations are more and fewer than the instances need; floats 0 to 9 are smaller and larger
than the delays. In `JiraSync` each value of `Budgets` is a story, such as two pushes with a
failing call, or a user's change that comes by webhook twice and by pull: `MCJiraSync` lists
them. All that the stories leave out is more events of the same kinds in one behaviour. Two
requests make an overlap and a deadlock, two attempts a retry and a retry that gives up,
three entities with `PageLimit` 2 a full page; `MaxIssues` is never reached. The proofs
assume none of these bounds.

**Fairness.** `CPMEngine` takes `WF(Next)`: `calculate` does not await. `DependencyGraph`
takes weak fairness of each creation (the event loop resumes every coroutine that can go
on) and strong fairness of `Insert`: PostgreSQL queues the transactions waiting for a key,
so newcomers do not overtake one for ever. Nothing is assumed of `Abandon`, of clients or of
lost connections. `Leveling` takes `WF(Step)`: the loop runs until it returns. `JiraSync`
takes weak fairness of each request's `RequestStep`: a request that was accepted is worked on
until it ends, and every call to Jira answers or times out. Nothing is assumed of users, of
webhooks being delivered or of calls succeeding; `budget` bounds the faults, as the
client's attempts do for one call. `Baselines`, `Scenarios` and `ScheduleCalculation` state
safety only.

## What is proved

For every value of the constants, from the named assumptions in the modules and no others:

* **CPMEngine** — `TypeCorrect`, `EarlyFeasibility`, `EarlyMinimality`, `LateFeasibility`,
  `LateMaximality`, `FloatsAreNonNegative`. The forward pass keeps the invariant that
  visited activities honour every link among themselves and start no later than in any
  feasible schedule; it is inductive because the visited set is closed under predecessors.
  The backward pass is the mirror image with the project's end, and needs that the early
  dates are themselves a feasible schedule by that end. Floats follow from the two extremes.
  `CriticalPathConnected` and `FreeFloatExact` rest on where dates come from: an early start
  after day 0 is the limit that some predecessor set (`DrivenInv`; if the activity is
  critical that predecessor is too), and free floats are read off the final early dates
  (`FreeInv`). `TotalFloatUsable` builds the delayed schedule: each start is the later of
  the early date and the late date less what is left of the float, which keeps every link
  because both extremes do. `ResultDetermined`: the dates and floats are spelled out from
  the network alone (the earliest feasible schedule, the latest one that ends with it), so
  the topological order cannot be seen in them; it is why `ScheduleCalculation` may take the
  engine as a function of the network. `TotalFloatUsable` and `ResultDetermined` assume a
  calendar without end (`Nat \subseteq Days`). `PassesNeverStall` is the argument of
  `CalculateTerminates` short of its fairness: in an acyclic network every set of activities
  has a first and, being finite, a last one, every finite set of limits has an extreme, and
  each step shortens `pending` or goes on to the next phase. Assumptions: finitely many
  activities, natural durations, integer lags, no activity linked to itself.
* **DependencyGraph** — `TypeCorrect`, `CyclesNeedOverlap`, `SerialCreationsKeepAcyclic`,
  `RowsAge`. `CycleNeedsOverlap` is not inductive: the strengthening `CheckHolds` says that
  a request that has passed the check, and since whose check nothing was committed, may
  still be added without a cycle. An import must not disturb that, hence `EndsKnown` (links
  join activities that exist, and an import's are new) and the lemma that two acyclic graphs
  on disjoint activities are acyclic together. `RowsAge` needs `KeyInv`: a flushed insert
  holds its key alone and its pair has no row until it commits.
* **ScheduleCalculation** — `TypeCorrect`, `AnswersExact`, `AnswersCurrent`, `SavedRows`,
  `FlagsStay`, for any number of overlapping calculations, and `SerialCalculationsKeepFlags`
  for calculations one at a time among any edits. The invariant `IInv`: a result is
  filed under the network it is the schedule of; until an edit commits, what a
  calculation has read is the program as it is; until another calculation saves, the columns
  it loaded are the committed ones. Assumption on the engine: `EngineAssumption`; the code
  defines `is_critical` as a zero total float, and the engine's graph has an activity at
  each end of a link.
* **Baselines** — `TypeCorrect`, `VersionNamesStay`, `ApprovalMoves`, `ApprovedStay`, and
  what follows for the program: `SecondPMBNeedsOverlap` (two approved baselines come only
  from an approval that was overtaken) and `SerialRequestsKeepOnePMB`. The invariant
  `CurrentInv` says, for each request that nothing has overtaken, that what it loaded still
  holds: an approval's target is live, `seen` is whether it is approved, and once the
  approval may be written `previous` holds every other approved baseline; a deletion's
  target is live and not approved.
* **Scenarios** — `TypeCorrect`, `SpentOnceOnly`, `PromotionsAreExact`, `PromotedStay`,
  `BaselinesNotShared` (with no exception for overlap: the version's unique constraint decides).
  `SpentOnce` is not inductive: `SpentAreClosed` adds that a live scenario that was spent is
  promoted or archived until its status is set back, so `Load` cannot take it for a second
  spending; `FoundAsLoaded` adds that a request that was not overtaken finds its scenario
  unpromoted and its changes as it read them, so that what `PromotionsAreExact` says of the
  changes read holds of the changes there are. Types need that a promotion's number is at
  most the next one (`NumbersAreNext`), and `SpendingInv` carries the two parts together.
* **Leveling** — `TypeCorrect`, `LinksKept`, `MovesExplained`, `NeverEarlier`,
  `LeftoversStuck`, `SlotsFree`, for every network (cyclic ones too), load, choice of
  options and order of propagation. `LinksStayHonoured` is not inductive while propagation
  runs: the invariant is that a link can be late only when its predecessor is in `moved`; a
  move of a successor puts it there, and moves only ever go later, so the links into an
  activity that has moved stay honoured. `LeftoversStuck` rests on the heap being the
  conflicts of the present dates whenever something could still be popped from it.
  `SlotsFree` compares two sums: the search for a slot adds up the load without the
  activity, the overload check with it. That taking an element out of a sum subtracts its
  load, whatever order the fold follows, is an induction over finite sets, done as a least
  counterexample in the strict subset order, which needs no theorem with an operator
  parameter. Assumptions: finitely many activities, a natural capacity, natural start dates
  and loads (`ProjectsAssumption`).
* **JiraSync** — `LinksImplemented`: `Spec` implements `JiraLinks!Spec` under the mapping
  `life <- Life`; and `InsertionsValid`, for any number of requests, issues, attempts and
  any budgets. A commit writes rows that were checked long before, so the refinement needs
  the invariant `IInv`: an uncommitted row is one that its request has locked and that no
  committed row or other uncommitted row contradicts (`RowsPending`, `RowsDiffer`); a lock
  has one holder (`OneHolder`); a key that a request has got from Jira and not yet inserted
  is nobody else's (`KeysInOrder`, `KeysAwaited`); and only links that exist are dropped
  (`OnlyLinksGo`). Each step then maps to `Attach`, to `Detach`, or to a stutter.
  `JiraExchangeProofs` builds on both. `OneWayLinksHold`: what a request is going to write
  was allowed by the direction of the link when the request looked at it (`Aims`), and the
  refinement says that a link keeps its key and direction, so it is still allowed when the
  write is made. `DuplicatesNeedTrouble`: as long as `trouble` holds nothing but "overlap",
  there is one push at most, no link has gone, and an entity that has an issue is linked,
  has its row among the push's writes, or is about to get it (`Calm`); so a push that
  creates does so for an entity without an issue. It assumes `EntitiesAssumption`: no entity
  is called "nobody" or "variance", the owners of the issues that users and variance
  explanations create. `TypesHold` is inductive only as `TInv`: each request is at a step
  that its kind has (`Course`), carries what that step needs (`Fits`), and marks a link only
  where it has found one (`Marked`). `SettlingLasts` follows from it step by step: as long
  as no user acts by hand, a request or webhook about a settled activity carries the status
  that activity and issue share, or a percentage that maps to it (`Restful`), and a request
  for another activity is about another issue. `WatermarkHonest` has the invariant `WInv`:
  where nothing overlapped, one request at most is at work (`Alone`), every row is honest
  (`Honest`), and so is every mark that the request has still to write, given the names that
  it writes with it (`Marks`); a webhook's mark is the time it arrived at, which no change
  of an issue bears (`Unborn`). The budgets of the events are arbitrary naturals
  (`BudgetsAssumption`). The lemmas about single steps are at the end of `JiraSyncProofs`.

Every safety and action property of the passing runs is stated by one of these theorems. Only
model-checked are the four liveness properties `CalculateTerminates`, `CreationsFinish`,
`LevelingEnds` and `EveryRequestEnds`: they need fairness and ENABLED, which the prover does
not treat. Of the first, the safety part is proved (`PassesNeverStall`): in the
model an undetected cycle leaves the passes without a next activity, where the code's
`topological_sort` raises (`cpm.py:133-139`).

## Further disagreements seen in the code

They follow from the models, and have no run of their own:

* A creation is refused as circular because of a dependency that was deleted
  (`repositories/dependency.py:87` does not filter), although `dependencies.py:46` speaks of
  the graph the user sees; a pair that was deleted cannot be linked again.
* An MS Project file with a circular plan is imported as it is; from then on every
  calculation and every creation of a dependency fails (`msproject_import.py:403`).
* `update_activity` says that schedule fields "are recalculated automatically"
  (`activities.py:266`); nothing recalculates until `/schedule/calculate`.
* Two overlapping calculations can leave `is_critical` and `total_float` of a row from
  different networks, against `models/activity.py:51`: the exception in `FlagsStayMatched`.
* An activity and its link committed between the two reads make the engine raise `KeyError`,
  which `cpm.py:98-99` does not document: the exception in `AnswersAreCurrent`.
* Two overlapping approvals leave two approved baselines, against `baselines.py:269`, and
  every later approval then fails on them (`FailOnTwoApproved`); a deletion that checked
  before an approval committed deletes an approved baseline, against `baselines.py:231`: the
  exceptions in `ApprovalMovesThePMB` and `ApprovedAreKept`.
* A promoted scenario "cannot be further modified" (`scenarios.py:544`), yet it can be
  archived (`:467` checks no status), then set to active by PATCH and promoted again; its
  changes can be removed through another scenario (`:438`); and a request that loaded it
  before the promotion still writes to it: the exceptions in `PromotedStayAsTheyWere`. PATCH
  also sets `promoted` on a scenario without a baseline.
* "Creates a new baseline with all scenario changes applied" (`scenarios.py:543`): creations,
  deletions and every change of a dependency are passed over, and so are updates of rows
  beyond the first page of 100 activities or WBS elements (`scenario_promotion.py:140-141`,
  `:299-310`, `:336-347`, `:367-378`). The answer's `changes_count` counts them all the same
  (`:188`). A new duration goes into the snapshot beside the old dates and floats, since
  nothing is recalculated, and removed rows are among those on the page.
  `PromotionIsExact` says what a baseline does hold.
* The copies of a branch are made in one transaction and bear one `created_at`
  (`models/base.py:74`), by which `get_changes` orders them (`repositories/scenario.py:128`):
  of two updates of one field, a branch may apply the older one last.
* Two overlapping promotions can both succeed, against `scenarios.py:547`, when the second
  validates before the first commits and counts the baselines after: the exception in
  `SpentOnce`.
* Applying a scenario without changes answers `"archived": true` (`scenarios.py:726`) and
  archives nothing (`scenario_apply.py:130`).
* PATCH sets a status without `is_active`, so `active_only=true` lists archived scenarios,
  against `scenarios.py:65`.

Leveling:

* The parallel algorithm reports success once its heap is empty, although conflicts in which
  nobody may give way were popped from it and remain, against `resource_leveling.py:77`
  ("True if all over-allocations resolved"); `LeftoversAreStuck` says what a success does
  mean. The comparison endpoint prefers whichever algorithm reports it.
* Critical activities are "never" delayed (`resource_leveling.py:34`), yet propagation moves
  them like any successor; delays stay "within available float" (`:37`) only one shift at a
  time, so an activity that is shifted twice by the serial algorithm can exceed its float.
* An activity that alone exceeds the capacity finds no slot and, unless floats bind, is
  delayed by the whole length of the search in each iteration.
* An empty list of target resources means none to the serial algorithm and all to the
  parallel one.
* A recorded shift can be older than the final working date, when propagation moved the
  activity again. Applying writes the shift and not the date, leaves successors that moved
  without a shift where they were, and reruns with default options whatever the preview used.
  The written planned dates then lose to the early dates in the next run.

Jira synchronisation:

* Activities at 30 percent push "In Progress", and the webhook of that very change sets them
  to 50; an issue in "In Review" (75) is dragged back to "In Progress" by the progress run.
  The run does not look at the link's direction, so a `from_jira` issue is written to.
* The pull's "last-write-wins" (`jira_activity_sync.py:728`) compares the issue with the
  link's stamp and never with the time of the local edit. A webhook stamps the link with the
  time of its receipt, so a later pull passes over another change whose webhook was lost.
* A mapping that was deleted can never be made again: the unique constraints count
  soft-deleted rows. Every push that includes the entity then creates an issue, fails on the
  insert, and rolls back the links of the whole batch, leaving its new issues behind. The
  same holds for an integration: `program_id` is unique, so a program whose integration was
  deleted is never connected again.
* "Delete a Jira integration and all its mappings" (`jira_integration.py:191`) deletes the
  integration alone.
* A failing request marks its log row FAILED in the transaction that is rolled back.
* Creation is retried after a 5xx that may come after the effect, so one entity can get two
  issues: the exception "fault" in `DuplicateNeedsTrouble`.
* A push reads one page of 100 entities, removed ones included. Nothing calls the pull of
  WBS elements.

## What is not modelled

* **Within the modelled parts.** Snapshot contents, comparison and formatting; parsing of XML
  and calendars; authorisation (ownership only selects who may call a handler); leveling's
  metrics and the comparison's recommendation; descriptions, labels, epic links and log rows
  of the Jira exchange. Hash collisions, the 255-character limits and the conversion of
  working days to dates are abstracted away. A mapping made by hand may name both a WBS element
  and an activity, of which `create_mapping` looks up one (`jira_integration.py:567-575`,
  `schemas/jira_integration.py:94-95`); the model gives a mapping one entity. An update of an
  issue is up to three calls to Jira, each with its own retries (`jira_client.py:414-418`);
  the model takes them as one call with one count of attempts, of which any may fail before or
  after the effect. Bulk operations and `restore` of the base
  repository are not used by the modelled handlers.
* **Left out as arithmetic on rows.** EVMS, its EV methods, variance analysis, resource
  loading and cost: formulas over decimals with rounding, computed in one step from rows that
  one statement wrote. A model would repeat the formula. Their status changes are a single
  row read and written.
* **Left out as out of reach.** Monte Carlo (random floating point), the dashboard and
  simulation caches apart from the pattern that `ScheduleCalculation` covers, PDF and CSV
  reports, tokens and password hashing (libraries), middleware, the frontend and migrations.
* **Left out although it has a hazard.** The code generation of WBS elements and activities,
  the deletion of a subtree, the running balance of the management reserve, resource pools.
  Each is two statements of one handler with a race that one interleaving shows; they are
  listed under `hazards` with the line where they bite.

## Where to go on

1. `ManagementReserve` and `WBS`: the balance and the codes under overlap, with the tree's
   shape as the invariant.
2. An abstract cache ("an answer is the schedule of some network committed since the request
   began") that `ScheduleCalculation` implements when no edit falls between its two reads; the
   dashboard cache as the variant with fixed keys.
3. Theorems: the safety part of the other three liveness properties, as `PassesNeverStall` is
   for the first (a variant that falls with each turn of propagation on an acyclic network;
   a waiting insert always waits for one that can commit); that an answer of
   `ScheduleCalculation` implements the abstract cache of 2; and the new modules of 1.
