------------------------------ MODULE JiraSync ------------------------------
(***************************************************************************)
(* The exchange between the program's activities and WBS elements and the  *)
(* issues of a Jira project: the sync and mapping endpoints                *)
(* (api/src/api/v1/endpoints/jira_integration.py), the services they call  *)
(* (jira_activity_sync.py, jira_wbs_sync.py), the webhook receiver         *)
(* (jira_webhook.py, jira_webhook_processor.py), the issue that a variance *)
(* explanation asks for, and the client that retries calls                 *)
(* (jira_client.py).                                                       *)
(*                                                                         *)
(* A request runs in one database transaction that lasts over all of its   *)
(* HTTP calls. It sees its own writes and the others' commits, an UPDATE   *)
(* locks its row until the end, and an UPDATE or INSERT that meets a lock  *)
(* waits. PostgreSQL rolls one request of a circle of waiting ones back.   *)
(*                                                                         *)
(* Contents are abstract: the text of a summary or name is the clock tick  *)
(* at which somebody wrote it. Descriptions, labels, epic links, log rows  *)
(* and last_synced_at carry no decision and are left out.                  *)
(***************************************************************************)
EXTENDS Naturals, FiniteSets

CONSTANTS
    Activities,   \* the program's activities
    Elements,     \* its WBS elements of the levels that are synced
    Code,         \* their order by code or path
    PageLimit,    \* how many of them a push reads
    Requests,     \* requests that the server works on at a time
    MaxIssues,    \* bound: issues that Jira ever creates
    Budgets,      \* bound: how often each kind of event happens
    MaxRetries    \* attempts of one call

\* The kinds of events that a budget counts: by users of the two sides, requests
\* by kind, deliveries of webhooks, and calls that fail.
Events == {"issue", "retitle", "move", "erase",
           "connect", "switch", "disconnect", "rename", "progress", "remove",
           "link", "unlink", "push", "pull", "sync", "alert", "hook", "fault"}

ASSUME BudgetsAssumption == Budgets \subseteq [Events -> Nat]
ASSUME MaxRetriesAssumption == MaxRetries \in Nat \ {0}
ASSUME MaxIssuesAssumption == MaxIssues \in Nat
ASSUME CodeAssumption ==
    /\ Code \in [Activities \cup Elements -> Nat]
    /\ \A all \in {Activities, Elements} : \A e, f \in all : Code[e] = Code[f] => e = f

Entities == Activities \cup Elements
ASSUME EntitiesAssumption == {"nobody", "variance"} \cap Entities = {}

Keys == 1..MaxIssues
NoKey == 0
NoStamp == 0

Percents == {0, 30, 50, 75, 100}
Statuses == {"To Do", "In Progress", "In Review", "Done"}
NoStatus == "unchanged"
Directions == {"to_jira", "from_jira", "bidirectional"}
ToJira == {"to_jira", "bidirectional"}
FromJira == {"from_jira", "bidirectional"}

NoLink == [state |-> "none", key |-> NoKey, direction |-> "to_jira",
           stamp |-> NoStamp, rank |-> 0]
NoIssue == [state |-> "none", owner |-> "nobody", summary |-> 0,
            status |-> "To Do", updated |-> 0]

\* What a request has in hand between two steps, and its uncommitted writes.
Nothing == [key |-> NoKey, summary |-> 0, status |-> NoStatus, at |-> 0,
            name |-> 0, percent |-> 0]
NoWrites == [rows |-> <<>>, stamps |-> <<>>, gone |-> {},
             names |-> <<>>, percents |-> <<>>]
Idle == [pc |-> "idle", kind |-> "none", plan |-> <<>>, here |-> "nobody",
         began |-> 0, got |-> Nothing, tries |-> 0, writes |-> NoWrites, locks |-> {}]

VARIABLES
    integration,  \* "absent", "on", "off" (sync_enabled is false) or "deleted"
    link,         \* the jira_mappings row of each entity, or NoLink
    name,         \* when the name of each entity was written
    percent,      \* percent_complete of each activity
    alive,        \* entities whose deleted_at is not set
    issue,        \* the issues of the Jira project
    hooks,        \* webhooks that Jira has sent
    clock,        \* time, as both sides see it
    req,          \* the requests at work
    budget,       \* what may still happen
    trouble       \* what has gone wrong or got mixed up so far (history)

database == <<integration, link, name, percent, alive>>
jira == <<issue, hooks, clock>>
vars == <<database, jira, req, budget, trouble>>

\* f with e mapped to v, and f overridden by g.
With(f, e, v) == [x \in DOMAIN f \cup {e} |-> IF x = e THEN v ELSE f[x]]
Overlay(f, g) == [x \in DOMAIN f |-> IF x \in DOMAIN g THEN g[x] ELSE f[x]]

Spend(what) == /\ budget[what] > 0
               /\ budget' = [budget EXCEPT ![what] = @ - 1]

Active == {r \in Requests : req[r].pc # "idle"}

Pushing == {r \in Active : req[r].kind = "push"}

Live(e) == link[e].state = "live"

\* History: a request begins, or a link is made by hand, beside another one.
Beside(push) ==
    trouble' = trouble \cup (IF Active # {} THEN {"overlap"} ELSE {})
                       \cup (IF push /\ Pushing # {} THEN {"pushes"} ELSE {})

Init ==
    /\ budget \in Budgets
    /\ integration = "absent"
    /\ link = [e \in Entities |-> NoLink]
    /\ name = [e \in Entities |-> 1]
    /\ percent = [e \in Activities |-> 0]
    /\ alive = Entities
    /\ issue = [k \in Keys |-> NoIssue]
    /\ hooks = {}
    /\ clock = 1
    /\ req = [r \in Requests |-> Idle]
    /\ trouble = {}

-----------------------------------------------------------------------------
(* Status and progress, in both directions.                                *)

StatusOf(p) == IF p = 100 THEN "Done" ELSE IF p > 0 THEN "In Progress" ELSE "To Do"

\* Mutant: a typo in the table.
MutantPercentOfTypo(s) == IF s = "Done" THEN 100 ELSE IF s = "In Review" THEN 75 ELSE 0

PercentOf(s) ==
    CASE s = "To Do" -> 0
      [] s = "In Progress" -> 50
      [] s = "In Review" -> 75
      [] s = "Done" -> 100

\* What a webhook, or a pull, makes of the progress p of an activity.
HookPercent(s, p) == IF s = NoStatus THEN p ELSE PercentOf(s)
PullPercent(s, p) ==
    IF s = "Done" THEN 100
    ELSE IF s = "In Progress" /\ p = 0 THEN 50
    ELSE p

-----------------------------------------------------------------------------
(* The tracker (external). It stamps each change with its clock and sends  *)
(* a webhook for it, also for the changes that this program asks for.      *)

Created == {k \in Keys : issue[k].state # "none"}
Open(k) == issue[k].state = "open"
NextKey == Cardinality(Created) + 1

NewIssue(owner, text) ==
    /\ NextKey \in Keys
    /\ issue' = [issue EXCEPT ![NextKey] =
                    [state |-> "open", owner |-> owner, summary |-> text,
                     status |-> "To Do", updated |-> clock + 1]]
    /\ hooks' = hooks \cup
                {[event |-> "created", key |-> NextKey, summary |-> text,
                  status |-> NoStatus, at |-> clock + 1]}
    /\ clock' = clock + 1

EditIssue(k, text, s) ==
    /\ Open(k)
    /\ issue' = [issue EXCEPT ![k].summary = text, ![k].status = s,
                              ![k].updated = clock + 1]
    /\ hooks' = hooks \cup
                {[event |-> "updated", key |-> k, summary |-> text,
                  status |-> IF s = issue[k].status THEN NoStatus ELSE s,
                  at |-> clock + 1]}
    /\ clock' = clock + 1

UserCreatesIssue ==
    /\ Spend("issue")
    /\ NewIssue("nobody", clock + 1)
    /\ UNCHANGED <<database, req, trouble>>

UserRetitlesIssue(k) ==
    /\ Spend("retitle")
    /\ EditIssue(k, clock + 1, issue[k].status)
    /\ UNCHANGED <<database, req, trouble>>

UserMovesIssue(k) ==
    /\ Spend("move")
    /\ \E s \in Statuses \ {issue[k].status} : EditIssue(k, issue[k].summary, s)
    /\ UNCHANGED <<database, req, trouble>>

UserErasesIssue(k) ==
    /\ Spend("erase")
    /\ Open(k)
    /\ issue' = [issue EXCEPT ![k].state = "deleted"]
    /\ hooks' = hooks \cup
                {[event |-> "deleted", key |-> k, summary |-> issue[k].summary,
                  status |-> NoStatus, at |-> clock + 1]}
    /\ clock' = clock + 1
    /\ UNCHANGED <<database, req, trouble>>

-----------------------------------------------------------------------------
(* Endpoints that read and write the database in one go. They wait for the *)
(* rows that a request at work has locked.                                 *)

Free(x, r) == \A s \in Requests \ {r} : x \notin req[s].locks
Unlocked(x) == \A s \in Requests : x \notin req[s].locks

Connect ==
    /\ Spend("connect")
    /\ integration = "absent"
    /\ integration' = "on"
    /\ UNCHANGED <<link, name, percent, alive, jira, req, trouble>>

SwitchSync ==
    /\ Spend("switch")
    /\ integration \in {"on", "off"}
    /\ integration' \in {"on", "off"}
    /\ UNCHANGED <<link, name, percent, alive, jira, req, trouble>>

\* The row stays, program_id is unique, so the program never gets another.
DeleteIntegration ==
    /\ Spend("disconnect")
    /\ integration \in {"on", "off"}
    /\ integration' = "deleted"
    /\ UNCHANGED <<link, name, percent, alive, jira, req, trouble>>

Rename(e) ==
    /\ Spend("rename")
    /\ e \in alive
    /\ Unlocked(<<"entity", e>>)
    /\ name' = [name EXCEPT ![e] = clock + 1]
    /\ clock' = clock + 1
    /\ UNCHANGED <<integration, link, percent, alive, issue, hooks, req, trouble>>

Progress(e, p) ==
    /\ Spend("progress")
    /\ e \in alive \cap Activities
    /\ Unlocked(<<"entity", e>>)
    /\ percent' = [percent EXCEPT ![e] = p]
    /\ UNCHANGED <<integration, link, name, alive, jira, req, trouble>>

Remove(e) ==
    /\ Spend("remove")
    /\ e \in alive
    /\ Unlocked(<<"entity", e>>)
    /\ alive' = alive \ {e}
    /\ UNCHANGED <<integration, link, name, percent, jira, req, trouble>>

\* The unique constraints: one row per entity and per issue, dead ones too.
\* Mutant: only live rows count.
MutantLinkAllowedLiveOnly(e, k) ==
    /\ link[e].state # "live"
    /\ \A f \in Entities : Live(f) => link[f].key # k

LinkAllowed(e, k) ==
    /\ link[e].state = "none"
    /\ \A f \in Entities : link[f].key # k

CreateMapping(e, k, d) ==
    /\ Spend("link")
    /\ integration \in {"on", "off"}
    /\ e \in alive
    /\ k \in Created
    /\ LinkAllowed(e, k)
    /\ Unlocked(<<"link", e>>)
    /\ \A r \in Requests : \A f \in DOMAIN req[r].writes.rows :
          req[r].writes.rows[f].key # k
    /\ link' = [link EXCEPT ![e] =
                   [state |-> "live", key |-> k, direction |-> d,
                    stamp |-> NoStamp, rank |-> clock]]
    /\ Beside(TRUE)
    /\ UNCHANGED <<integration, name, percent, alive, jira, req>>

DeleteMapping(e) ==
    /\ Spend("unlink")
    /\ Live(e)
    /\ Unlocked(<<"link", e>>)
    /\ link' = [link EXCEPT ![e].state = "gone"]
    /\ trouble' = trouble \cup {"unlink"}
    /\ UNCHANGED <<integration, name, percent, alive, jira, req>>

-----------------------------------------------------------------------------
(* A request: what it sets out to do, and how it goes from item to item.   *)

Put(r, q) == req' = [req EXCEPT ![r] = q]

\* Mutant: a linked entity is created again.
MutantFirstStepCreates(kind, item) ==
    CASE kind = "push" -> "create"
      [] kind = "pull" -> "fetch"
      [] kind = "sync" -> "aim"

\* The step that an item begins with.
FirstStep(kind, item) ==
    CASE kind = "push" -> IF item.key = NoKey THEN "create" ELSE "update"
      [] kind = "pull" -> "fetch"
      [] kind = "sync" -> "aim"

\* The links of one transaction bear the time it began: any may come first.
Turns(plan) == {e \in DOMAIN plan : \A f \in DOMAIN plan : plan[e].rank =< plan[f].rank}

Proceed(r, q) ==
    \/ /\ DOMAIN q.plan = {}
       /\ Put(r, [q EXCEPT !.pc = "commit", !.here = "nobody"])
    \/ \E e \in Turns(q.plan) :
          Put(r, [q EXCEPT !.pc = FirstStep(q.kind, q.plan[e]), !.here = e])

\* The item is done, or has failed with an error that the loop collects.
NextItem(r, q) ==
    Proceed(r, [q EXCEPT !.plan = [e \in DOMAIN @ \ {q.here} |-> @[e]],
                         !.got = Nothing, !.tries = 0])

Start(r, kind, plan) ==
    /\ Spend(kind)
    /\ req[r].pc = "idle"
    /\ integration = "on"
    /\ DOMAIN plan # {}
    /\ Proceed(r, [Idle EXCEPT !.kind = kind, !.plan = plan,
                              !.began = IF kind = "push" THEN clock ELSE 0])
    /\ Beside(kind = "push")
    /\ UNCHANGED <<database, jira>>

Item(e, rank) == [rank |-> rank, key |-> IF Live(e) THEN link[e].key ELSE NoKey,
                  name |-> name[e], stamp |-> link[e].stamp]

\* get_by_program: the first rows by code or path, removed ones not left out.
Page(all) == {e \in all : Cardinality({f \in all : Code[f] < Code[e]}) < PageLimit}

StartPush(r) ==
    \E all \in {Activities, Elements} : \E chosen \in SUBSET Page(all) :
       LET pushed == {e \in chosen : Live(e) => link[e].direction \in ToJira}
       IN  Start(r, "push", [e \in pushed |-> Item(e, Code[e])])

Mapped == {e \in Activities : Live(e)}

StartPull(r) ==
    \E chosen \in SUBSET {e \in Mapped : link[e].direction \in FromJira} :
       Start(r, "pull", [e \in chosen |-> Item(e, link[e].rank)])

\* The direction of the links is not looked at.
StartProgress(r) ==
    \E chosen \in SUBSET Mapped :
       Start(r, "sync", [e \in chosen |-> Item(e, link[e].rank)])

\* The issue that a variance explanation asks for has no entity of its own.
StartAlert(r) ==
    /\ Spend("alert")
    /\ req[r].pc = "idle"
    /\ integration = "on"
    /\ Put(r, [Idle EXCEPT !.kind = "alert", !.pc = "create", !.here = "variance"])
    /\ Beside(FALSE)
    /\ UNCHANGED <<database, jira>>

Lock(q, x) == [q EXCEPT !.locks = @ \cup {x}]
RollBack(r) == Put(r, Idle)

\* Mutant: one attempt more than MAX_RETRIES.
MutantFaultOnceMore(r, effect, GivenUp) ==
    /\ Spend("fault")
    /\ effect \/ UNCHANGED jira
    /\ \/ req[r].tries < MaxRetries /\ Put(r, [req[r] EXCEPT !.tries = @ + 1])
       \/ GivenUp
    /\ trouble' = trouble \cup {"fault"}
    /\ UNCHANGED database

\* A call fails, with or without its effect on Jira. The client tries again
\* after a 429 or 5xx and gives up at once on any other error.
Fault(r, effect, GivenUp) ==
    /\ Spend("fault")
    /\ effect \/ UNCHANGED jira
    /\ \/ /\ req[r].tries + 1 < MaxRetries
          /\ Put(r, [req[r] EXCEPT !.tries = @ + 1])
       \/ GivenUp
    /\ trouble' = trouble \cup {"fault"}
    /\ UNCHANGED database

Quietly == UNCHANGED <<database, budget, trouble>>
Inside == UNCHANGED <<database, jira, budget, trouble>>

-----------------------------------------------------------------------------
(* The steps of a request. A call to Jira is one step, a statement of the  *)
(* database another, and each is about the item that the request is at.    *)

Create(r) ==
    LET q == req[r]
        e == q.here
        text == IF e \in Entities THEN q.plan[e].name ELSE clock + 1
        Answered == [q EXCEPT !.pc = "insert", !.tries = 0,
                              !.got = [@ EXCEPT !.key = NextKey, !.at = clock + 1]]
    IN  /\ req[r].pc = "create"
        /\ \/ /\ NewIssue(e, text)
              /\ IF e \in Entities THEN Put(r, Answered) ELSE NextItem(r, q)
              /\ Quietly
           \/ Fault(r, NewIssue(e, text), NextItem(r, q))

\* A ConflictError is no JiraSyncError: it ends the request, and what the
\* request has created in Jira by then stays there without a link.
Insert(r) ==
    LET q == req[r]
        e == q.here
        mine == <<"link", e>>
        row == [state |-> "live", key |-> q.got.key, direction |-> "bidirectional",
                stamp |-> q.got.at, rank |-> q.began]
    IN  /\ req[r].pc = "insert"
        /\ Free(mine, r)
        /\ IF LinkAllowed(e, q.got.key)
           THEN NextItem(r, Lock([q EXCEPT !.writes.rows = With(@, e, row)], mine))
           ELSE RollBack(r)
        /\ Inside

Update(r) ==
    LET q == req[r]
        e == q.here
        k == q.plan[e].key
        Effect == EditIssue(k, q.plan[e].name, issue[k].status)
    IN  /\ req[r].pc = "update"
        /\ \/ Effect /\ Put(r, [q EXCEPT !.pc = "touch", !.tries = 0]) /\ Quietly
           \/ ~Open(k) /\ NextItem(r, q) /\ Inside
           \/ Fault(r, Effect, NextItem(r, q))

\* last_synced_at of the link is written.
Touch(r) ==
    LET mine == <<"link", req[r].here>>
    IN  /\ req[r].pc = "touch"
        /\ Free(mine, r)
        /\ NextItem(r, Lock(req[r], mine))
        /\ Inside

\* An issue that is not newer than the link was when the request began is
\* passed over.
Fetch(r) ==
    LET q == req[r]
        e == q.here
        seen == issue[q.plan[e].key]
        stamp == q.plan[e].stamp
    IN  /\ req[r].pc = "fetch"
        /\ \/ /\ \/ ~Open(q.plan[e].key)
                 \/ stamp # NoStamp /\ seen.updated =< stamp
              /\ NextItem(r, q)
              /\ Inside
           \/ /\ Open(q.plan[e].key)
              /\ stamp = NoStamp \/ seen.updated > stamp
              /\ Put(r, [q EXCEPT !.pc = "read", !.tries = 0,
                          !.got = [@ EXCEPT !.summary = seen.summary,
                                            !.status = seen.status, !.at = seen.updated]])
              /\ Inside
           \/ Fault(r, FALSE, NextItem(r, q))

\* Mutant: the summary is forgotten.
MutantReadNoSummary(r) ==
    /\ req[r].pc = "read"
    /\ Put(r, [req[r] EXCEPT !.pc = "write"])
    /\ Inside

\* The entity is read. A field that is set to the value just read is no
\* change and is not written, whatever the row holds by the time of the write.
Read(r) ==
    LET q == req[r]
        e == q.here
        pull == q.kind = "pull"
        p == IF e \notin Activities THEN 0
             ELSE IF pull THEN PullPercent(q.got.status, percent[e])
             ELSE HookPercent(q.got.status, percent[e])
        renamed == q.got.summary # name[e]
        moved == e \in Activities /\ p # percent[e]
        Changed == [q EXCEPT !.pc = "write",
           !.writes.names = IF renamed THEN With(@, e, q.got.summary) ELSE @,
           !.writes.percents = IF moved THEN With(@, e, p) ELSE @]
    IN  /\ req[r].pc = "read"
        /\ IF e \in alive /\ (pull \/ renamed \/ moved)
           THEN Put(r, Changed) ELSE NextItem(r, q)
        /\ Inside

\* A pull locks the entity first and its link second, a webhook the other
\* way round.
Write(r) ==
    LET mine == <<"entity", req[r].here>>
        q == Lock(req[r], mine)
    IN  /\ req[r].pc = "write"
        /\ Free(mine, r)
        /\ IF q.kind = "pull" THEN Put(r, [q EXCEPT !.pc = "stamp"]) ELSE NextItem(r, q)
        /\ Inside

Stamp(r) ==
    LET e == req[r].here
        mine == <<"link", e>>
        q == Lock([req[r] EXCEPT !.writes.stamps = With(@, e, req[r].got.at)], mine)
    IN  /\ req[r].pc = "stamp"
        /\ Free(mine, r)
        /\ IF q.kind = "updated" THEN Put(r, [q EXCEPT !.pc = "read"]) ELSE NextItem(r, q)
        /\ Inside

Drop(r) ==
    LET e == req[r].here
        mine == <<"link", e>>
    IN  /\ req[r].pc = "drop"
        /\ Free(mine, r)
        /\ NextItem(r, Lock([req[r] EXCEPT !.writes.gone = @ \cup {e}], mine))
        /\ Inside

Aim(r) ==
    LET q == req[r]
        e == q.here
    IN  /\ req[r].pc = "aim"
        /\ IF e \in alive
           THEN Put(r, [q EXCEPT !.pc = "compare", !.got.status = StatusOf(percent[e])])
           ELSE NextItem(r, q)
        /\ Inside

\* Mutant: a missing issue is asked for again, with no end to it.
MutantCompareUntilFound(r) ==
    LET k == req[r].plan[req[r].here].key
        next == IF issue[k].status = req[r].got.status THEN "touch" ELSE "transition"
    IN  /\ req[r].pc = "compare"
        /\ Put(r, IF Open(k) THEN [req[r] EXCEPT !.pc = next, !.tries = 0] ELSE req[r])
        /\ Inside

Compare(r) ==
    LET q == req[r]
        e == q.here
        k == q.plan[e].key
        next == IF issue[k].status = q.got.status THEN "touch" ELSE "transition"
    IN  /\ req[r].pc = "compare"
        /\ \/ Open(k) /\ Put(r, [q EXCEPT !.pc = next, !.tries = 0]) /\ Inside
           \/ ~Open(k) /\ NextItem(r, q) /\ Inside
           \/ Fault(r, FALSE, NextItem(r, q))

\* A transition that is refused, or fails, is only logged.
Transition(r) ==
    LET q == req[r]
        e == q.here
        k == q.plan[e].key
        Touching == Put(r, [q EXCEPT !.pc = "touch", !.tries = 0])
        Effect == EditIssue(k, issue[k].summary, q.got.status)
    IN  /\ req[r].pc = "transition"
        /\ \/ Effect /\ Touching /\ Quietly
           \/ ~Open(k) /\ Touching /\ Inside
           \/ Fault(r, Effect, Touching)

\* The link of e once the writes w are committed.
LinkAfter(e, w) ==
    IF e \in DOMAIN w.rows THEN w.rows[e]
    ELSE [link[e] EXCEPT !.state = IF e \in w.gone THEN "gone" ELSE @,
                         !.stamp = IF e \in DOMAIN w.stamps THEN w.stamps[e] ELSE @]

Commit(r) ==
    LET w == req[r].writes
    IN  /\ req[r].pc = "commit"
        /\ link' = [e \in Entities |-> LinkAfter(e, w)]
        /\ name' = Overlay(name, w.names)
        /\ percent' = Overlay(percent, w.percents)
        /\ Put(r, Idle)
        /\ trouble' = trouble \cup (IF w.gone # {} THEN {"unlink"} ELSE {})
        /\ UNCHANGED <<integration, alive, jira, budget>>

\* The database breaks a circle of requests that wait for one another.
Wanted(r) ==
    CASE req[r].pc \in {"insert", "touch", "stamp", "drop"} -> {<<"link", req[r].here>>}
      [] req[r].pc = "write" -> {<<"entity", req[r].here>>}
      [] OTHER -> {}

Circle(C) ==
    /\ \A s \in C : \E t \in C \ {s} : Wanted(s) \cap req[t].locks # {}
    /\ \A t \in C : \E s \in C \ {t} : Wanted(s) \cap req[t].locks # {}

Victim(r) ==
    /\ \E C \in SUBSET Requests : r \in C /\ Circle(C)
    /\ RollBack(r)
    /\ trouble' = trouble \cup {"victim"}
    /\ UNCHANGED <<database, jira, budget>>

-----------------------------------------------------------------------------
(* Webhooks. Jira may send one twice, late, or never get through.          *)

\* Mutant: the direction of the link is not looked at.
MutantTargetAnyDirection(h) == {e \in Entities : Live(e) /\ link[e].key = h.key}

Target(h) == {e \in Entities : Live(e) /\ link[e].key = h.key
                               /\ link[e].direction \in FromJira}

ReceiveHook(r, h) ==
    /\ Spend("hook")
    /\ req[r].pc = "idle"
    /\ integration = "on"
    /\ hooks' \in {hooks, hooks \ {h}}
    /\ clock' = clock + 1
    /\ \E e \in Target(h) :
          Put(r, [Idle EXCEPT !.kind = h.event, !.here = e,
                    !.pc = IF h.event = "deleted" THEN "drop" ELSE "stamp",
                    !.got = [@ EXCEPT !.summary = h.summary, !.status = h.status,
                                      !.at = clock + 1]])
    /\ Beside(FALSE)
    /\ UNCHANGED <<database, issue>>

\* No integration, sync switched off, no live link, or a link to Jira only.
IgnoreHook(h) ==
    /\ Spend("hook")
    /\ integration # "on" \/ Target(h) = {}
    /\ hooks' = hooks \ {h}
    /\ UNCHANGED <<database, issue, clock, req, trouble>>

-----------------------------------------------------------------------------
RequestStep(r) ==
    \/ Create(r) \/ Insert(r) \/ Update(r) \/ Touch(r)
    \/ Fetch(r) \/ Read(r) \/ Write(r) \/ Stamp(r) \/ Drop(r)
    \/ Aim(r) \/ Compare(r) \/ Transition(r)
    \/ Commit(r) \/ Victim(r)

Begin(r) ==
    \/ StartPush(r) \/ StartPull(r) \/ StartProgress(r) \/ StartAlert(r)
    \/ \E h \in hooks : ReceiveHook(r, h)

Users ==
    \/ UserCreatesIssue
    \/ \E k \in Keys : UserRetitlesIssue(k) \/ UserMovesIssue(k) \/ UserErasesIssue(k)
    \/ Connect \/ SwitchSync \/ DeleteIntegration
    \/ \E e \in Entities : Rename(e) \/ Remove(e) \/ DeleteMapping(e)
    \/ \E e \in Activities, p \in Percents : Progress(e, p)
    \/ \E e \in Entities, k \in Keys, d \in Directions : CreateMapping(e, k, d)

Next ==
    \/ \E r \in Requests : Begin(r) \/ RequestStep(r)
    \/ \E h \in hooks : IgnoreHook(h)
    \/ Users

\* A request that has begun is worked on until it ends. Nothing makes a user
\* act or a webhook arrive.
Spec == Init /\ [][Next]_vars /\ \A r \in Requests : WF_vars(RequestStep(r))

-----------------------------------------------------------------------------
(* What must hold.                                                         *)

Row == [state : {"live", "gone"}, key : Keys, direction : Directions,
        stamp : Nat, rank : Nat]
ItemType == [rank : Nat, key : Keys \cup {NoKey}, name : Nat, stamp : Nat]

IsPartial(f, S) == f = [x \in DOMAIN f |-> f[x]] /\ DOMAIN f \subseteq S

RequestOK(q) ==
    /\ q = [pc |-> q.pc, kind |-> q.kind, plan |-> q.plan, here |-> q.here,
            began |-> q.began, got |-> q.got, tries |-> q.tries, writes |-> q.writes, locks |-> q.locks]
    /\ q.pc \in {"idle", "create", "insert", "update", "touch", "fetch", "read",
                 "write", "stamp", "drop", "aim", "compare", "transition", "commit"}
    /\ IsPartial(q.plan, Entities)
    /\ \A e \in DOMAIN q.plan : q.plan[e] \in ItemType
    /\ q.here \in Entities \cup {"nobody", "variance"}
    /\ q.got.key \in Keys \cup {NoKey}
    /\ q.tries \in 0..(MaxRetries - 1)
    /\ IsPartial(q.writes.rows, Entities)
    /\ \A e \in DOMAIN q.writes.rows : q.writes.rows[e] \in Row
    /\ q.locks \subseteq {"link", "entity"} \X Entities

\* Every part of the state has the shape that the tables, Jira's answers and
\* the handlers' variables have.
TypeOK ==
    /\ integration \in {"absent", "on", "off", "deleted"}
    /\ \A e \in Entities : link[e] = NoLink \/ link[e] \in Row
    /\ DOMAIN link = Entities
    /\ name \in [Entities -> Nat]
    /\ percent \in [Activities -> Percents]
    /\ alive \subseteq Entities
    /\ \A k \in Keys : issue[k].status \in Statuses /\ issue[k].updated =< clock
    /\ \A h \in hooks : h.key \in Created /\ h.at =< clock
    /\ \A r \in Requests : RequestOK(req[r])
    /\ trouble \subseteq {"fault", "unlink", "overlap", "pushes", "victim"}

\* However pushes, pulls, webhooks and users alternate, an entity gets a second
\* issue only after a call to Jira failed, a link was taken away, a push ran
\* beside another or beside a new link, or the database rolled a request back.
DuplicateNeedsTrouble ==
    trouble \subseteq {"overlap"} =>
       \A j, k \in Created :
          issue[j].owner = issue[k].owner /\ issue[j].owner \in Entities => j = k

\* Where requests do not overlap, a link whose stamp is the time of its issue's
\* last change means that the activity has taken a text at least that new: the
\* pull never marks a change as seen that it has not applied.
PullWatermarkIsHonest ==
    \A e \in Activities :
       /\ "overlap" \notin trouble
       /\ Active = {}
       /\ Live(e)
       /\ Open(link[e].key)
       /\ link[e].stamp = issue[link[e].key].updated
       => name[e] >= issue[link[e].key].summary

Quiet(e) ==
    /\ \A h \in hooks : h.key = link[e].key => h.status \in {NoStatus, issue[h.key].status}
    /\ \A r \in Requests :
          /\ req[r].here = e => req[r].got.status \in {NoStatus, issue[link[e].key].status}
          /\ e \in DOMAIN req[r].writes.percents =>
                StatusOf(req[r].writes.percents[e]) = issue[link[e].key].status

\* The activity and its issue agree, and nothing under way says otherwise.
Settled(e) ==
    /\ Live(e)
    /\ Open(link[e].key)
    /\ issue[link[e].key].status = StatusOf(percent[e])
    /\ Quiet(e)

ByHand == {"progress", "move", "erase", "unlink"}

\* The synchronisation comes to rest: once an activity and its issue agree,
\* pushes, pulls, progress runs and the webhooks they cause, late or twice
\* delivered ones included, do not make them disagree again.
SettledStaysSettled ==
    [][(\A what \in ByHand : budget'[what] = budget[what]) =>
          \A e \in Activities : Settled(e) => Settled(e)']_vars

\* A link to Jira only never changes the program's name, and a link from Jira
\* only never changes the issue's summary, whatever was under way when it was
\* made: those who work on the two sides alone do.
OneWayLinks ==
    [][\A e \in Entities :
          /\ Live(e) /\ link[e].direction = "to_jira" /\ name'[e] # name[e]
             => Rename(e)
          /\ Live(e) /\ link[e].direction = "from_jira" /\ Open(link[e].key)
             /\ issue'[link[e].key].summary # issue[link[e].key].summary
             => UserRetitlesIssue(link[e].key)]_vars

\* Every request ends, also one that waits for rows of others.
EveryRequestEnds ==
    \A r \in Requests : req[r].pc # "idle" ~> req[r].pc = "idle"

\* What JiraLinks sees of a row.
Life == [e \in Entities |->
           IF link[e].state = "none" THEN [state |-> "none"]
           ELSE [state |-> link[e].state, key |-> link[e].key,
                 direction |-> link[e].direction]]
Links == INSTANCE JiraLinks WITH life <- Life

\* The rows of the mapping table keep the promises of JiraLinks: one link per
\* entity and per issue, for good, in the direction it was made with.
LinksRefined == Links!Spec
=============================================================================
